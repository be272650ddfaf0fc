------------------------------ MODULE Sessions ------------------------------
(***************************************************************************)
(* A user's password, sessions, second factor and e-mailed secrets:        *)
(*                                                                         *)
(*   modules/auth/auth.service.ts      login, logout, sendOtp, verifyOtp   *)
(*   modules/auth/mfa.service.ts       enroll, activate, challenge, codes  *)
(*   modules/verification/verification.service.ts   reset, verify-email    *)
(*   middleware/require-auth.ts        who may call them                   *)
(*                                                                         *)
(* Every handler reads, decides, and writes by id in a later statement or  *)
(* transaction, so requests overlap between their steps.  A wrong password *)
(* or token changes nothing and is left out, except where it is counted.   *)
(***************************************************************************)
EXTENDS Integers, FiniteSets

CONSTANTS
    Clients,         \* requests in progress at a time
    MaxSessions,     \* bound: sessions opened
    MaxFactors,      \* bound: factors enrolled
    MaxSets,         \* bound: sets of recovery codes generated
    CodesPerSet,     \* 8 to 12
    MaxChallenges,   \* bound: e-mailed secrets
    Purposes,        \* of them
    MaxAttempts,     \* VerificationChallenge.maxAttempts
    SessionLife,     \* SESSION_TTL_DAYS
    StepUpLife,      \* maxAgeSeconds
    SecretLife,      \* resetLinkMinutes, verificationOtpMinutes
    MaxTime,         \* bound: the clock
    MaxTurns,        \* bound: requests begun
    Established      \* whether the account starts with a factor, codes and a session

SessionIds == 1..MaxSessions
FactorIds == 1..MaxFactors
Codes == (1..MaxSets) \X (1..CodesPerSet)
ChallengeIds == 1..MaxChallenges
Time == 0..MaxTime

ASSUME SessionsAssumption ==
    /\ MaxSessions \in Nat \ {0}
    /\ MaxFactors \in Nat \ {0}
    /\ MaxSets \in Nat \ {0}
    /\ CodesPerSet \in Nat \ {0}
    /\ MaxChallenges \in Nat
    /\ Purposes \subseteq {"PASSWORD_RESET", "CONTACT_VERIFICATION", "OTP"}
    /\ MaxAttempts \in Nat \ {0}
    /\ SessionLife \in Nat
    /\ StepUpLife \in Nat
    /\ SecretLife \in Nat
    /\ MaxTime \in Nat
    /\ MaxTurns \in Nat
    /\ Established \subseteq BOOLEAN

VARIABLES
    now,
    password,   \* which password User.passwordHash is of; 0 is the random one of registration
    session,    \* the Session rows
    factor,     \* MfaFactor.status, "NONE" before the row is there
    code,       \* the MfaRecoveryCode rows: "NONE", "FRESH", "USED", "DELETED"
    challenge,  \* the VerificationChallenge and VerificationCode rows
    verified,   \* emailVerifiedAt is set
    pc,         \* what a request does next
    by,         \* the session it came with, 0 if none
    target,     \* the row it is about
    seen,       \* what it read there
    held,       \* sessions and codes its transaction has written
    missed,     \* what others have changed since it read
    late,       \* sessions opened with a password that was reset meanwhile
    stale,      \* sessions stamped while the factor or the codes were changing
    uses,       \* how often a secret has worked
    contended,  \* secrets that a request used after another one had
    guesses,    \* wrong codes that were compared
    turns       \* how much of MaxTurns is used

rowVars == <<password, session, factor, code, challenge, verified>>
callVars == <<pc, by, target, seen, held>>
traceVars == <<late, stale, uses, contended, guesses>>
vars == <<now, rowVars, callVars, missed, traceVars, turns>>

NoChallenge == [purpose |-> "NONE", status |-> "NONE", until |-> 0, attempts |-> 0]

NoSession == [password |-> 0, until |-> 0, revoked |-> TRUE, with |-> "NONE", stamp |-> 0, at |-> 0]

NewSession(p) ==
    [password |-> p, until |-> now + SessionLife, revoked |-> FALSE,
     with |-> "NONE", stamp |-> 0, at |-> 0]

Row(s) == <<"session", s, 0>>
FactorRow(f) == <<"factor", f, 0>>
CodeRow(k) == <<"code", k[1], k[2]>>
Challenge(t) == <<"challenge", t, 0>>

Secrets == {Challenge(t) : t \in ChallengeIds} \cup {CodeRow(k) : k \in Codes}

Init ==
    /\ now = 0
    /\ \E e \in Established :
        /\ password = IF e THEN 1 ELSE 0
        /\ session = [s \in SessionIds |-> IF e /\ s = 1 THEN NewSession(1) ELSE NoSession]
        /\ factor = [f \in FactorIds |-> IF e /\ f = 1 THEN "ACTIVE" ELSE "NONE"]
        /\ code = [k \in Codes |-> IF e /\ k[1] = 1 THEN "FRESH" ELSE "NONE"]
    /\ challenge = [t \in ChallengeIds |-> NoChallenge]
    /\ verified = FALSE
    /\ pc = [c \in Clients |-> "idle"]
    /\ by = [c \in Clients |-> 0]
    /\ target = [c \in Clients |-> <<0, 0>>]
    /\ seen = [c \in Clients |-> 0]
    /\ held = [c \in Clients |-> {}]
    /\ missed = [c \in Clients |-> {}]
    /\ late = {}
    /\ stale = {}
    /\ uses = [x \in Secrets |-> 0]
    /\ contended = {}
    /\ guesses = [t \in ChallengeIds |-> 0]
    /\ turns = 0

-----------------------------------------------------------------------------
(* Requests.                                                               *)

\* A request reads what it decides on.
Begin(c, step, s, row, value) ==
    /\ pc[c] = "idle"
    /\ turns < MaxTurns
    /\ turns' = turns + 1
    /\ pc' = [pc EXCEPT ![c] = step]
    /\ by' = [by EXCEPT ![c] = s]
    /\ target' = [target EXCEPT ![c] = row]
    /\ seen' = [seen EXCEPT ![c] = value]
    /\ UNCHANGED <<held, missed>>

\* Requests in progress have read what these changes make old.
Tell(c, changes) ==
    missed' = [d \in Clients |->
                 IF d = c THEN {} ELSE IF pc[d] = "idle" THEN {} ELSE missed[d] \cup changes]

\* It is answered, and others have missed these changes.
End(c, changes) ==
    /\ pc' = [pc EXCEPT ![c] = "idle"]
    /\ by' = [by EXCEPT ![c] = 0]
    /\ target' = [target EXCEPT ![c] = <<0, 0>>]
    /\ seen' = [seen EXCEPT ![c] = 0]
    /\ held' = [held EXCEPT ![c] = {}]
    /\ Tell(c, changes)

\* A session of someone who is signed in (resolveAuthFromRequest).
Live(s) == ~session[s].revoked /\ now < session[s].until

\* Signed in, with a second factor given a moment ago (requireRecentMfa).
SteppedUp(s) == Live(s) /\ session[s].with # "NONE" /\ now - session[s].at =< StepUpLife

\* Another request's transaction has written the row and has not ended.
Locked(c, x) == \E d \in Clients \ {c} : x \in held[d]

Changed(what) == <<what, 0, 0>>

-----------------------------------------------------------------------------
(* Password and sessions.                                                  *)

\* login: the user is read, the password is compared with what was read ...
Login(c) ==
    /\ password > 0
    /\ Begin(c, "open", 0, <<0, 0>>, password)
    /\ UNCHANGED <<now, rowVars, traceVars>>

\* ... and then the session is created.
OpenSession(c) ==
    /\ pc[c] = "open"
    /\ \E s \in SessionIds :
        /\ session[s] = NoSession
        /\ \A r \in SessionIds : session[r] = NoSession => s =< r
        /\ session' = [session EXCEPT ![s] = NewSession(seen[c])]
        /\ late' = IF Changed("password") \in missed[c] THEN late \cup {s} ELSE late
    /\ End(c, {})
    /\ UNCHANGED <<now, password, factor, code, challenge, verified, stale, uses, contended,
                   guesses, turns>>

Logout(c, s) ==
    /\ Live(s)
    /\ ~Locked(c, Row(s))
    /\ turns < MaxTurns
    /\ turns' = turns + 1
    /\ session' = [session EXCEPT ![s].revoked = TRUE]
    /\ UNCHANGED <<now, password, factor, code, challenge, verified, callVars, missed, traceVars>>

-----------------------------------------------------------------------------
(* E-mailed secrets: reset tokens, contact codes, one-time codes.          *)

Pending(purpose) ==
    {t \in ChallengeIds : challenge[t].purpose = purpose /\ challenge[t].status = "PENDING"}

\* requestPasswordReset, requestEmailVerification, sendOtp: the pending ones are cancelled ...
Request(c, purpose) ==
    /\ purpose = "CONTACT_VERIFICATION" => ~verified
    /\ purpose = "OTP" => \E s \in SessionIds : Live(s)
    /\ pc[c] = "idle"
    /\ turns < MaxTurns
    /\ turns' = turns + 1
    /\ challenge' = [t \in ChallengeIds |->
                        IF t \in Pending(purpose) THEN [challenge[t] EXCEPT !.status = "CANCELLED"]
                        ELSE challenge[t]]
    /\ pc' = [pc EXCEPT ![c] = purpose]
    /\ Tell(c, {Challenge(t) : t \in Pending(purpose)})
    /\ UNCHANGED <<now, password, session, factor, code, verified, by, target, seen, held, traceVars>>

\* ... and a new one is created.
Send(c) ==
    /\ pc[c] \in Purposes
    /\ \E t \in ChallengeIds :
        /\ challenge[t] = NoChallenge
        /\ \A u \in ChallengeIds : challenge[u] = NoChallenge => t =< u
        /\ challenge' = [challenge EXCEPT ![t] =
                            [purpose |-> pc[c], status |-> "PENDING", until |-> now + SecretLife,
                             attempts |-> 0]]
    /\ End(c, {})
    /\ UNCHANGED <<now, password, session, factor, code, verified, traceVars, turns>>

Use(c, x) ==
    /\ uses' = [uses EXCEPT ![x] = @ + 1]
    /\ contended' = IF x \in missed[c] THEN contended \cup {x} ELSE contended

\* Wrong on purpose: a token is looked up whatever has become of it.
ReadToken_AnyStatus(c, t) ==
    /\ challenge[t].purpose = "PASSWORD_RESET"
    /\ Begin(c, IF challenge[t].until =< now THEN "expire" ELSE "reset", 0, <<t, 0>>, 0)
    /\ UNCHANGED <<now, rowVars, traceVars>>

\* resetPassword: the token is looked up ...
ReadToken(c, t) ==
    /\ t \in Pending("PASSWORD_RESET")
    /\ Begin(c, IF challenge[t].until =< now THEN "expire" ELSE "reset", 0, <<t, 0>>, 0)
    /\ UNCHANGED <<now, rowVars, traceVars>>

\* ... one that is too old is marked ...
Expire(c) ==
    /\ pc[c] = "expire"
    /\ challenge' = [challenge EXCEPT ![target[c][1]].status = "EXPIRED"]
    /\ End(c, {Challenge(target[c][1])})
    /\ UNCHANGED <<now, password, session, factor, code, verified, traceVars, turns>>

\* Wrong on purpose: the reset leaves the sessions open.
Reset_KeepsSessions(c) ==
    /\ pc[c] = "reset"
    /\ challenge' = [challenge EXCEPT ![target[c][1]].status = "VERIFIED"]
    /\ password' = password + 1
    /\ Use(c, Challenge(target[c][1]))
    /\ End(c, {Changed("password"), Challenge(target[c][1])})
    /\ UNCHANGED <<now, session, factor, code, verified, late, stale, guesses, turns>>

\* ... and a good one sets the password and ends every session, in one transaction.
Reset(c) ==
    /\ pc[c] = "reset"
    /\ \A s \in SessionIds : ~session[s].revoked => ~Locked(c, Row(s))
    /\ challenge' = [challenge EXCEPT ![target[c][1]].status = "VERIFIED"]
    /\ password' = password + 1
    /\ session' = [s \in SessionIds |-> [session[s] EXCEPT !.revoked = TRUE]]
    /\ Use(c, Challenge(target[c][1]))
    /\ End(c, {Changed("password"), Challenge(target[c][1])})
    /\ UNCHANGED <<now, factor, code, verified, late, stale, guesses, turns>>

\* confirmEmailVerification: what the newest pending challenge answers to a code.  That its
\* attempts are used up cannot happen: whoever counted the last one has locked it.
Outcome(t, right) ==
    IF challenge[t].until =< now THEN "expire"
    ELSE IF right THEN "verify" ELSE "miss"

Confirm(c, right) ==
    /\ \E t \in Pending("CONTACT_VERIFICATION") :
        /\ \A u \in Pending("CONTACT_VERIFICATION") : u =< t
        /\ Begin(c, Outcome(t, right), 0, <<t, 0>>, challenge[t].attempts)
    /\ UNCHANGED <<now, rowVars, traceVars>>

\* Wrong on purpose: the challenge stays as it was.
Miss_NotCounted(c) ==
    /\ pc[c] = "miss"
    /\ guesses' = [guesses EXCEPT ![target[c][1]] = @ + 1]
    /\ End(c, {})
    /\ UNCHANGED <<now, rowVars, late, stale, uses, contended, turns>>

\* A wrong code is counted, on the count that was read.
Miss(c) ==
    /\ pc[c] = "miss"
    /\ LET t == target[c][1] IN
        /\ challenge' = [challenge EXCEPT ![t] =
                [@ EXCEPT !.attempts = seen[c] + 1,
                          !.status = IF seen[c] + 1 >= MaxAttempts THEN "LOCKED" ELSE "PENDING"]]
        /\ guesses' = [guesses EXCEPT ![t] = @ + 1]
        /\ contended' = IF Challenge(t) \in missed[c] THEN contended \cup {Challenge(t)} ELSE contended
        /\ End(c, {Challenge(t)})
    /\ UNCHANGED <<now, password, session, factor, code, verified, late, stale, uses, turns>>

\* verifyOtp: the newest code that is neither consumed nor too old; a wrong one changes nothing.
VerifyOtp(c) ==
    /\ \E s \in SessionIds : Live(s)
    /\ LET open == {t \in Pending("OTP") : now < challenge[t].until} IN
        \E t \in open :
            /\ \A u \in open : u =< t
            /\ Begin(c, "verify", 0, <<t, 0>>, 0)
    /\ UNCHANGED <<now, rowVars, traceVars>>

\* The code is consumed and the contact verified, in one transaction.
Verify(c) ==
    /\ pc[c] = "verify"
    /\ challenge' = [challenge EXCEPT ![target[c][1]].status = "VERIFIED"]
    /\ verified' = TRUE
    /\ Use(c, Challenge(target[c][1]))
    /\ End(c, {Challenge(target[c][1])})
    /\ UNCHANGED <<now, password, session, factor, code, late, stale, guesses, turns>>

-----------------------------------------------------------------------------
(* The second factor.                                                      *)

Active == {f \in FactorIds : factor[f] = "ACTIVE"}

\* beginTotpEnrollment: no factor may be active; pending ones are revoked, one is created.
Enroll(c, s) ==
    /\ Live(s)
    /\ Active = {}
    /\ Begin(c, "enroll", s, <<0, 0>>, 0)
    /\ UNCHANGED <<now, rowVars, traceVars>>

DropPending(c) ==
    /\ pc[c] = "enroll"
    /\ factor' = [f \in FactorIds |-> IF factor[f] = "PENDING" THEN "REVOKED" ELSE factor[f]]
    /\ pc' = [pc EXCEPT ![c] = "create"]
    /\ UNCHANGED <<now, password, session, code, challenge, verified, by, target, seen, held,
                   missed, traceVars, turns>>

CreateFactor(c) ==
    /\ pc[c] = "create"
    /\ \E f \in FactorIds :
        /\ factor[f] = "NONE"
        /\ \A g \in FactorIds : factor[g] = "NONE" => f =< g
        /\ factor' = [factor EXCEPT ![f] = "PENDING"]
    /\ End(c, {})
    /\ UNCHANGED <<now, password, session, code, challenge, verified, traceVars, turns>>

\* activateTotpEnrollment, given a right token.
Activate(c, s, f) ==
    /\ Live(s)
    /\ factor[f] = "PENDING"
    /\ Begin(c, "activate", s, <<f, 0>>, 0)
    /\ UNCHANGED <<now, rowVars, traceVars>>

\* regenerateRecoveryCodes
Regenerate(c, s) ==
    /\ SteppedUp(s)
    /\ Active # {}
    /\ Begin(c, "regenerate", s, <<0, 0>>, 0)
    /\ UNCHANGED <<now, rowVars, traceVars>>

\* The sessions that the transaction of either ends: all but its own, as it finds them.
Others(c) == {s \in SessionIds : s # by[c] /\ ~session[s].revoked}

KeptCodes == {k \in Codes : code[k] \in {"FRESH", "USED"}}

\* Its first statements write the other factors or the codes, and the other sessions.
Change(c) ==
    /\ pc[c] \in {"activate", "regenerate"}
    /\ \A s \in Others(c) : ~Locked(c, Row(s))
    /\ held' = [held EXCEPT ![c] = {Row(s) : s \in Others(c)}
                    \cup IF pc[c] = "regenerate" THEN {CodeRow(k) : k \in KeptCodes}
                         ELSE {FactorRow(f) : f \in Active \ {target[c][1]}}]
    /\ pc' = [pc EXCEPT ![c] = IF @ = "activate" THEN "activated" ELSE "regenerated"]
    /\ UNCHANGED <<now, rowVars, by, target, seen, missed, traceVars, turns>>

\* Sessions live on that were opened after the transaction looked for them.
Escaped(c) == {s \in Others(c) : Row(s) \notin held[c]}

\* Wrong on purpose: the session that made the change stays stepped up.
SessionsAfter_OwnKept(c) ==
    [s \in SessionIds |->
        IF Row(s) \in held[c]
        THEN [session[s] EXCEPT !.revoked = TRUE, !.with = "NONE", !.stamp = 0, !.at = 0]
        ELSE session[s]]

\* The others are revoked, and its own has to step up again.
SessionsAfter(c) ==
    [s \in SessionIds |->
        IF Row(s) \in held[c]
        THEN [session[s] EXCEPT !.revoked = TRUE, !.with = "NONE", !.stamp = 0, !.at = 0]
        ELSE IF s = by[c] THEN [session[s] EXCEPT !.with = "NONE", !.stamp = 0, !.at = 0]
        ELSE session[s]]

\* Its last statement writes its own session, and it commits.
FinishActivation(c) ==
    /\ pc[c] = "activated"
    /\ ~Locked(c, Row(by[c]))
    /\ factor' = [f \in FactorIds |->
                    IF f = target[c][1] THEN "ACTIVE"
                    ELSE IF FactorRow(f) \in held[c] THEN "REVOKED" ELSE factor[f]]
    /\ session' = SessionsAfter(c)
    /\ stale' = stale \cup Escaped(c)
    /\ End(c, {Changed("factor")})
    /\ UNCHANGED <<now, password, code, challenge, verified, late, uses, contended, guesses, turns>>

FinishRegeneration(c) ==
    /\ pc[c] = "regenerated"
    /\ ~Locked(c, Row(by[c]))
    /\ \E g \in 1..MaxSets :
        /\ code[<<g, 1>>] = "NONE"
        /\ \A h \in 1..MaxSets : code[<<h, 1>>] = "NONE" => g =< h
        /\ code' = [k \in Codes |-> IF k[1] = g THEN "FRESH"
                                    ELSE IF CodeRow(k) \in held[c] THEN "DELETED" ELSE code[k]]
    /\ session' = SessionsAfter(c)
    /\ stale' = stale \cup Escaped(c)
    /\ End(c, {Changed("codes")})
    /\ UNCHANGED <<now, password, factor, challenge, verified, late, uses, contended, guesses, turns>>

\* The session is stamped, whatever has become of it or of the factor.
Stamped(c, kind, id) ==
    /\ ~Locked(c, Row(by[c]))
    /\ session' = [session EXCEPT ![by[c]] = [@ EXCEPT !.with = kind, !.stamp = id, !.at = now]]
    /\ stale' = IF {Changed("factor"), Changed("codes")} \cap missed[c] # {}
                THEN stale \cup {by[c]} ELSE stale \ {by[c]}

\* challengeTotp: a token of the active factor, the last one activated if two are.
ChallengeTotp(c, s, f) ==
    /\ Live(s)
    /\ f \in Active
    /\ Begin(c, "stamp", s, <<f, 0>>, 0)
    /\ UNCHANGED <<now, rowVars, traceVars>>

Stamp(c) ==
    /\ pc[c] = "stamp"
    /\ Stamped(c, "TOTP", target[c][1])
    /\ End(c, {})
    /\ UNCHANGED <<now, password, factor, code, challenge, verified, late, uses, contended,
                   guesses, turns>>

\* challengeRecoveryCode: the code is looked up ...
ChallengeCode(c, s, k) ==
    /\ Live(s)
    /\ code[k] = "FRESH"
    /\ Begin(c, "use", s, k, 0)
    /\ UNCHANGED <<now, rowVars, traceVars>>

\* ... and consumed with the stamp, in one transaction; it fails if the row is gone.
UseCode(c) ==
    /\ pc[c] = "use"
    /\ code[target[c]] # "DELETED"
    /\ ~Locked(c, CodeRow(target[c]))
    /\ code' = [code EXCEPT ![target[c]] = "USED"]
    /\ Stamped(c, "RECOVERY_CODE", target[c][1])
    /\ Use(c, CodeRow(target[c]))
    /\ End(c, {CodeRow(target[c])})
    /\ UNCHANGED <<now, password, factor, challenge, verified, late, guesses, turns>>

-----------------------------------------------------------------------------
\* A statement fails, two transactions wait for each other, or the process stops.
Abort(c) ==
    /\ pc[c] # "idle"
    /\ End(c, {})
    /\ UNCHANGED <<now, rowVars, traceVars, turns>>

Clock ==
    /\ now < MaxTime
    /\ now' = now + 1
    /\ UNCHANGED <<rowVars, callVars, missed, traceVars, turns>>

Proceed(c) ==
    \/ OpenSession(c) \/ Send(c) \/ Expire(c) \/ Reset(c) \/ Miss(c) \/ Verify(c)
    \/ DropPending(c) \/ CreateFactor(c) \/ Change(c) \/ FinishActivation(c)
    \/ FinishRegeneration(c) \/ Stamp(c) \/ UseCode(c)

Call(c) ==
    \/ Login(c) \/ VerifyOtp(c)
    \/ \E purpose \in Purposes : Request(c, purpose)
    \/ \E t \in ChallengeIds : ReadToken(c, t)
    \/ \E right \in BOOLEAN : Confirm(c, right)
    \/ \E s \in SessionIds :
        \/ Logout(c, s) \/ Enroll(c, s) \/ Regenerate(c, s)
        \/ \E f \in FactorIds : Activate(c, s, f) \/ ChallengeTotp(c, s, f)
        \/ \E k \in Codes : ChallengeCode(c, s, k)

Next ==
    \/ Clock
    \/ \E c \in Clients : Call(c) \/ Proceed(c) \/ Abort(c)

Spec == Init /\ [][Next]_vars
=============================================================================
