------------------------- MODULE SessionsProperties -------------------------
(***************************************************************************)
(* What Sessions is checked for.  Requests that read before another one    *)
(* wrote escape most of it; the properties say that nothing else does.     *)
(***************************************************************************)
EXTENDS Sessions

Steps == {"idle", "open", "expire", "reset", "miss", "verify", "enroll", "create",
          "activate", "regenerate", "activated", "regenerated", "stamp", "use"} \cup Purposes

Rows == {Row(s) : s \in SessionIds} \cup {FactorRow(f) : f \in FactorIds}
            \cup {CodeRow(k) : k \in Codes}

Changes == Secrets \cup {Changed("password"), Changed("factor"), Changed("codes")}

RowTypes ==
    /\ password \in Nat
    /\ session \in [SessionIds -> [password : Nat, until : Nat, revoked : BOOLEAN,
                                   with : {"NONE", "TOTP", "RECOVERY_CODE"}, stamp : Nat, at : Time]]
    /\ factor \in [FactorIds -> {"NONE", "PENDING", "ACTIVE", "REVOKED"}]
    /\ code \in [Codes -> {"NONE", "FRESH", "USED", "DELETED"}]
    /\ challenge \in [ChallengeIds ->
                        [purpose : {"NONE"} \cup Purposes,
                         status : {"NONE", "PENDING", "VERIFIED", "EXPIRED", "LOCKED", "CANCELLED"},
                         until : Nat, attempts : Nat]]
    /\ verified \in BOOLEAN

TraceTypes ==
    /\ now \in Time
    /\ late \subseteq SessionIds
    /\ stale \subseteq SessionIds
    /\ uses \in [Secrets -> Nat]
    /\ contended \subseteq Secrets
    /\ guesses \in [ChallengeIds -> Nat]
    /\ turns \in 0..MaxTurns

CallTypes ==
    /\ pc \in [Clients -> Steps]
    /\ by \in [Clients -> {0} \cup SessionIds]
    /\ target \in [Clients -> Nat \X Nat]
    /\ seen \in [Clients -> Nat]
    /\ held \in [Clients -> SUBSET Rows]
    /\ missed \in [Clients -> SUBSET Changes]

TypeOK == RowTypes /\ TraceTypes /\ CallTypes

\* After a password reset nobody is signed in with an earlier password, except through a
\* login that had compared it before the reset and opened its session after.
ResetEndsSessions ==
    \A s \in SessionIds : Live(s) => session[s].password = password \/ s \in late

\* A session is stepped up by a factor that is active or a set of codes that is there: what
\* was given before a factor was activated or codes were regenerated counts no more, in the
\* session that made the change or in any other, unless a challenge or a login overlapped it.
StepUpIsCurrent ==
    \A s \in SessionIds : Live(s) /\ session[s].with # "NONE" =>
        \/ s \in stale
        \/ session[s].with = "TOTP" /\ factor[session[s].stamp] = "ACTIVE"
        \/ session[s].with = "RECOVERY_CODE" /\ \E n \in 1..CodesPerSet :
                code[<<session[s].stamp, n>>] \in {"FRESH", "USED"}

\* A reset token, a contact code and a recovery code work once, unless a request had looked
\* it up before another one had used it.
SecretsWorkOnce == \A x \in Secrets : uses[x] > 1 => x \in contended

\* No more than maxAttempts wrong codes are compared with a challenge, unless one of them was
\* counted on a count that was out of date.
AttemptsBounded ==
    \A t \in ChallengeIds : guesses[t] > MaxAttempts => Challenge(t) \in contended

=============================================================================
