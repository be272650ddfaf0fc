-------------------------- MODULE SessionsProofs --------------------------
(***************************************************************************)
(* Theorems about Sessions, for any number of requests, sessions, factors  *)
(* and secrets: that a password reset ends every session, that a secret    *)
(* works once, that wrong codes are counted and that stamps are backed,    *)
(* but for the races that the properties name.                             *)
(***************************************************************************)
EXTENDS SessionsProperties, TLAPS

\* A request is about a row that is there, and came with a session if it stamps one.
TargetInv ==
    \A c \in Clients :
        /\ pc[c] \in {"expire", "reset", "miss", "verify"} => target[c][1] \in ChallengeIds
        /\ pc[c] = "use" => target[c] \in Codes /\ code[target[c]] # "NONE"
        /\ pc[c] \in {"stamp", "use"} => by[c] \in SessionIds

\* A login that is about to open a session has the password, or has missed its change.
PasswordInv ==
    /\ \A s \in SessionIds : ~session[s].revoked => session[s].password = password \/ s \in late
    /\ \A c \in Clients :
        pc[c] = "open" => seen[c] = password \/ Changed("password") \in missed[c]

\* What has been used looks used, and whoever still holds it has missed that.
TokenInv ==
    \A t \in ChallengeIds : uses[Challenge(t)] > 0 /\ Challenge(t) \notin contended =>
        /\ uses[Challenge(t)] = 1
        /\ challenge[t].status \notin {"NONE", "PENDING"}
        /\ \A c \in Clients : pc[c] \in {"reset", "verify", "miss"} /\ target[c][1] = t =>
                Challenge(t) \in missed[c]

CodeInv ==
    \A k \in Codes : uses[CodeRow(k)] > 0 /\ CodeRow(k) \notin contended =>
        /\ uses[CodeRow(k)] = 1
        /\ code[k] \in {"USED", "DELETED"}
        /\ \A c \in Clients : pc[c] = "use" /\ target[c] = k => CodeRow(k) \in missed[c]

\* A set of codes is generated as a whole.
SetInv ==
    /\ \A k \in Codes : code[k] = "NONE" <=> code[<<k[1], 1>>] = "NONE"
    /\ \A c \in Clients, k \in Codes : CodeRow(k) \in held[c] => code[k] # "NONE"

IInv == RowTypes /\ TraceTypes /\ CallTypes /\ TargetInv /\ PasswordInv /\ TokenInv /\ CodeInv /\ SetInv

USE SessionsAssumption DEF Time

\* Rows and secrets of different kinds have different names.
LEMMA NamesDiffer ==
    /\ \A t, u \in ChallengeIds : Challenge(t) = Challenge(u) => t = u
    /\ \A k, l \in Codes : CodeRow(k) = CodeRow(l) => k = l
    /\ \A t \in ChallengeIds, k \in Codes : Challenge(t) # CodeRow(k)
    /\ \A t \in ChallengeIds : Challenge(t) \in Secrets
    /\ \A k \in Codes : CodeRow(k) \in Secrets
    /\ \A k \in Codes : <<k[1], 1>> \in Codes /\ <<k[1], 1>>[1] = k[1]
    /\ \A k \in Codes, s \in SessionIds : CodeRow(k) # Row(s)
    /\ \A k \in Codes, f \in FactorIds : CodeRow(k) # FactorRow(f)
<1>1. \A k \in Codes : k = <<k[1], k[2]>> /\ k[1] \in 1..MaxSets /\ k[2] \in 1..CodesPerSet
  BY DEF Codes
<1>2. \A k \in Codes : <<k[1], 1>> \in Codes /\ <<k[1], 1>>[1] = k[1]
  BY <1>1 DEF Codes
<1>3. \A k, l \in Codes : CodeRow(k) = CodeRow(l) => k = l
  BY <1>1 DEF CodeRow
<1> QED
  BY <1>2, <1>3 DEF Challenge, CodeRow, Row, FactorRow, Secrets

\* It holds at first.
LEMMA InitHolds == Init => IInv
<1> SUFFICES ASSUME Init PROVE IInv
  OBVIOUS
<1>1. PICK e \in Established :
        /\ password = IF e THEN 1 ELSE 0
        /\ session = [s \in SessionIds |-> IF e /\ s = 1 THEN NewSession(1) ELSE NoSession]
        /\ factor = [f \in FactorIds |-> IF e /\ f = 1 THEN "ACTIVE" ELSE "NONE"]
        /\ code = [k \in Codes |-> IF e /\ k[1] = 1 THEN "FRESH" ELSE "NONE"]
  BY DEF Init
<1>2. e \in BOOLEAN /\ now = 0
  BY DEF Init
<1>3. RowTypes
  <2> DEFINE SessionType == [password : Nat, until : Nat, revoked : BOOLEAN,
                             with : {"NONE", "TOTP", "RECOVERY_CODE"}, stamp : Nat, at : Time]
  <2>1. NewSession(1) \in SessionType /\ NoSession \in SessionType
    BY <1>2 DEF NewSession, NoSession
  <2> HIDE DEF SessionType
  <2>2. session \in [SessionIds -> SessionType]
    BY <1>1, <2>1
  <2>3. challenge \in [ChallengeIds ->
                        [purpose : {"NONE"} \cup Purposes,
                         status : {"NONE", "PENDING", "VERIFIED", "EXPIRED", "LOCKED", "CANCELLED"},
                         until : Nat, attempts : Nat]]
    BY DEF Init, NoChallenge
  <2>4. /\ password \in Nat /\ verified \in BOOLEAN
        /\ factor \in [FactorIds -> {"NONE", "PENDING", "ACTIVE", "REVOKED"}]
        /\ code \in [Codes -> {"NONE", "FRESH", "USED", "DELETED"}]
    BY <1>1 DEF Init
  <2> QED
    BY <2>2, <2>3, <2>4 DEF RowTypes, SessionType
<1>4. TraceTypes
  BY DEF Init, TraceTypes
<1>5. CallTypes
  BY DEF Init, CallTypes, Steps
<1>6. TargetInv
  BY DEF Init, TargetInv
<1>7. PasswordInv
  BY <1>1, <1>2 DEF Init, PasswordInv, NewSession, NoSession
<1>8. TokenInv /\ CodeInv
  BY NamesDiffer DEF Init, TokenInv, CodeInv
<1>9. SetInv
  BY <1>1, <1>2, NamesDiffer DEF Init, SetInv
<1> QED
  BY <1>3, <1>4, <1>5, <1>6, <1>7, <1>8, <1>9 DEF IInv

\* A request that begins may be about a secret only while the secret looks unused.
LEMMA BeginHolds ==
    ASSUME IInv, NEW c \in Clients, NEW step \in Steps, NEW s \in {0} \cup SessionIds,
           NEW row \in Nat \X Nat, NEW value \in Nat,
           Begin(c, step, s, row, value), UNCHANGED <<now, rowVars, traceVars>>,
           step = "open" => value = password,
           step \in {"expire", "reset", "miss", "verify"} =>
                row[1] \in ChallengeIds /\ challenge[row[1]].status = "PENDING",
           step = "use" => row \in Codes /\ code[row] = "FRESH",
           step \in {"stamp", "use"} => s \in SessionIds
    PROVE  IInv'
<1>1. /\ pc[c] = "idle" /\ turns < MaxTurns /\ turns' = turns + 1
      /\ pc' = [pc EXCEPT ![c] = step]
      /\ by' = [by EXCEPT ![c] = s]
      /\ target' = [target EXCEPT ![c] = row]
      /\ seen' = [seen EXCEPT ![c] = value]
      /\ UNCHANGED <<held, missed>>
  BY DEF Begin
<1>2. /\ pc'[c] = step /\ by'[c] = s /\ target'[c] = row /\ seen'[c] = value
      /\ \A d \in Clients : d # c => /\ pc'[d] = pc[d] /\ by'[d] = by[d]
                                     /\ target'[d] = target[d] /\ seen'[d] = seen[d]
  BY <1>1 DEF IInv, CallTypes
<1>3. /\ UNCHANGED <<now, held, missed, late, stale, uses, contended, guesses>>
      /\ UNCHANGED <<password, session, factor, code, challenge, verified>>
  BY <1>1 DEF rowVars, traceVars
<1>4. RowTypes' /\ TraceTypes'
  BY <1>1, <1>3 DEF IInv, RowTypes, TraceTypes
<1>5. CallTypes'
  BY <1>1 DEF IInv, CallTypes
<1>6. TargetInv'
  BY <1>2, <1>3 DEF IInv, TargetInv
<1>7. PasswordInv'
  BY <1>2, <1>3 DEF IInv, PasswordInv
<1>8. TokenInv'
  BY <1>2, <1>3 DEF IInv, TokenInv
<1>9. CodeInv'
  BY <1>2, <1>3 DEF IInv, CodeInv
<1>10. SetInv'
  BY <1>3 DEF IInv, SetInv
<1> QED
  BY <1>4, <1>5, <1>6, <1>7, <1>8, <1>9, <1>10 DEF IInv

\* A request that ends: the others have missed its changes.
LEMMA EndKeeps ==
    ASSUME CallTypes, NEW c \in Clients, NEW changes \in SUBSET Changes, End(c, changes)
    PROVE  /\ CallTypes'
           /\ pc'[c] = "idle" /\ held'[c] = {}
           /\ \A d \in Clients : d # c =>
                /\ pc'[d] = pc[d] /\ by'[d] = by[d] /\ target'[d] = target[d]
                /\ seen'[d] = seen[d] /\ held'[d] = held[d]
                /\ pc[d] # "idle" => missed'[d] = missed[d] \cup changes
  BY DEF End, Tell, CallTypes, Steps

\* A request that ends and has changed only what it tells keeps the invariant.
LEMMA EndHolds ==
    ASSUME IInv, NEW c \in Clients, NEW changes \in SUBSET Changes, End(c, changes),
           RowTypes', TraceTypes',
           password' = password \/ Changed("password") \in changes,
           \A s \in SessionIds : ~session'[s].revoked =>
                session'[s].password = password' \/ s \in late',
           \A k \in Codes : /\ code[k] # "NONE" => code'[k] # "NONE"
                            /\ code'[k] = "NONE" <=> code'[<<k[1], 1>>] = "NONE",
           \A t \in ChallengeIds : uses'[Challenge(t)] > 0 /\ Challenge(t) \notin contended' =>
                /\ uses'[Challenge(t)] = 1
                /\ challenge'[t].status \notin {"NONE", "PENDING"}
                /\ \/ Challenge(t) \in changes
                   \/ uses[Challenge(t)] > 0 /\ Challenge(t) \notin contended,
           \A k \in Codes : uses'[CodeRow(k)] > 0 /\ CodeRow(k) \notin contended' =>
                /\ uses'[CodeRow(k)] = 1
                /\ code'[k] \in {"USED", "DELETED"}
                /\ \/ CodeRow(k) \in changes
                   \/ uses[CodeRow(k)] > 0 /\ CodeRow(k) \notin contended
    PROVE  IInv'
<1>1. /\ CallTypes'
      /\ pc'[c] = "idle" /\ held'[c] = {}
      /\ \A d \in Clients : d # c =>
            /\ pc'[d] = pc[d] /\ by'[d] = by[d] /\ target'[d] = target[d]
            /\ seen'[d] = seen[d] /\ held'[d] = held[d]
            /\ pc[d] # "idle" => missed'[d] = missed[d] \cup changes
  BY EndKeeps DEF IInv
<1>2. TargetInv'
  <2>1. ASSUME NEW d \in Clients, d # c
        PROVE  /\ pc'[d] \in {"expire", "reset", "miss", "verify"} => target'[d][1] \in ChallengeIds
               /\ pc'[d] = "use" => target'[d] \in Codes /\ code'[target'[d]] # "NONE"
               /\ pc'[d] \in {"stamp", "use"} => by'[d] \in SessionIds
    <3>1. pc'[d] = pc[d] /\ target'[d] = target[d] /\ by'[d] = by[d]
      BY <1>1, <2>1
    <3>2. /\ pc[d] \in {"expire", "reset", "miss", "verify"} => target[d][1] \in ChallengeIds
          /\ pc[d] = "use" => target[d] \in Codes /\ code[target[d]] # "NONE"
          /\ pc[d] \in {"stamp", "use"} => by[d] \in SessionIds
      BY DEF IInv, TargetInv
    <3> QED
      BY <3>1, <3>2
  <2> QED
    BY <1>1, <2>1 DEF TargetInv
<1>3. PasswordInv'
  BY <1>1 DEF IInv, PasswordInv
<1>4. TokenInv'
  BY <1>1 DEF IInv, TokenInv
<1>5. CodeInv'
  BY <1>1 DEF IInv, CodeInv
<1>6. SetInv'
  BY <1>1, ZenonT(40) DEF IInv, SetInv
<1> QED
  BY <1>1, <1>2, <1>3, <1>4, <1>5, <1>6 DEF IInv

\* So does a request that begins,
LEMMA CallHolds ==
    ASSUME IInv, NEW c \in Clients,
           \/ Login(c) \/ VerifyOtp(c)
           \/ \E t \in ChallengeIds : ReadToken(c, t)
           \/ \E right \in BOOLEAN : Confirm(c, right)
           \/ \E s \in SessionIds :
                \/ Enroll(c, s) \/ Regenerate(c, s)
                \/ \E f \in FactorIds : Activate(c, s, f) \/ ChallengeTotp(c, s, f)
                \/ \E k \in Codes : ChallengeCode(c, s, k)
    PROVE  IInv'
<1>1. \A t \in ChallengeIds : <<t, 0>> \in Nat \X Nat /\ <<t, 0>>[1] = t
  BY DEF ChallengeIds
<1>2. \A f \in FactorIds : <<f, 0>> \in Nat \X Nat
  BY DEF FactorIds
<1>3. <<0, 0>> \in Nat \X Nat /\ Codes \subseteq Nat \X Nat
  BY DEF Codes
<1>4. CASE Login(c)
  <2>1. password \in Nat /\ "open" \in Steps
    BY DEF IInv, RowTypes, Steps
  <2> QED
    BY <1>3, <1>4, <2>1, BeginHolds DEF Login
<1>5. CASE VerifyOtp(c)
  <2>1. PICK t \in ChallengeIds : challenge[t].status = "PENDING" /\ Begin(c, "verify", 0, <<t, 0>>, 0)
    BY <1>5 DEF VerifyOtp, Pending
  <2>2. "verify" \in Steps
    BY DEF Steps
  <2> QED
    BY <1>1, <1>5, <2>1, <2>2, BeginHolds DEF VerifyOtp
<1>6. ASSUME NEW t \in ChallengeIds, ReadToken(c, t) PROVE IInv'
  <2>1. challenge[t].status = "PENDING"
    BY <1>6 DEF ReadToken, Pending
  <2>2. PICK step \in {"expire", "reset"} : Begin(c, step, 0, <<t, 0>>, 0)
    BY <1>6 DEF ReadToken
  <2>3. step \in Steps
    BY DEF Steps
  <2> QED
    BY <1>1, <1>6, <2>1, <2>2, <2>3, BeginHolds DEF ReadToken
<1>7. ASSUME NEW right \in BOOLEAN, Confirm(c, right) PROVE IInv'
  <2>1. PICK t \in ChallengeIds :
            challenge[t].status = "PENDING" /\ Begin(c, Outcome(t, right), 0, <<t, 0>>, challenge[t].attempts)
    BY <1>7 DEF Confirm, Pending
  <2>2. Outcome(t, right) \in {"expire", "verify", "miss"} /\ Outcome(t, right) \in Steps
    BY DEF Outcome, Steps
  <2>3. challenge[t].attempts \in Nat
    BY DEF IInv, RowTypes
  <2> QED
    BY <1>1, <1>7, <2>1, <2>2, <2>3, BeginHolds DEF Confirm
<1>8. ASSUME NEW s \in SessionIds, Enroll(c, s) \/ Regenerate(c, s) PROVE IInv'
  <2>1. "enroll" \in Steps /\ "regenerate" \in Steps
    BY DEF Steps
  <2> QED
    BY <1>3, <1>8, <2>1, BeginHolds DEF Enroll, Regenerate
<1>9. ASSUME NEW s \in SessionIds, NEW f \in FactorIds, Activate(c, s, f) \/ ChallengeTotp(c, s, f)
      PROVE  IInv'
  <2>1. "activate" \in Steps /\ "stamp" \in Steps
    BY DEF Steps
  <2> QED
    BY <1>2, <1>9, <2>1, BeginHolds DEF Activate, ChallengeTotp
<1>10. ASSUME NEW s \in SessionIds, NEW k \in Codes, ChallengeCode(c, s, k)
       PROVE  IInv'
  <2>1. "use" \in Steps
    BY DEF Steps
  <2> QED
    BY <1>3, <1>10, <2>1, BeginHolds DEF ChallengeCode
<1> QED
  BY <1>4, <1>5, <1>6, <1>7, <1>8, <1>9, <1>10

\* What most steps leave alone.
LEMMA QuietHolds ==
    ASSUME IInv, NEW c \in Clients, NEW changes \in SUBSET Changes, End(c, changes),
           UNCHANGED <<now, password, code, late, uses, contended, turns>>,
           RowTypes', TraceTypes',
           \A s \in SessionIds : ~session'[s].revoked =>
                session'[s].password = session[s].password /\ ~session[s].revoked,
           \A t \in ChallengeIds : challenge'[t].status \in {"NONE", "PENDING"} =>
                challenge[t].status \in {"NONE", "PENDING"}
    PROVE  IInv'
<1>1. \A s \in SessionIds : ~session'[s].revoked => session'[s].password = password' \/ s \in late'
  BY DEF IInv, PasswordInv
<1>2. \A k \in Codes : /\ code[k] # "NONE" => code'[k] # "NONE"
                       /\ code'[k] = "NONE" <=> code'[<<k[1], 1>>] = "NONE"
  BY DEF IInv, SetInv
<1>3. \A t \in ChallengeIds : uses'[Challenge(t)] > 0 /\ Challenge(t) \notin contended' =>
                /\ uses'[Challenge(t)] = 1
                /\ challenge'[t].status \notin {"NONE", "PENDING"}
                /\ uses[Challenge(t)] > 0 /\ Challenge(t) \notin contended
  BY DEF IInv, TokenInv
<1>4. \A k \in Codes : uses'[CodeRow(k)] > 0 /\ CodeRow(k) \notin contended' =>
                /\ uses'[CodeRow(k)] = 1
                /\ code'[k] \in {"USED", "DELETED"}
                /\ uses[CodeRow(k)] > 0 /\ CodeRow(k) \notin contended
  BY DEF IInv, CodeInv
<1> QED
  BY <1>1, <1>2, <1>3, <1>4, EndHolds

\* a login that opens its session,
LEMMA OpenSessionHolds ==
    ASSUME IInv, NEW c \in Clients, OpenSession(c)
    PROVE  IInv'
<1>1. PICK s \in SessionIds :
        /\ session' = [session EXCEPT ![s] = NewSession(seen[c])]
        /\ late' = IF Changed("password") \in missed[c] THEN late \cup {s} ELSE late
  BY DEF OpenSession
<1>2. /\ pc[c] = "open" /\ End(c, {}) /\ {} \in SUBSET Changes
      /\ UNCHANGED <<now, password, factor, code, challenge, verified, stale, uses, contended,
                     guesses, turns>>
  BY DEF OpenSession
<1>3. seen[c] \in Nat /\ (seen[c] = password \/ Changed("password") \in missed[c])
  BY <1>2 DEF IInv, CallTypes, PasswordInv
<1>4. /\ NewSession(seen[c]) \in [password : Nat, until : Nat, revoked : BOOLEAN,
                                  with : {"NONE", "TOTP", "RECOVERY_CODE"}, stamp : Nat, at : Time]
      /\ NewSession(seen[c]).password = seen[c]
  BY <1>3 DEF NewSession, IInv, TraceTypes
<1>5. RowTypes'
  BY <1>1, <1>2, <1>4 DEF IInv, RowTypes
<1>6. TraceTypes'
  BY <1>1, <1>2 DEF IInv, TraceTypes
<1>7. \A r \in SessionIds : ~session'[r].revoked => session'[r].password = password' \/ r \in late'
  BY <1>1, <1>2, <1>3, <1>4 DEF IInv, RowTypes, PasswordInv
<1>8. \A k \in Codes : /\ code[k] # "NONE" => code'[k] # "NONE"
                       /\ code'[k] = "NONE" <=> code'[<<k[1], 1>>] = "NONE"
  BY <1>2 DEF IInv, SetInv
<1>9. \A t \in ChallengeIds : uses'[Challenge(t)] > 0 /\ Challenge(t) \notin contended' =>
                /\ uses'[Challenge(t)] = 1
                /\ challenge'[t].status \notin {"NONE", "PENDING"}
                /\ uses[Challenge(t)] > 0 /\ Challenge(t) \notin contended
  BY <1>2 DEF IInv, TokenInv
<1>10. \A k \in Codes : uses'[CodeRow(k)] > 0 /\ CodeRow(k) \notin contended' =>
                /\ uses'[CodeRow(k)] = 1
                /\ code'[k] \in {"USED", "DELETED"}
                /\ uses[CodeRow(k)] > 0 /\ CodeRow(k) \notin contended
  BY <1>2 DEF IInv, CodeInv
<1> QED
  BY <1>2, <1>5, <1>6, <1>7, <1>8, <1>9, <1>10, EndHolds

\* What happens to a challenge that nobody uses.
LEMMA ChallengeHolds ==
    ASSUME IInv, NEW c \in Clients, Send(c) \/ Expire(c)
    PROVE  IInv'
<1>1. UNCHANGED <<now, password, session, factor, code, verified, traceVars, turns>>
  BY DEF Send, Expire
<1>2. CASE Send(c)
  <2>1. PICK t \in ChallengeIds :
        /\ challenge[t] = NoChallenge
        /\ challenge' = [challenge EXCEPT ![t] =
                            [purpose |-> pc[c], status |-> "PENDING", until |-> now + SecretLife,
                             attempts |-> 0]]
    BY <1>2 DEF Send
  <2>2. End(c, {}) /\ pc[c] \in Purposes /\ {} \in SUBSET Changes
    BY <1>2 DEF Send
  <2>3. RowTypes'
    BY <1>1, <2>1, <2>2 DEF IInv, RowTypes, TraceTypes
  <2>4. TraceTypes'
    BY <1>1 DEF IInv, TraceTypes, traceVars
  <2>5. \A u \in ChallengeIds : challenge'[u].status \in {"NONE", "PENDING"} =>
                challenge[u].status \in {"NONE", "PENDING"}
    BY <2>1 DEF IInv, RowTypes, NoChallenge
  <2> QED
    BY <1>1, <2>2, <2>3, <2>4, <2>5, QuietHolds DEF traceVars
<1>3. CASE Expire(c)
  <2>1. target[c][1] \in ChallengeIds
    BY <1>3 DEF IInv, TargetInv, Expire
  <2> DEFINE t == target[c][1]
  <2>2. challenge' = [challenge EXCEPT ![t].status = "EXPIRED"]
    BY <1>3 DEF Expire
  <2>3. End(c, {Challenge(t)}) /\ {Challenge(t)} \in SUBSET Changes
    BY <1>3, <2>1, NamesDiffer DEF Expire, Changes
  <2> HIDE DEF t
  <2>4. RowTypes'
    BY <1>1, <2>2, ZenonT(40) DEF IInv, RowTypes
  <2>5. TraceTypes'
    BY <1>1 DEF IInv, TraceTypes, traceVars
  <2>6. \A u \in ChallengeIds : challenge'[u].status \in {"NONE", "PENDING"} =>
                challenge[u].status \in {"NONE", "PENDING"}
    BY <2>2 DEF IInv, RowTypes
  <2> QED
    BY <1>1, <2>3, <2>4, <2>5, <2>6, QuietHolds DEF traceVars
<1> QED
  BY <1>2, <1>3

\* A challenge that is used looks used, and its change is told.
LEMMA UseKeeps ==
    ASSUME IInv, NEW c \in Clients, pc[c] \in {"reset", "verify"},
           NEW t, t = target[c][1], Use(c, Challenge(t)),
           challenge' = [challenge EXCEPT ![t].status = "VERIFIED"], UNCHANGED code
    PROVE  /\ t \in ChallengeIds
           /\ uses' \in [Secrets -> Nat] /\ contended' \subseteq Secrets
           /\ challenge' \in [ChallengeIds ->
                        [purpose : {"NONE"} \cup Purposes,
                         status : {"NONE", "PENDING", "VERIFIED", "EXPIRED", "LOCKED", "CANCELLED"},
                         until : Nat, attempts : Nat]]
           /\ \A u \in ChallengeIds : uses'[Challenge(u)] > 0 /\ Challenge(u) \notin contended' =>
                /\ uses'[Challenge(u)] = 1
                /\ challenge'[u].status \notin {"NONE", "PENDING"}
                /\ u # t => uses[Challenge(u)] > 0 /\ Challenge(u) \notin contended
           /\ \A k \in Codes : uses'[CodeRow(k)] > 0 /\ CodeRow(k) \notin contended' =>
                /\ uses'[CodeRow(k)] = 1
                /\ code'[k] \in {"USED", "DELETED"}
                /\ uses[CodeRow(k)] > 0 /\ CodeRow(k) \notin contended
<1>1. t \in ChallengeIds
  BY DEF IInv, TargetInv
<1>2. /\ uses' = [uses EXCEPT ![Challenge(t)] = @ + 1]
      /\ contended' = IF Challenge(t) \in missed[c] THEN contended \cup {Challenge(t)} ELSE contended
  BY DEF Use
<1>3. Challenge(t) \in missed[c] \/ uses[Challenge(t)] = 0 \/ Challenge(t) \in contended
  BY <1>1, NamesDiffer DEF IInv, TokenInv, TraceTypes
<1>4. uses' \in [Secrets -> Nat] /\ contended' \subseteq Secrets
  BY <1>1, <1>2, NamesDiffer DEF IInv, TraceTypes
<1>5. challenge' \in [ChallengeIds ->
                        [purpose : {"NONE"} \cup Purposes,
                         status : {"NONE", "PENDING", "VERIFIED", "EXPIRED", "LOCKED", "CANCELLED"},
                         until : Nat, attempts : Nat]]
  BY <1>1, SMTT(30) DEF IInv, RowTypes
<1>6. ASSUME NEW u \in ChallengeIds, u # t
      PROVE  /\ uses'[Challenge(u)] = uses[Challenge(u)] /\ challenge'[u] = challenge[u]
             /\ Challenge(u) \in contended' <=> Challenge(u) \in contended
  BY <1>1, <1>2, <1>6, NamesDiffer DEF IInv, TraceTypes, RowTypes
<1>7. Challenge(t) \in contended' \/ uses'[Challenge(t)] = 1
  BY <1>1, <1>2, <1>3, NamesDiffer DEF IInv, TraceTypes
<1>8. challenge'[t].status = "VERIFIED"
  BY <1>1 DEF IInv, RowTypes
<1>9. ASSUME NEW u \in ChallengeIds, uses'[Challenge(u)] > 0, Challenge(u) \notin contended'
      PROVE  /\ uses'[Challenge(u)] = 1
             /\ challenge'[u].status \notin {"NONE", "PENDING"}
             /\ u # t => uses[Challenge(u)] > 0 /\ Challenge(u) \notin contended
  <2>1. CASE u = t
    BY <1>7, <1>8, <1>9, <2>1
  <2>2. CASE u # t
    BY <1>6, <1>9, <2>2 DEF IInv, TokenInv
  <2> QED
    BY <2>1, <2>2
<1>10. \A k \in Codes : uses'[CodeRow(k)] > 0 /\ CodeRow(k) \notin contended' =>
                /\ uses'[CodeRow(k)] = 1
                /\ code'[k] \in {"USED", "DELETED"}
                /\ uses[CodeRow(k)] > 0 /\ CodeRow(k) \notin contended
  BY <1>1, <1>2, NamesDiffer DEF IInv, CodeInv, TraceTypes
<1> QED
  BY <1>1, <1>4, <1>5, <1>9, <1>10

\* a reset, which changes the password and ends all sessions,
LEMMA ResetHolds ==
    ASSUME IInv, NEW c \in Clients, Reset(c)
    PROVE  IInv'
<1> DEFINE t == target[c][1]
<1>1. /\ pc[c] = "reset" /\ Use(c, Challenge(t))
      /\ challenge' = [challenge EXCEPT ![t].status = "VERIFIED"]
      /\ End(c, {Changed("password"), Challenge(t)})
      /\ UNCHANGED <<now, factor, code, verified, late, stale, guesses, turns>>
  BY DEF Reset
<1>2. /\ password' = password + 1
      /\ session' = [s \in SessionIds |-> [session[s] EXCEPT !.revoked = TRUE]]
  BY DEF Reset
<1> HIDE DEF t
<1>3. t = target[c][1]
  BY DEF t
<1>4. /\ t \in ChallengeIds
      /\ uses' \in [Secrets -> Nat] /\ contended' \subseteq Secrets
      /\ challenge' \in [ChallengeIds ->
                        [purpose : {"NONE"} \cup Purposes,
                         status : {"NONE", "PENDING", "VERIFIED", "EXPIRED", "LOCKED", "CANCELLED"},
                         until : Nat, attempts : Nat]]
      /\ \A u \in ChallengeIds : uses'[Challenge(u)] > 0 /\ Challenge(u) \notin contended' =>
                /\ uses'[Challenge(u)] = 1
                /\ challenge'[u].status \notin {"NONE", "PENDING"}
                /\ u # t => uses[Challenge(u)] > 0 /\ Challenge(u) \notin contended
      /\ \A k \in Codes : uses'[CodeRow(k)] > 0 /\ CodeRow(k) \notin contended' =>
                /\ uses'[CodeRow(k)] = 1
                /\ code'[k] \in {"USED", "DELETED"}
                /\ uses[CodeRow(k)] > 0 /\ CodeRow(k) \notin contended
  BY <1>1, <1>3, UseKeeps
<1>5. {Changed("password"), Challenge(t)} \in SUBSET Changes
  BY <1>4, NamesDiffer DEF Changes
<1>6. /\ session' \in [SessionIds -> [password : Nat, until : Nat, revoked : BOOLEAN,
                                   with : {"NONE", "TOTP", "RECOVERY_CODE"}, stamp : Nat, at : Time]]
      /\ \A s \in SessionIds : session'[s].revoked
  <2> DEFINE SessionType == [password : Nat, until : Nat, revoked : BOOLEAN,
                             with : {"NONE", "TOTP", "RECOVERY_CODE"}, stamp : Nat, at : Time]
  <2>1. ASSUME NEW r \in SessionType
        PROVE  [r EXCEPT !.revoked = TRUE] \in SessionType /\ [r EXCEPT !.revoked = TRUE].revoked
    OBVIOUS
  <2>2. session \in [SessionIds -> SessionType]
    BY DEF IInv, RowTypes
  <2> HIDE DEF SessionType
  <2>3. session' \in [SessionIds -> SessionType] /\ \A s \in SessionIds : session'[s].revoked
    BY <1>2, <2>1, <2>2
  <2> QED
    BY <2>3 DEF SessionType
<1>7. password' \in Nat
  BY <1>2 DEF IInv, RowTypes
<1>8. RowTypes' /\ TraceTypes'
  BY <1>1, <1>4, <1>6, <1>7 DEF IInv, RowTypes, TraceTypes
<1>9. \A k \in Codes : /\ code[k] # "NONE" => code'[k] # "NONE"
                       /\ code'[k] = "NONE" <=> code'[<<k[1], 1>>] = "NONE"
  BY <1>1 DEF IInv, SetInv
<1> QED
  BY <1>1, <1>4, <1>5, <1>6, <1>8, <1>9, EndHolds

\* a code that is consumed,
LEMMA VerifyHolds ==
    ASSUME IInv, NEW c \in Clients, Verify(c)
    PROVE  IInv'
<1> DEFINE t == target[c][1]
<1>1. /\ pc[c] = "verify" /\ Use(c, Challenge(t)) /\ verified' = TRUE
      /\ challenge' = [challenge EXCEPT ![t].status = "VERIFIED"]
      /\ End(c, {Challenge(t)})
      /\ UNCHANGED <<now, password, session, factor, code, late, stale, guesses, turns>>
  BY DEF Verify
<1> HIDE DEF t
<1>2. t = target[c][1]
  BY DEF t
<1>3. /\ t \in ChallengeIds
      /\ uses' \in [Secrets -> Nat] /\ contended' \subseteq Secrets
      /\ challenge' \in [ChallengeIds ->
                        [purpose : {"NONE"} \cup Purposes,
                         status : {"NONE", "PENDING", "VERIFIED", "EXPIRED", "LOCKED", "CANCELLED"},
                         until : Nat, attempts : Nat]]
      /\ \A u \in ChallengeIds : uses'[Challenge(u)] > 0 /\ Challenge(u) \notin contended' =>
                /\ uses'[Challenge(u)] = 1
                /\ challenge'[u].status \notin {"NONE", "PENDING"}
                /\ u # t => uses[Challenge(u)] > 0 /\ Challenge(u) \notin contended
      /\ \A k \in Codes : uses'[CodeRow(k)] > 0 /\ CodeRow(k) \notin contended' =>
                /\ uses'[CodeRow(k)] = 1
                /\ code'[k] \in {"USED", "DELETED"}
                /\ uses[CodeRow(k)] > 0 /\ CodeRow(k) \notin contended
  BY <1>1, <1>2, UseKeeps
<1>4. {Challenge(t)} \in SUBSET Changes
  BY <1>3, NamesDiffer DEF Changes
<1>5. RowTypes' /\ TraceTypes'
  BY <1>1, <1>3 DEF IInv, RowTypes, TraceTypes
<1>6. \A k \in Codes : /\ code[k] # "NONE" => code'[k] # "NONE"
                       /\ code'[k] = "NONE" <=> code'[<<k[1], 1>>] = "NONE"
  BY <1>1 DEF IInv, SetInv
<1>7. \A s \in SessionIds : ~session'[s].revoked => session'[s].password = password' \/ s \in late'
  BY <1>1 DEF IInv, PasswordInv
<1> QED
  BY <1>1, <1>3, <1>4, <1>5, <1>6, <1>7, EndHolds

\* A miss writes the count it has read, and may so reopen a challenge: then it was contended.
LEMMA MissHolds ==
    ASSUME IInv, NEW c \in Clients, Miss(c)
    PROVE  IInv'
<1> DEFINE t == target[c][1]
<1> DEFINE status == IF seen[c] + 1 >= MaxAttempts THEN "LOCKED" ELSE "PENDING"
<1>1. /\ pc[c] = "miss"
      /\ challenge' = [challenge EXCEPT ![t] = [@ EXCEPT !.attempts = seen[c] + 1, !.status = status]]
      /\ guesses' = [guesses EXCEPT ![t] = @ + 1]
      /\ contended' = IF Challenge(t) \in missed[c] THEN contended \cup {Challenge(t)} ELSE contended
      /\ End(c, {Challenge(t)})
      /\ UNCHANGED <<now, password, session, factor, code, verified, late, stale, uses, turns>>
  BY DEF Miss
<1>2. t \in ChallengeIds /\ status \in {"LOCKED", "PENDING"}
  BY <1>1 DEF IInv, TargetInv
<1>3. {Challenge(t)} \in SUBSET Changes
  BY <1>2, NamesDiffer DEF Changes
<1>4. uses[Challenge(t)] > 0 => Challenge(t) \in contended'
  BY <1>1, <1>2 DEF IInv, TokenInv
<1> HIDE DEF t, status
<1>5. challenge' \in [ChallengeIds ->
                        [purpose : {"NONE"} \cup Purposes,
                         status : {"NONE", "PENDING", "VERIFIED", "EXPIRED", "LOCKED", "CANCELLED"},
                         until : Nat, attempts : Nat]]
  <2> DEFINE Type == [purpose : {"NONE"} \cup Purposes,
                      status : {"NONE", "PENDING", "VERIFIED", "EXPIRED", "LOCKED", "CANCELLED"},
                      until : Nat, attempts : Nat]
  <2>1. ASSUME NEW r \in Type
        PROVE  [r EXCEPT !.attempts = seen[c] + 1, !.status = status] \in Type
    <3> DEFINE q == [r EXCEPT !.attempts = seen[c] + 1]
    <3>1. seen[c] + 1 \in Nat
      BY DEF IInv, CallTypes
    <3>2. q \in Type
      BY <3>1
    <3> HIDE DEF q
    <3>3. [q EXCEPT !.status = status] \in Type
      BY <1>2, <3>2
    <3> QED
      BY <3>3 DEF q
  <2>2. challenge \in [ChallengeIds -> Type]
    BY DEF IInv, RowTypes
  <2> HIDE DEF Type
  <2>3. challenge' \in [ChallengeIds -> Type]
    BY <1>1, <1>2, <2>1, <2>2
  <2> QED
    BY <2>3 DEF Type
<1>6. RowTypes'
  BY <1>1, <1>5 DEF IInv, RowTypes
<1>7. TraceTypes'
  BY <1>1, <1>2, NamesDiffer DEF IInv, TraceTypes
<1>8. \A u \in ChallengeIds : uses'[Challenge(u)] > 0 /\ Challenge(u) \notin contended' =>
                /\ uses'[Challenge(u)] = 1
                /\ challenge'[u].status \notin {"NONE", "PENDING"}
                /\ \/ Challenge(u) \in {Challenge(t)}
                   \/ uses[Challenge(u)] > 0 /\ Challenge(u) \notin contended
  <2>1. ASSUME NEW u \in ChallengeIds, u # t
        PROVE  challenge'[u] = challenge[u] /\ (Challenge(u) \in contended => Challenge(u) \in contended')
    BY <1>1, <1>2, <2>1 DEF IInv, RowTypes
  <2> QED
    BY <1>1, <1>4, <2>1 DEF IInv, TokenInv
<1>9. \A k \in Codes : uses'[CodeRow(k)] > 0 /\ CodeRow(k) \notin contended' =>
                /\ uses'[CodeRow(k)] = 1
                /\ code'[k] \in {"USED", "DELETED"}
                /\ uses[CodeRow(k)] > 0 /\ CodeRow(k) \notin contended
  BY <1>1 DEF IInv, CodeInv
<1>10. \A k \in Codes : /\ code[k] # "NONE" => code'[k] # "NONE"
                        /\ code'[k] = "NONE" <=> code'[<<k[1], 1>>] = "NONE"
  BY <1>1 DEF IInv, SetInv
<1>11. \A s \in SessionIds : ~session'[s].revoked => session'[s].password = password' \/ s \in late'
  BY <1>1 DEF IInv, PasswordInv
<1> QED
  BY <1>1, <1>3, <1>6, <1>7, <1>8, <1>9, <1>10, <1>11, EndHolds

\* Steps that end no request, and use and open nothing.
LEMMA StepHolds ==
    ASSUME IInv, NEW c \in Clients, RowTypes', TraceTypes', CallTypes',
           UNCHANGED <<password, code, by, target, seen, late, uses, contended>>,
           \A d \in Clients : d # c => pc'[d] = pc[d] /\ held'[d] = held[d],
           pc'[c] \in Purposes \cup {"create", "activated", "regenerated"} \/ pc'[c] = pc[c],
           \A k \in Codes : CodeRow(k) \in held'[c] => code[k] # "NONE",
           \A d \in Clients : pc'[d] \in {"open", "reset", "verify", "miss", "use"} => missed[d] \subseteq missed'[d],
           \A s \in SessionIds : ~session'[s].revoked =>
                session'[s].password = session[s].password /\ ~session[s].revoked,
           \A t \in ChallengeIds : challenge'[t].status \in {"NONE", "PENDING"} =>
                challenge[t].status \in {"NONE", "PENDING"}
    PROVE  IInv'
<1>1. \A d \in Clients : \/ pc'[d] = pc[d]
                         \/ pc'[d] \notin {"open", "expire", "reset", "miss", "verify", "use", "stamp"}
  OBVIOUS
<1>2. TargetInv'
  <2>1. ASSUME NEW d \in Clients, pc'[d] = pc[d]
        PROVE  /\ pc'[d] \in {"expire", "reset", "miss", "verify"} => target[d][1] \in ChallengeIds
               /\ pc'[d] = "use" => target[d] \in Codes /\ code[target[d]] # "NONE"
               /\ pc'[d] \in {"stamp", "use"} => by[d] \in SessionIds
    BY <2>1 DEF IInv, TargetInv
  <2> QED
    BY <1>1, <2>1 DEF TargetInv
<1>3. PasswordInv'
  BY <1>1 DEF IInv, PasswordInv
<1>4. TokenInv'
  BY <1>1 DEF IInv, TokenInv
<1>5. CodeInv'
  BY <1>1 DEF IInv, CodeInv
<1>6. SetInv'
  BY DEF IInv, SetInv
<1> QED
  BY <1>2, <1>3, <1>4, <1>5, <1>6 DEF IInv

\* a new secret, which cancels the pending ones,
LEMMA RequestHolds ==
    ASSUME IInv, NEW c \in Clients, NEW purpose \in Purposes, Request(c, purpose)
    PROVE  IInv'
<1>1. /\ pc[c] = "idle" /\ turns < MaxTurns /\ turns' = turns + 1
      /\ challenge' = [t \in ChallengeIds |->
                        IF t \in Pending(purpose) THEN [challenge[t] EXCEPT !.status = "CANCELLED"]
                        ELSE challenge[t]]
      /\ pc' = [pc EXCEPT ![c] = purpose]
      /\ Tell(c, {Challenge(t) : t \in Pending(purpose)})
      /\ UNCHANGED <<now, password, session, factor, code, verified, by, target, seen, held, traceVars>>
  BY DEF Request
<1>2. challenge' \in [ChallengeIds ->
                        [purpose : {"NONE"} \cup Purposes,
                         status : {"NONE", "PENDING", "VERIFIED", "EXPIRED", "LOCKED", "CANCELLED"},
                         until : Nat, attempts : Nat]]
  BY <1>1 DEF IInv, RowTypes
<1>3. RowTypes' /\ TraceTypes'
  BY <1>1, <1>2 DEF IInv, RowTypes, TraceTypes, traceVars
<1>4. {Challenge(t) : t \in Pending(purpose)} \subseteq Changes
  BY NamesDiffer DEF Changes, Pending
<1>5. /\ missed' \in [Clients -> SUBSET Changes]
      /\ \A d \in Clients : d # c /\ pc[d] # "idle" => missed[d] \subseteq missed'[d]
  BY <1>1, <1>4 DEF IInv, CallTypes, Tell
<1>6. /\ pc' \in [Clients -> Steps]
      /\ pc'[c] = purpose
      /\ \A d \in Clients : d # c => pc'[d] = pc[d]
  BY <1>1 DEF IInv, CallTypes, Steps
<1>7. CallTypes'
  BY <1>1, <1>5, <1>6 DEF IInv, CallTypes
<1>8. \A t \in ChallengeIds : challenge'[t].status \in {"NONE", "PENDING"} =>
                challenge[t].status \in {"NONE", "PENDING"}
  BY <1>1 DEF IInv, RowTypes
<1>9. \A k \in Codes : CodeRow(k) \in held'[c] => code[k] # "NONE"
  BY <1>1 DEF IInv, SetInv
<1>10. \A d \in Clients : pc'[d] \in {"open", "reset", "verify", "miss", "use"} => missed[d] \subseteq missed'[d]
  BY <1>5, <1>6
<1> QED
  BY <1>1, <1>3, <1>6, <1>7, <1>8, <1>9, <1>10, StepHolds DEF traceVars

\* a logout,
LEMMA LogoutHolds ==
    ASSUME IInv, NEW c \in Clients, NEW s \in SessionIds, Logout(c, s)
    PROVE  IInv'
<1>1. /\ turns < MaxTurns /\ turns' = turns + 1
      /\ session' = [session EXCEPT ![s].revoked = TRUE]
      /\ UNCHANGED <<now, password, factor, code, challenge, verified, callVars, missed, traceVars>>
  BY DEF Logout
<1>2. RowTypes' /\ TraceTypes'
  <2>1. session' \in [SessionIds -> [password : Nat, until : Nat, revoked : BOOLEAN,
                                   with : {"NONE", "TOTP", "RECOVERY_CODE"}, stamp : Nat, at : Time]]
    <3>1. session \in [SessionIds -> [password : Nat, until : Nat, revoked : BOOLEAN,
                                   with : {"NONE", "TOTP", "RECOVERY_CODE"}, stamp : Nat, at : Time]]
      BY DEF IInv, RowTypes
    <3> DEFINE r == [session[s] EXCEPT !.revoked = TRUE]
    <3>2. r \in [password : Nat, until : Nat, revoked : BOOLEAN,
                with : {"NONE", "TOTP", "RECOVERY_CODE"}, stamp : Nat, at : Time]
      BY <3>1
    <3>3. session' = [session EXCEPT ![s] = r]
      BY <1>1
    <3> HIDE DEF r
    <3> QED
      BY <3>1, <3>2, <3>3
  <2> QED
    BY <1>1, <2>1 DEF IInv, RowTypes, TraceTypes, traceVars
<1>3. CallTypes'
  BY <1>1 DEF IInv, CallTypes, callVars
<1>4. \A r \in SessionIds : ~session'[r].revoked =>
                session'[r].password = session[r].password /\ ~session[r].revoked
  BY <1>1 DEF IInv, RowTypes
<1>5. \A k \in Codes : CodeRow(k) \in held'[c] => code[k] # "NONE"
  BY <1>1 DEF IInv, SetInv, callVars
<1> QED
  BY <1>1, <1>2, <1>3, <1>4, <1>5, StepHolds DEF callVars, traceVars

\* an enrolment,
LEMMA EnrollHolds ==
    ASSUME IInv, NEW c \in Clients, DropPending(c) \/ CreateFactor(c)
    PROVE  IInv'
<1>1. UNCHANGED <<now, password, session, code, challenge, verified, traceVars, turns>>
  BY DEF DropPending, CreateFactor
<1>2. factor' \in [FactorIds -> {"NONE", "PENDING", "ACTIVE", "REVOKED"}]
  BY DEF IInv, RowTypes, DropPending, CreateFactor
<1>3. RowTypes' /\ TraceTypes'
  BY <1>1, <1>2 DEF IInv, RowTypes, TraceTypes, traceVars
<1>4. CASE DropPending(c)
  <2>1. pc' = [pc EXCEPT ![c] = "create"] /\ UNCHANGED <<by, target, seen, held, missed>>
    BY <1>4 DEF DropPending
  <2>2. CallTypes' /\ pc'[c] = "create" /\ \A d \in Clients : d # c => pc'[d] = pc[d]
    BY <2>1 DEF IInv, CallTypes, Steps
  <2>3. \A k \in Codes : CodeRow(k) \in held'[c] => code[k] # "NONE"
    BY <2>1 DEF IInv, SetInv
  <2> QED
    BY <1>1, <1>3, <2>1, <2>2, <2>3, StepHolds DEF traceVars
<1>5. CASE CreateFactor(c)
  <2>1. End(c, {}) /\ {} \in SUBSET Changes
    BY <1>5 DEF CreateFactor
  <2> QED
    BY <1>1, <1>3, <2>1, QuietHolds DEF traceVars
<1> QED
  BY <1>4, <1>5

\* the first statements of a change of the factor or the codes,
LEMMA ChangeHolds ==
    ASSUME IInv, NEW c \in Clients, Change(c)
    PROVE  IInv'
<1> DEFINE rows == {Row(s) : s \in Others(c)}
                    \cup IF pc[c] = "regenerate" THEN {CodeRow(k) : k \in KeptCodes}
                         ELSE {FactorRow(f) : f \in Active \ {target[c][1]}}
<1>1. /\ held' = [held EXCEPT ![c] = rows]
      /\ pc' = [pc EXCEPT ![c] = IF @ = "activate" THEN "activated" ELSE "regenerated"]
      /\ UNCHANGED <<now, rowVars, by, target, seen, missed, traceVars, turns>>
  BY DEF Change
<1>2. rows \in SUBSET Rows
  BY DEF Rows, Others, KeptCodes, Active
<1>3. \A k \in Codes : CodeRow(k) \in rows => code[k] # "NONE"
  <2>1. \A k \in KeptCodes : k \in Codes /\ code[k] # "NONE"
    BY DEF KeptCodes
  <2>2. Others(c) \subseteq SessionIds /\ Active \subseteq FactorIds
    BY DEF Others, Active
  <2> QED
    BY <2>1, <2>2, NamesDiffer
<1> HIDE DEF rows
<1>4. RowTypes' /\ TraceTypes'
  BY <1>1 DEF IInv, RowTypes, TraceTypes, rowVars, traceVars
<1>5. CallTypes' /\ held'[c] = rows
  BY <1>1, <1>2 DEF IInv, CallTypes, Steps
<1>6. /\ pc'[c] \in {"activated", "regenerated"}
      /\ \A d \in Clients : d # c => pc'[d] = pc[d] /\ held'[d] = held[d]
  BY <1>1 DEF IInv, CallTypes
<1> QED
  BY <1>1, <1>3, <1>4, <1>5, <1>6, StepHolds DEF rowVars, traceVars

SessionType == [password : Nat, until : Nat, revoked : BOOLEAN,
                with : {"NONE", "TOTP", "RECOVERY_CODE"}, stamp : Nat, at : Time]

\* What the second factor changes in a session leaves its password, and ends it at most.
LEMMA SessionKeeps ==
    ASSUME NEW r \in SessionType, NEW kind \in {"NONE", "TOTP", "RECOVERY_CODE"}, NEW id \in Nat,
           NEW time \in Time
    PROVE  /\ [r EXCEPT !.with = kind, !.stamp = id, !.at = time] \in SessionType
           /\ [r EXCEPT !.with = kind, !.stamp = id, !.at = time].password = r.password
           /\ [r EXCEPT !.with = kind, !.stamp = id, !.at = time].revoked = r.revoked
           /\ [r EXCEPT !.revoked = TRUE, !.with = kind, !.stamp = id, !.at = time] \in SessionType
           /\ [r EXCEPT !.revoked = TRUE, !.with = kind, !.stamp = id, !.at = time].revoked
<1> DEFINE a == [r EXCEPT !.with = kind]
<1> DEFINE b == [a EXCEPT !.stamp = id]
<1>1. a \in SessionType /\ a.password = r.password /\ a.revoked = r.revoked
  BY DEF SessionType
<1> HIDE DEF a
<1>2. b \in SessionType /\ b.password = r.password /\ b.revoked = r.revoked
  BY <1>1 DEF SessionType
<1> HIDE DEF b
<1>3. /\ [b EXCEPT !.at = time] \in SessionType
      /\ [b EXCEPT !.at = time].password = r.password
      /\ [b EXCEPT !.at = time].revoked = r.revoked
  BY <1>2 DEF SessionType
<1>4. [r EXCEPT !.with = kind, !.stamp = id, !.at = time] = [b EXCEPT !.at = time]
  BY DEF a, b
<1> DEFINE q == [r EXCEPT !.revoked = TRUE]
<1> DEFINE e == [q EXCEPT !.with = kind]
<1> DEFINE f == [e EXCEPT !.stamp = id]
<1>5. q \in SessionType /\ q.revoked
  BY DEF SessionType
<1> HIDE DEF q
<1>6. e \in SessionType /\ e.revoked
  BY <1>5 DEF SessionType
<1> HIDE DEF e
<1>7. f \in SessionType /\ f.revoked
  BY <1>6 DEF SessionType
<1> HIDE DEF f
<1>8. [f EXCEPT !.at = time] \in SessionType /\ [f EXCEPT !.at = time].revoked
  BY <1>7 DEF SessionType
<1>9. [r EXCEPT !.revoked = TRUE, !.with = kind, !.stamp = id, !.at = time] = [f EXCEPT !.at = time]
  BY DEF q, e, f
<1> QED
  BY <1>3, <1>4, <1>8, <1>9

\* What such a change leaves of the sessions is sessions, none of them opened by it.
LEMMA AfterKeeps ==
    ASSUME session \in [SessionIds -> SessionType], NEW c \in Clients
    PROVE  /\ SessionsAfter(c) \in [SessionIds -> SessionType]
           /\ \A s \in SessionIds : ~SessionsAfter(c)[s].revoked =>
                SessionsAfter(c)[s].password = session[s].password /\ ~session[s].revoked
<1>1. ASSUME NEW s \in SessionIds
      PROVE  /\ SessionsAfter(c)[s] \in SessionType
             /\ ~SessionsAfter(c)[s].revoked =>
                    SessionsAfter(c)[s].password = session[s].password /\ ~session[s].revoked
  <2> DEFINE r == session[s]
  <2> DEFINE x == [r EXCEPT !.revoked = TRUE, !.with = "NONE", !.stamp = 0, !.at = 0]
  <2> DEFINE y == [r EXCEPT !.with = "NONE", !.stamp = 0, !.at = 0]
  <2>1. r \in SessionType /\ 0 \in 0..MaxTime /\ 0 \in Nat /\ "NONE" \in {"NONE", "TOTP", "RECOVERY_CODE"}
    OBVIOUS
  <2>2. SessionsAfter(c)[s] = IF Row(s) \in held[c] THEN x ELSE IF s = by[c] THEN y ELSE r
    BY DEF SessionsAfter
  <2> HIDE DEF r
  <2>3. x \in SessionType /\ x.revoked
    BY <2>1, SessionKeeps, Zenon
  <2>6. y \in SessionType /\ y.password = r.password /\ y.revoked = r.revoked
    <3>1. y \in SessionType
      BY <2>1, SessionKeeps, Zenon
    <3>2. y.password = r.password
      BY <2>1 DEF SessionType
    <3>3. y.revoked = r.revoked
      BY <2>1 DEF SessionType
    <3> QED
      BY <3>1, <3>2, <3>3
  <2> HIDE DEF x, y
  <2>4. SessionsAfter(c)[s] \in SessionType
    BY <2>1, <2>2, <2>3, <2>6
  <2>5. ~SessionsAfter(c)[s].revoked => SessionsAfter(c)[s].password = r.password /\ ~r.revoked
    BY <2>2, <2>3, <2>6
  <2> QED
    BY <2>4, <2>5 DEF r
<1>2. SessionsAfter(c) = [s \in SessionIds |-> SessionsAfter(c)[s]]
  BY DEF SessionsAfter
<1> HIDE DEF SessionsAfter
<1> QED
  BY <1>1, <1>2

\* The activation of a factor keeps the invariant,
LEMMA FinishActivationHolds ==
    ASSUME IInv, NEW c \in Clients, FinishActivation(c)
    PROVE  IInv'
<1>1. session \in [SessionIds -> SessionType]
  BY DEF IInv, RowTypes, SessionType
<1>2. /\ SessionsAfter(c) \in [SessionIds -> SessionType]
      /\ \A s \in SessionIds : ~SessionsAfter(c)[s].revoked =>
            SessionsAfter(c)[s].password = session[s].password /\ ~session[s].revoked
  BY <1>1, AfterKeeps
<1>3. /\ session' = SessionsAfter(c)
      /\ stale' = stale \cup Escaped(c)
      /\ End(c, {Changed("factor")})
      /\ UNCHANGED <<now, password, code, challenge, verified, late, uses, contended, guesses, turns>>
  BY DEF FinishActivation
<1>4. factor' \in [FactorIds -> {"NONE", "PENDING", "ACTIVE", "REVOKED"}]
  BY DEF FinishActivation, IInv, RowTypes
<1>5. RowTypes'
  BY <1>2, <1>3, <1>4 DEF IInv, RowTypes, SessionType
<1>6. TraceTypes'
  BY <1>3 DEF IInv, TraceTypes, Escaped, Others
<1>7. {Changed("factor")} \in SUBSET Changes
  BY DEF Changes
<1> QED
  BY <1>2, <1>3, <1>5, <1>6, <1>7, QuietHolds

\* The codes of the new set have never been there.
LEMMA FinishRegenerationHolds ==
    ASSUME IInv, NEW c \in Clients, FinishRegeneration(c)
    PROVE  IInv'
<1>1. session \in [SessionIds -> SessionType]
  BY DEF IInv, RowTypes, SessionType
<1>2. /\ SessionsAfter(c) \in [SessionIds -> SessionType]
      /\ \A s \in SessionIds : ~SessionsAfter(c)[s].revoked =>
            SessionsAfter(c)[s].password = session[s].password /\ ~session[s].revoked
  BY <1>1, AfterKeeps
<1>3. PICK g \in 1..MaxSets :
        /\ code[<<g, 1>>] = "NONE"
        /\ code' = [k \in Codes |-> IF k[1] = g THEN "FRESH"
                                    ELSE IF CodeRow(k) \in held[c] THEN "DELETED" ELSE code[k]]
  BY DEF FinishRegeneration
<1>4. /\ session' = SessionsAfter(c)
      /\ stale' = stale \cup Escaped(c)
      /\ End(c, {Changed("codes")})
      /\ UNCHANGED <<now, password, factor, challenge, verified, late, uses, contended, guesses, turns>>
  BY DEF FinishRegeneration
<1>5. code' \in [Codes -> {"NONE", "FRESH", "USED", "DELETED"}]
  BY <1>3 DEF IInv, RowTypes
<1>6. RowTypes'
  BY <1>2, <1>4, <1>5 DEF IInv, RowTypes, SessionType
<1>7. TraceTypes'
  BY <1>4 DEF IInv, TraceTypes, Escaped, Others
<1>8. {Changed("codes")} \in SUBSET Changes
  BY DEF Changes
<1>9. \A s \in SessionIds : ~session'[s].revoked => session'[s].password = password' \/ s \in late'
  BY <1>2, <1>4 DEF IInv, PasswordInv
<1>10. \A k \in Codes : /\ code[k] # "NONE" => code'[k] # "NONE"
                        /\ code'[k] = "NONE" <=> code'[<<k[1], 1>>] = "NONE"
  <2>1. \A k \in Codes : code'[k] = "NONE" <=> k[1] # g /\ code[k] = "NONE"
    BY <1>3 DEF IInv, SetInv
  <2> QED
    BY <2>1, NamesDiffer DEF IInv, SetInv
<1>11. \A t \in ChallengeIds : uses'[Challenge(t)] > 0 /\ Challenge(t) \notin contended' =>
                /\ uses'[Challenge(t)] = 1
                /\ challenge'[t].status \notin {"NONE", "PENDING"}
                /\ uses[Challenge(t)] > 0 /\ Challenge(t) \notin contended
  BY <1>4 DEF IInv, TokenInv
<1>12. ASSUME NEW k \in Codes, uses'[CodeRow(k)] > 0, CodeRow(k) \notin contended'
       PROVE  /\ uses'[CodeRow(k)] = 1
              /\ code'[k] \in {"USED", "DELETED"}
              /\ uses[CodeRow(k)] > 0 /\ CodeRow(k) \notin contended
  <2>1. uses[CodeRow(k)] = 1 /\ code[k] \in {"USED", "DELETED"}
    BY <1>4, <1>12 DEF IInv, CodeInv
  <2>2. k[1] # g
    BY <1>3, <2>1 DEF IInv, SetInv
  <2>3. code'[k] \in {"USED", "DELETED"}
    BY <1>3, <2>1, <2>2
  <2> QED
    BY <1>4, <1>12, <2>1, <2>3
<1> QED
  BY <1>4, <1>6, <1>7, <1>8, <1>9, <1>10, <1>11, <1>12, EndHolds

\* A stamp changes neither the password of a session nor whether it is open.
LEMMA StampedKeeps ==
    ASSUME IInv, NEW c \in Clients, by[c] \in SessionIds, NEW kind \in {"TOTP", "RECOVERY_CODE"},
           NEW id \in Nat, Stamped(c, kind, id)
    PROVE  /\ session' \in [SessionIds -> SessionType]
           /\ stale' \subseteq SessionIds
           /\ \A s \in SessionIds : ~session'[s].revoked =>
                session'[s].password = session[s].password /\ ~session[s].revoked
<1> DEFINE r == session[by[c]]
<1> DEFINE x == [r EXCEPT !.with = kind, !.stamp = id, !.at = now]
<1>1. session \in [SessionIds -> SessionType] /\ now \in 0..MaxTime
  BY DEF IInv, RowTypes, SessionType, TraceTypes
<1>2. session' = [session EXCEPT ![by[c]] = x]
  BY DEF Stamped
<1>3. stale' \subseteq SessionIds
  BY DEF IInv, TraceTypes, Stamped
<1>4. r \in SessionType /\ kind \in {"NONE", "TOTP", "RECOVERY_CODE"}
  BY <1>1
<1>5. x.password = r.password /\ x.revoked = r.revoked
  BY <1>4 DEF SessionType
<1> HIDE DEF r
<1>6. x \in SessionType
  BY <1>1, <1>4, SessionKeeps, Zenon
<1> HIDE DEF x
<1>7. session' \in [SessionIds -> SessionType]
  BY <1>1, <1>2, <1>6
<1>8. session'[by[c]] = x /\ \A s \in SessionIds : s # by[c] => session'[s] = session[s]
  BY <1>1, <1>2
<1> QED
  BY <1>3, <1>5, <1>7, <1>8 DEF r

\* So a stamp keeps the invariant,
LEMMA StampHolds ==
    ASSUME IInv, NEW c \in Clients, Stamp(c)
    PROVE  IInv'
<1>1. /\ Stamped(c, "TOTP", target[c][1]) /\ End(c, {}) /\ {} \in SUBSET Changes
      /\ UNCHANGED <<now, password, factor, code, challenge, verified, late, uses, contended,
                   guesses, turns>>
  BY DEF Stamp
<1>2. by[c] \in SessionIds
  BY DEF IInv, TargetInv, Stamp
<1>3. target[c][1] \in Nat /\ "TOTP" \in {"TOTP", "RECOVERY_CODE"}
  BY DEF IInv, CallTypes
<1>4. /\ session' \in [SessionIds -> SessionType]
      /\ stale' \subseteq SessionIds
      /\ \A s \in SessionIds : ~session'[s].revoked =>
                session'[s].password = session[s].password /\ ~session[s].revoked
  BY <1>1, <1>2, <1>3, StampedKeeps
<1>5. RowTypes' /\ TraceTypes'
  BY <1>1, <1>4 DEF IInv, RowTypes, TraceTypes, SessionType
<1> QED
  BY <1>1, <1>4, <1>5, QuietHolds

\* and a recovery code that is consumed with one,
LEMMA UseCodeHolds ==
    ASSUME IInv, NEW c \in Clients, UseCode(c)
    PROVE  IInv'
<1> DEFINE k == target[c]
<1>1. /\ Stamped(c, "RECOVERY_CODE", k[1]) /\ Use(c, CodeRow(k)) /\ End(c, {CodeRow(k)})
      /\ pc[c] = "use"
      /\ code' = [code EXCEPT ![k] = "USED"]
      /\ UNCHANGED <<now, password, factor, challenge, verified, late, guesses, turns>>
  BY DEF UseCode
<1>2. by[c] \in SessionIds /\ k \in Codes /\ code[k] # "NONE"
  BY <1>1 DEF IInv, TargetInv
<1>3. k[1] \in Nat /\ "RECOVERY_CODE" \in {"TOTP", "RECOVERY_CODE"}
  BY DEF IInv, CallTypes
<1>4. /\ session' \in [SessionIds -> SessionType]
      /\ stale' \subseteq SessionIds
      /\ \A s \in SessionIds : ~session'[s].revoked =>
                session'[s].password = session[s].password /\ ~session[s].revoked
  BY <1>1, <1>2, <1>3, StampedKeeps
<1>5. CodeRow(k) \in missed[c] \/ uses[CodeRow(k)] = 0 \/ CodeRow(k) \in contended
  BY <1>1, <1>2, NamesDiffer DEF IInv, CodeInv, TraceTypes
<1> HIDE DEF k
<1>6. /\ uses' = [uses EXCEPT ![CodeRow(k)] = @ + 1]
      /\ contended' = IF CodeRow(k) \in missed[c] THEN contended \cup {CodeRow(k)} ELSE contended
  BY <1>1 DEF Use
<1>7. {CodeRow(k)} \in SUBSET Changes
  BY <1>2, NamesDiffer DEF Changes
<1>8. code' \in [Codes -> {"NONE", "FRESH", "USED", "DELETED"}]
  BY <1>1, <1>2 DEF IInv, RowTypes
<1>9. uses' \in [Secrets -> Nat] /\ contended' \subseteq Secrets
  BY <1>2, <1>6, NamesDiffer DEF IInv, TraceTypes
<1>10. RowTypes' /\ TraceTypes'
  BY <1>1, <1>4, <1>8, <1>9 DEF IInv, RowTypes, TraceTypes, SessionType
<1>11. \A s \in SessionIds : ~session'[s].revoked => session'[s].password = password' \/ s \in late'
  BY <1>1, <1>4 DEF IInv, PasswordInv
<1>12. \A l \in Codes : /\ code[l] # "NONE" => code'[l] # "NONE"
                        /\ code'[l] = "NONE" <=> code'[<<l[1], 1>>] = "NONE"
  <2>1. \A l \in Codes : code'[l] = "NONE" <=> code[l] = "NONE"
    BY <1>1, <1>2 DEF IInv, RowTypes
  <2> QED
    BY <2>1, NamesDiffer DEF IInv, SetInv
<1>13. \A t \in ChallengeIds : uses'[Challenge(t)] > 0 /\ Challenge(t) \notin contended' =>
                /\ uses'[Challenge(t)] = 1
                /\ challenge'[t].status \notin {"NONE", "PENDING"}
                /\ uses[Challenge(t)] > 0 /\ Challenge(t) \notin contended
  BY <1>1, <1>2, <1>6, NamesDiffer DEF IInv, TokenInv, TraceTypes
<1>14. ASSUME NEW l \in Codes, uses'[CodeRow(l)] > 0, CodeRow(l) \notin contended'
       PROVE  /\ uses'[CodeRow(l)] = 1
              /\ code'[l] \in {"USED", "DELETED"}
              /\ CodeRow(l) \notin {CodeRow(k)} => uses[CodeRow(l)] > 0 /\ CodeRow(l) \notin contended
  <2>1. CASE l = k
    BY <1>1, <1>2, <1>5, <1>6, <1>14, <2>1, NamesDiffer DEF IInv, RowTypes, TraceTypes
  <2>2. CASE l # k
    BY <1>1, <1>2, <1>6, <1>14, <2>2, NamesDiffer DEF IInv, RowTypes, TraceTypes, CodeInv
  <2> QED
    BY <2>1, <2>2
<1> QED
  BY <1>1, <1>7, <1>10, <1>11, <1>12, <1>13, <1>14, EndHolds

\* and a request that fails.
LEMMA AbortHolds ==
    ASSUME IInv, NEW c \in Clients, Abort(c)
    PROVE  IInv'
<1>1. End(c, {}) /\ {} \in SUBSET Changes /\ UNCHANGED <<now, rowVars, traceVars, turns>>
  BY DEF Abort
<1>2. RowTypes' /\ TraceTypes'
  BY <1>1 DEF IInv, RowTypes, TraceTypes, rowVars, traceVars
<1> QED
  BY <1>1, <1>2, QuietHolds DEF rowVars, traceVars

\* Every step keeps the invariant.
LEMMA NextHolds == IInv /\ [Next]_vars => IInv'
<1> SUFFICES ASSUME IInv, [Next]_vars PROVE IInv'
  OBVIOUS
<1>1. CASE Clock \/ UNCHANGED vars
  <2>1. /\ UNCHANGED <<rowVars, callVars, missed, traceVars, turns>>
        /\ now' \in Time
    BY <1>1 DEF Clock, vars, IInv, TraceTypes
  <2>2. RowTypes' /\ TraceTypes' /\ CallTypes'
    BY <2>1 DEF IInv, RowTypes, TraceTypes, CallTypes, rowVars, callVars, traceVars
  <2>3. TargetInv' /\ PasswordInv' /\ TokenInv' /\ CodeInv' /\ SetInv'
    BY <2>1 DEF IInv, TargetInv, PasswordInv, TokenInv, CodeInv, SetInv, rowVars, callVars, traceVars
  <2> QED
    BY <2>2, <2>3 DEF IInv
<1>2. ASSUME NEW c \in Clients, Call(c) PROVE IInv'
  <2>1. CASE \E purpose \in Purposes : Request(c, purpose)
    BY <2>1, RequestHolds
  <2>2. CASE \E s \in SessionIds : Logout(c, s)
    BY <2>2, LogoutHolds
  <2>3. CASE ~(\E purpose \in Purposes : Request(c, purpose)) /\ ~(\E s \in SessionIds : Logout(c, s))
    BY <1>2, <2>3, CallHolds DEF Call
  <2> QED
    BY <2>1, <2>2, <2>3
<1>3. ASSUME NEW c \in Clients, Proceed(c) PROVE IInv'
  BY <1>3, OpenSessionHolds, ChallengeHolds, ResetHolds, MissHolds, VerifyHolds, EnrollHolds,
     ChangeHolds, FinishActivationHolds, FinishRegenerationHolds, StampHolds, UseCodeHolds DEF Proceed
<1>4. ASSUME NEW c \in Clients, Abort(c) PROVE IInv'
  BY <1>4, AbortHolds
<1> QED
  BY <1>1, <1>2, <1>3, <1>4 DEF Next

\* The inductive invariant.
THEOREM InvariantHolds == Spec => []IInv
<1> QED
  BY InitHolds, NextHolds, PTL DEF Spec

\* Every variable keeps its shape.
THEOREM TypeCorrect == Spec => []TypeOK
<1>1. IInv => TypeOK
  BY DEF IInv, TypeOK
<1> QED
  BY <1>1, InvariantHolds, PTL

\* A password reset leaves no session that an earlier password opened, but for logins that
\* had compared it before.
THEOREM ResetEnds == Spec => []ResetEndsSessions
<1>1. IInv => ResetEndsSessions
  BY DEF IInv, PasswordInv, ResetEndsSessions, Live
<1> QED
  BY <1>1, InvariantHolds, PTL

\* A secret works a second time only for a request that had read it before the first.
THEOREM WorkOnce == Spec => []SecretsWorkOnce
<1>1. IInv => SecretsWorkOnce
  <2>1. ASSUME IInv, NEW x \in Secrets, uses[x] > 1, x \notin contended PROVE FALSE
    <3>1. uses[x] \in Nat /\ uses[x] > 0
      BY <2>1 DEF IInv, TraceTypes
    <3>2. ASSUME NEW t \in ChallengeIds, x = Challenge(t) PROVE FALSE
      BY <2>1, <3>1, <3>2 DEF IInv, TokenInv
    <3>3. ASSUME NEW k \in Codes, x = CodeRow(k) PROVE FALSE
      BY <2>1, <3>1, <3>3 DEF IInv, CodeInv
    <3> QED
      BY <3>2, <3>3 DEF Secrets
  <2> QED
    BY <2>1 DEF SecretsWorkOnce
<1> QED
  BY <1>1, InvariantHolds, PTL

-----------------------------------------------------------------------------
(* Wrong codes and stamps.                                                 *)

\* A challenge that no out-of-date count was written to has counted every code compared with
\* it, and is locked at the last.
Counted ==
    \A t \in ChallengeIds :
        /\ challenge[t].status = "NONE" => guesses[t] = 0
        /\ Challenge(t) \notin contended =>
            /\ guesses[t] = challenge[t].attempts
            /\ challenge[t].attempts =< MaxAttempts
            /\ challenge[t].status = "PENDING" => challenge[t].attempts < MaxAttempts

\* A request that has compared a wrong code has the count, or has missed a change of it.
CountsRead ==
    \A c \in Clients : pc[c] = "miss" /\ Challenge(target[c][1]) \notin missed[c] =>
        /\ seen[c] = challenge[target[c][1]].attempts
        /\ challenge[target[c][1]].status = "PENDING"

GuessInv == Counted /\ CountsRead

\* Every open session that is stamped is backed, or stale.
Backed ==
    \A s \in SessionIds : ~session[s].revoked /\ session[s].with # "NONE" =>
        \/ s \in stale
        \/ /\ session[s].with = "TOTP"
           /\ session[s].stamp \in FactorIds
           /\ factor[session[s].stamp] = "ACTIVE"
        \/ /\ session[s].with = "RECOVERY_CODE"
           /\ \E n \in 1..CodesPerSet : /\ <<session[s].stamp, n>> \in Codes
                                       /\ code[<<session[s].stamp, n>>] \in {"FRESH", "USED"}

\* A request that is about to stamp one has an active factor, or has missed its change.
FactorsRead ==
    \A c \in Clients : pc[c] = "stamp" /\ Changed("factor") \notin missed[c] =>
        target[c][1] \in FactorIds /\ factor[target[c][1]] = "ACTIVE"

StepUpInv == Backed /\ FactorsRead

\* It holds at first.
LEMMA MoreInit == Init => GuessInv /\ StepUpInv
<1> SUFFICES ASSUME Init PROVE GuessInv /\ StepUpInv
  OBVIOUS
<1>1. PICK e \in Established :
        session = [s \in SessionIds |-> IF e /\ s = 1 THEN NewSession(1) ELSE NoSession]
  BY DEF Init
<1>2. GuessInv
  BY DEF Init, GuessInv, Counted, CountsRead, NoChallenge
<1>3. StepUpInv
  BY <1>1 DEF Init, StepUpInv, Backed, FactorsRead, NewSession, NoSession
<1> QED
  BY <1>2, <1>3

\* A request that begins with a comparison or with a stamp has just read what it is about.
LEMMA CallBegins ==
    ASSUME IInv, NEW c \in Clients,
           \/ Login(c) \/ VerifyOtp(c)
           \/ \E t \in ChallengeIds : ReadToken(c, t)
           \/ \E right \in BOOLEAN : Confirm(c, right)
           \/ \E s \in SessionIds :
                \/ Enroll(c, s) \/ Regenerate(c, s)
                \/ \E f \in FactorIds : Activate(c, s, f) \/ ChallengeTotp(c, s, f)
                \/ \E k \in Codes : ChallengeCode(c, s, k)
    PROVE  /\ UNCHANGED <<now, rowVars, traceVars, held, missed>>
           /\ \A d \in Clients : d # c => /\ pc'[d] = pc[d] /\ target'[d] = target[d]
                                          /\ seen'[d] = seen[d]
           /\ pc'[c] = "miss" => /\ seen'[c] = challenge[target'[c][1]].attempts
                                 /\ challenge[target'[c][1]].status = "PENDING"
           /\ pc'[c] = "stamp" => target'[c][1] \in FactorIds /\ factor[target'[c][1]] = "ACTIVE"
<1>1. UNCHANGED <<now, rowVars, traceVars>>
  BY DEF Login, VerifyOtp, ReadToken, Confirm, Enroll, Regenerate, Activate, ChallengeTotp, ChallengeCode
<1>2. ASSUME NEW step, NEW s, NEW row, NEW value, Begin(c, step, s, row, value)
      PROVE  /\ UNCHANGED <<held, missed>>
             /\ pc'[c] = step /\ target'[c] = row /\ seen'[c] = value
             /\ \A d \in Clients : d # c => /\ pc'[d] = pc[d] /\ target'[d] = target[d]
                                            /\ seen'[d] = seen[d]
  BY <1>2 DEF Begin, IInv, CallTypes
<1>3. CASE Login(c)
  BY <1>1, <1>2, <1>3 DEF Login
<1>4. CASE VerifyOtp(c)
  <2>1. PICK t \in ChallengeIds : Begin(c, "verify", 0, <<t, 0>>, 0)
    BY <1>4 DEF VerifyOtp, Pending
  <2> QED
    BY <1>1, <1>2, <2>1
<1>5. ASSUME NEW t \in ChallengeIds, ReadToken(c, t) PROVE \E step \in {"expire", "reset"} : Begin(c, step, 0, <<t, 0>>, 0)
  BY <1>5 DEF ReadToken
<1>6. CASE \E right \in BOOLEAN : Confirm(c, right)
  <2>1. PICK right \in BOOLEAN, t \in ChallengeIds :
            challenge[t].status = "PENDING" /\ Begin(c, Outcome(t, right), 0, <<t, 0>>, challenge[t].attempts)
    BY <1>6 DEF Confirm, Pending
  <2>2. Outcome(t, right) # "stamp" /\ <<t, 0>>[1] = t
    BY DEF Outcome
  <2> QED
    BY <1>1, <1>2, <2>1, <2>2
<1>7. ASSUME NEW s \in SessionIds, Enroll(c, s) \/ Regenerate(c, s)
      PROVE  \E step \in {"enroll", "regenerate"} : Begin(c, step, s, <<0, 0>>, 0)
  BY <1>7 DEF Enroll, Regenerate
<1>8. ASSUME NEW s \in SessionIds, NEW f \in FactorIds, Activate(c, s, f) \/ ChallengeTotp(c, s, f)
      PROVE  \E step \in {"activate", "stamp"} : /\ Begin(c, step, s, <<f, 0>>, 0)
                                                 /\ step = "stamp" => factor[f] = "ACTIVE"
  BY <1>8 DEF Activate, ChallengeTotp, Active
<1>9. ASSUME NEW s \in SessionIds, NEW k \in Codes, ChallengeCode(c, s, k)
      PROVE  Begin(c, "use", s, k, 0)
  BY <1>9 DEF ChallengeCode
<1>10. CASE \E t \in ChallengeIds : ReadToken(c, t)
  BY <1>1, <1>2, <1>5, <1>10
<1>11. CASE \E s \in SessionIds : Enroll(c, s) \/ Regenerate(c, s)
  BY <1>1, <1>2, <1>7, <1>11
<1>12. CASE \E s \in SessionIds : \E f \in FactorIds : Activate(c, s, f) \/ ChallengeTotp(c, s, f)
  <2>1. PICK s \in SessionIds, f \in FactorIds : Activate(c, s, f) \/ ChallengeTotp(c, s, f)
    BY <1>12
  <2>2. PICK step \in {"activate", "stamp"} : /\ Begin(c, step, s, <<f, 0>>, 0)
                                              /\ step = "stamp" => factor[f] = "ACTIVE"
    BY <1>8, <2>1
  <2>3. <<f, 0>>[1] = f
    OBVIOUS
  <2> QED
    BY <1>1, <1>2, <2>2, <2>3
<1>13. CASE \E s \in SessionIds : \E k \in Codes : ChallengeCode(c, s, k)
  BY <1>1, <1>2, <1>9, <1>13
<1> QED
  BY <1>3, <1>4, <1>6, <1>10, <1>11, <1>12, <1>13

\* Requests that go on keep what they have read, but for what they have missed.
LEMMA OthersRemember ==
    ASSUME IInv, GuessInv, StepUpInv, NEW c \in Clients, NEW changes,
           \A d \in Clients : d # c /\ pc'[d] \in {"miss", "stamp"} =>
                /\ pc'[d] = pc[d] /\ target'[d] = target[d] /\ seen'[d] = seen[d]
                /\ missed[d] \cup changes \subseteq missed'[d],
           pc'[c] \notin {"miss", "stamp"},
           \A t \in ChallengeIds : challenge[t].status = "PENDING" /\ Challenge(t) \notin changes =>
                /\ challenge'[t].attempts = challenge[t].attempts
                /\ challenge'[t].status = challenge[t].status,
           Changed("factor") \notin changes => \A f \in FactorIds : factor[f] = "ACTIVE" => factor'[f] = "ACTIVE"
    PROVE  CountsRead' /\ FactorsRead'
<1>1. ASSUME NEW d \in Clients, pc'[d] = "miss", Challenge(target'[d][1]) \notin missed'[d]
      PROVE  /\ seen'[d] = challenge'[target'[d][1]].attempts
             /\ challenge'[target'[d][1]].status = "PENDING"
  <2>1. d # c /\ pc[d] = "miss" /\ target'[d] = target[d] /\ seen'[d] = seen[d]
    BY <1>1
  <2> DEFINE t == target[d][1]
  <2>2. t \in ChallengeIds
    BY <2>1 DEF IInv, TargetInv
  <2>3. Challenge(t) \notin missed[d] /\ Challenge(t) \notin changes
    BY <1>1, <2>1
  <2>4. seen[d] = challenge[t].attempts /\ challenge[t].status = "PENDING"
    BY <2>1, <2>3 DEF GuessInv, CountsRead
  <2> QED
    BY <2>1, <2>2, <2>3, <2>4
<1>2. ASSUME NEW d \in Clients, pc'[d] = "stamp", Changed("factor") \notin missed'[d]
      PROVE  target'[d][1] \in FactorIds /\ factor'[target'[d][1]] = "ACTIVE"
  <2>1. d # c /\ pc[d] = "stamp" /\ target'[d] = target[d]
    BY <1>2
  <2>2. Changed("factor") \notin missed[d] /\ Changed("factor") \notin changes
    BY <1>2
  <2> QED
    BY <2>1, <2>2 DEF StepUpInv, FactorsRead
<1> QED
  BY <1>1, <1>2 DEF CountsRead, FactorsRead

\* The same of a request that ends.
LEMMA EndRemembers ==
    ASSUME IInv, GuessInv, StepUpInv, NEW c \in Clients, NEW changes \in SUBSET Changes, End(c, changes),
           \A t \in ChallengeIds : challenge[t].status = "PENDING" /\ Challenge(t) \notin changes =>
                /\ challenge'[t].attempts = challenge[t].attempts
                /\ challenge'[t].status = challenge[t].status,
           Changed("factor") \notin changes => \A f \in FactorIds : factor[f] = "ACTIVE" => factor'[f] = "ACTIVE",
           Counted', Backed'
    PROVE  GuessInv' /\ StepUpInv'
<1>1. /\ pc'[c] = "idle"
      /\ \A d \in Clients : d # c =>
            /\ pc'[d] = pc[d] /\ by'[d] = by[d] /\ target'[d] = target[d]
            /\ seen'[d] = seen[d] /\ held'[d] = held[d]
            /\ pc[d] # "idle" => missed'[d] = missed[d] \cup changes
  BY EndKeeps DEF IInv
<1>2. CountsRead' /\ FactorsRead'
  BY <1>1, OthersRemember
<1> QED
  BY <1>2 DEF GuessInv, StepUpInv

\* A challenge that is cancelled, marked as too old or used keeps its count.
LEMMA CountsKept ==
    ASSUME IInv, Counted, UNCHANGED guesses, contended \subseteq contended',
           \A t \in ChallengeIds :
                /\ challenge'[t].attempts = challenge[t].attempts
                /\ \/ challenge'[t].status = challenge[t].status
                   \/ challenge'[t].status \notin {"NONE", "PENDING"}
    PROVE  Counted'
  BY DEF Counted

\* Sessions that stay open as they were keep what backs them, unless that is taken back.
LEMMA BackingKept ==
    ASSUME IInv, Backed, stale \subseteq stale',
           \A s \in SessionIds : ~session'[s].revoked /\ session'[s].with # "NONE" =>
                ~session[s].revoked /\ session'[s].with = session[s].with /\ session'[s].stamp = session[s].stamp,
           \A f \in FactorIds : factor[f] = "ACTIVE" => factor'[f] = "ACTIVE",
           \A k \in Codes : code[k] \in {"FRESH", "USED"} => code'[k] \in {"FRESH", "USED"}
    PROVE  Backed'
<1>1. ASSUME NEW s \in SessionIds, ~session'[s].revoked, session'[s].with # "NONE"
      PROVE  \/ s \in stale'
             \/ /\ session'[s].with = "TOTP"
                /\ session'[s].stamp \in FactorIds
                /\ factor'[session'[s].stamp] = "ACTIVE"
             \/ /\ session'[s].with = "RECOVERY_CODE"
                /\ \E n \in 1..CodesPerSet : /\ <<session'[s].stamp, n>> \in Codes
                                            /\ code'[<<session'[s].stamp, n>>] \in {"FRESH", "USED"}
  <2>1. ~session[s].revoked /\ session'[s].with = session[s].with /\ session'[s].stamp = session[s].stamp
    BY <1>1
  <2>2. \/ s \in stale
        \/ /\ session[s].with = "TOTP"
           /\ session[s].stamp \in FactorIds
           /\ factor[session[s].stamp] = "ACTIVE"
        \/ /\ session[s].with = "RECOVERY_CODE"
           /\ \E n \in 1..CodesPerSet : /\ <<session[s].stamp, n>> \in Codes
                                       /\ code[<<session[s].stamp, n>>] \in {"FRESH", "USED"}
    BY <1>1, <2>1 DEF Backed
  <2> QED
    BY <2>1, <2>2
<1> QED
  BY <1>1 DEF Backed

\* A new session is not stamped.
LEMMA OpenSessionGoesOn ==
    ASSUME IInv, GuessInv, StepUpInv, NEW c \in Clients, OpenSession(c)
    PROVE  GuessInv' /\ StepUpInv'
<1>1. PICK s \in SessionIds : session' = [session EXCEPT ![s] = NewSession(seen[c])]
  BY DEF OpenSession
<1>2. /\ End(c, {}) /\ {} \in SUBSET Changes
      /\ UNCHANGED <<now, password, factor, code, challenge, verified, stale, uses, contended,
                     guesses, turns>>
  BY DEF OpenSession
<1>3. Counted'
  BY <1>2 DEF GuessInv, Counted
<1>4. session \in [SessionIds -> SessionType]
  BY DEF IInv, RowTypes, SessionType
<1>5. \A r \in SessionIds : ~session'[r].revoked /\ session'[r].with # "NONE" => session'[r] = session[r]
  BY <1>1, <1>4 DEF NewSession
<1>6. Backed'
  BY <1>2, <1>5, BackingKept DEF StepUpInv
<1> QED
  BY <1>2, <1>3, <1>6, EndRemembers

\* A new secret has counted nothing.
LEMMA SendGoesOn ==
    ASSUME IInv, GuessInv, StepUpInv, NEW c \in Clients, Send(c)
    PROVE  GuessInv' /\ StepUpInv'
<1>1. PICK t \in ChallengeIds :
        /\ challenge[t] = NoChallenge
        /\ challenge' = [challenge EXCEPT ![t] =
                            [purpose |-> pc[c], status |-> "PENDING", until |-> now + SecretLife,
                             attempts |-> 0]]
  BY DEF Send
<1>2. /\ End(c, {}) /\ {} \in SUBSET Changes
      /\ UNCHANGED <<now, password, session, factor, code, verified, late, stale, uses, contended,
                     guesses, turns>>
  BY DEF Send, traceVars
<1>3. /\ challenge[t].status = "NONE" /\ challenge[t].attempts = 0
      /\ challenge'[t].status = "PENDING" /\ challenge'[t].attempts = 0
      /\ \A u \in ChallengeIds : u # t => challenge'[u] = challenge[u]
  BY <1>1 DEF IInv, RowTypes, NoChallenge
<1>4. Counted'
  BY <1>2, <1>3 DEF GuessInv, Counted
<1>5. Backed'
  BY <1>2 DEF StepUpInv, Backed
<1> QED
  BY <1>2, <1>3, <1>4, <1>5, EndRemembers

\* A secret that is too old keeps its count.
LEMMA ExpireGoesOn ==
    ASSUME IInv, GuessInv, StepUpInv, NEW c \in Clients, Expire(c)
    PROVE  GuessInv' /\ StepUpInv'
<1> DEFINE t == target[c][1]
<1>1. /\ challenge' = [challenge EXCEPT ![t].status = "EXPIRED"]
      /\ End(c, {Challenge(t)})
      /\ UNCHANGED <<now, password, session, factor, code, verified, late, stale, uses, contended,
                     guesses, turns>>
  BY DEF Expire, traceVars
<1>2. t \in ChallengeIds
  BY DEF IInv, TargetInv, Expire
<1> HIDE DEF t
<1>3. {Challenge(t)} \in SUBSET Changes
  BY <1>2, NamesDiffer DEF Changes
<1>4. /\ challenge'[t].status = "EXPIRED" /\ challenge'[t].attempts = challenge[t].attempts
      /\ \A u \in ChallengeIds : u # t => challenge'[u] = challenge[u]
  BY <1>1, <1>2 DEF IInv, RowTypes
<1>5. Counted'
  BY <1>1, <1>4, CountsKept DEF GuessInv
<1>6. Backed'
  BY <1>1 DEF StepUpInv, Backed
<1> QED
  BY <1>1, <1>3, <1>4, <1>5, <1>6, EndRemembers

\* So does one that is used; a reset ends the sessions, stamped or not.
LEMMA UsesGoOn ==
    ASSUME IInv, GuessInv, StepUpInv, NEW c \in Clients, Reset(c) \/ Verify(c)
    PROVE  GuessInv' /\ StepUpInv'
<1> DEFINE t == target[c][1]
<1> DEFINE changes == IF Reset(c) THEN {Changed("password"), Challenge(t)} ELSE {Challenge(t)}
<1>1. /\ challenge' = [challenge EXCEPT ![t].status = "VERIFIED"]
      /\ End(c, changes)
      /\ Use(c, Challenge(t))
      /\ UNCHANGED <<now, factor, code, late, stale, guesses, turns>>
  BY DEF Reset, Verify
<1>2. t \in ChallengeIds
  BY DEF IInv, TargetInv, Reset, Verify
<1>3. changes \in SUBSET Changes /\ Challenge(t) \in changes /\ Changed("factor") \notin changes
  <2>1. Changed("factor") # Challenge(t) /\ Changed("factor") # Changed("password")
    BY DEF Changed, Challenge
  <2> QED
    BY <1>2, <2>1, NamesDiffer DEF Changes
<1> HIDE DEF t, changes
<1>4. /\ challenge'[t].status = "VERIFIED" /\ challenge'[t].attempts = challenge[t].attempts
      /\ \A u \in ChallengeIds : u # t => challenge'[u] = challenge[u]
  BY <1>1, <1>2 DEF IInv, RowTypes
<1>5. contended \subseteq contended'
  BY <1>1 DEF Use
<1>6. Counted'
  BY <1>1, <1>4, <1>5, CountsKept DEF GuessInv
<1>7. \A s \in SessionIds : ~session'[s].revoked => session'[s] = session[s] /\ ~session[s].revoked
  <2>1. CASE Reset(c)
    <3>1. session' = [s \in SessionIds |-> [session[s] EXCEPT !.revoked = TRUE]]
      BY <2>1 DEF Reset
    <3>2. \A s \in SessionIds : session'[s].revoked
      BY <3>1 DEF IInv, RowTypes
    <3> QED
      BY <3>2
  <2>2. CASE Verify(c)
    BY <2>2 DEF Verify
  <2> QED
    BY <2>1, <2>2
<1>8. Backed'
  BY <1>1, <1>7, BackingKept DEF StepUpInv
<1> QED
  BY <1>1, <1>3, <1>4, <1>6, <1>8, EndRemembers

\* A count that is written on an old one is marked; on the newest it is the number of guesses.
LEMMA MissGoesOn ==
    ASSUME IInv, GuessInv, StepUpInv, NEW c \in Clients, Miss(c)
    PROVE  GuessInv' /\ StepUpInv'
<1> DEFINE t == target[c][1]
<1> DEFINE status == IF seen[c] + 1 >= MaxAttempts THEN "LOCKED" ELSE "PENDING"
<1>1. /\ pc[c] = "miss"
      /\ challenge' = [challenge EXCEPT ![t] = [@ EXCEPT !.attempts = seen[c] + 1, !.status = status]]
      /\ guesses' = [guesses EXCEPT ![t] = @ + 1]
      /\ contended' = IF Challenge(t) \in missed[c] THEN contended \cup {Challenge(t)} ELSE contended
      /\ End(c, {Challenge(t)})
      /\ UNCHANGED <<now, password, session, factor, code, verified, late, stale, uses, turns>>
  BY DEF Miss
<1>2. t \in ChallengeIds
  BY <1>1 DEF IInv, TargetInv
<1>3. Challenge(t) \notin missed[c] => seen[c] = challenge[t].attempts /\ challenge[t].status = "PENDING"
  BY <1>1 DEF GuessInv, CountsRead
<1>4. seen[c] \in Nat /\ guesses \in [ChallengeIds -> Nat]
  BY DEF IInv, CallTypes, TraceTypes
<1>5. status \in {"LOCKED", "PENDING"} /\ (status = "PENDING" => seen[c] + 1 < MaxAttempts)
  BY <1>4
<1> HIDE DEF t, status
<1>6. {Challenge(t)} \in SUBSET Changes
  BY <1>2, NamesDiffer DEF Changes
<1>7. /\ challenge'[t].status = status /\ challenge'[t].attempts = seen[c] + 1
      /\ \A u \in ChallengeIds : u # t => challenge'[u] = challenge[u]
  <2>1. /\ challenge'[t] = [challenge[t] EXCEPT !.attempts = seen[c] + 1, !.status = status]
        /\ \A u \in ChallengeIds : u # t => challenge'[u] = challenge[u]
    BY <1>1, <1>2 DEF IInv, RowTypes
  <2>2. challenge[t] \in [purpose : {"NONE"} \cup Purposes,
                          status : {"NONE", "PENDING", "VERIFIED", "EXPIRED", "LOCKED", "CANCELLED"},
                          until : Nat, attempts : Nat]
    BY <1>2 DEF IInv, RowTypes
  <2> QED
    BY <2>1, <2>2
<1>8. /\ guesses'[t] = guesses[t] + 1
      /\ \A u \in ChallengeIds : u # t => guesses'[u] = guesses[u]
  BY <1>1, <1>2, <1>4
<1>9. Counted'
  <2>1. ASSUME NEW u \in ChallengeIds, u # t
        PROVE  /\ challenge'[u].status = "NONE" => guesses'[u] = 0
               /\ Challenge(u) \notin contended' =>
                    /\ guesses'[u] = challenge'[u].attempts
                    /\ challenge'[u].attempts =< MaxAttempts
                    /\ challenge'[u].status = "PENDING" => challenge'[u].attempts < MaxAttempts
    <3>1. Challenge(u) \notin contended' => Challenge(u) \notin contended
      BY <1>1
    <3> QED
      BY <1>7, <1>8, <2>1, <3>1 DEF GuessInv, Counted
  <2>2. challenge'[t].status # "NONE"
    BY <1>5, <1>7
  <2>3. ASSUME Challenge(t) \notin contended'
        PROVE  /\ guesses'[t] = challenge'[t].attempts
               /\ challenge'[t].attempts =< MaxAttempts
               /\ challenge'[t].status = "PENDING" => challenge'[t].attempts < MaxAttempts
    <3>1. Challenge(t) \notin contended /\ Challenge(t) \notin missed[c]
      BY <1>1, <2>3
    <3>2. /\ guesses[t] = challenge[t].attempts /\ challenge[t].attempts < MaxAttempts
          /\ seen[c] = challenge[t].attempts
      BY <1>2, <1>3, <3>1 DEF GuessInv, Counted
    <3> QED
      BY <1>2, <1>4, <1>5, <1>7, <1>8, <3>2
  <2> QED
    BY <1>2, <2>1, <2>2, <2>3 DEF Counted
<1>10. Backed'
  BY <1>1 DEF StepUpInv, Backed
<1> QED
  BY <1>1, <1>6, <1>7, <1>9, <1>10, EndRemembers

\* A new secret cancels the pending ones, and tells so.
LEMMA RequestGoesOn ==
    ASSUME IInv, GuessInv, StepUpInv, NEW c \in Clients, NEW purpose \in Purposes, Request(c, purpose)
    PROVE  GuessInv' /\ StepUpInv'
<1> DEFINE changes == {Challenge(t) : t \in Pending(purpose)}
<1>1. /\ challenge' = [t \in ChallengeIds |->
                        IF t \in Pending(purpose) THEN [challenge[t] EXCEPT !.status = "CANCELLED"]
                        ELSE challenge[t]]
      /\ pc' = [pc EXCEPT ![c] = purpose]
      /\ Tell(c, changes)
      /\ UNCHANGED <<now, password, session, factor, code, verified, by, target, seen, held>>
      /\ UNCHANGED <<late, stale, uses, contended, guesses>>
  BY DEF Request, traceVars
<1>2. \A t \in ChallengeIds :
        /\ challenge'[t].attempts = challenge[t].attempts
        /\ t \in Pending(purpose) => challenge'[t].status = "CANCELLED" /\ Challenge(t) \in changes
        /\ t \notin Pending(purpose) => challenge'[t] = challenge[t]
  BY <1>1 DEF IInv, RowTypes, Pending
<1>3. /\ pc'[c] = purpose /\ purpose \notin {"miss", "stamp", "idle"}
      /\ \A d \in Clients : d # c => pc'[d] = pc[d]
  BY <1>1 DEF IInv, CallTypes
<1> HIDE DEF changes
<1>4. \A d \in Clients : d # c /\ pc[d] # "idle" => missed'[d] = missed[d] \cup changes
  BY <1>1 DEF Tell
<1>5. CountsRead' /\ FactorsRead'
  <2>1. \A d \in Clients : d # c /\ pc'[d] \in {"miss", "stamp"} =>
                /\ pc'[d] = pc[d] /\ target'[d] = target[d] /\ seen'[d] = seen[d]
                /\ missed[d] \cup changes \subseteq missed'[d]
    BY <1>1, <1>3, <1>4
  <2>2. \A t \in ChallengeIds : challenge[t].status = "PENDING" /\ Challenge(t) \notin changes =>
                /\ challenge'[t].attempts = challenge[t].attempts
                /\ challenge'[t].status = challenge[t].status
    BY <1>2
  <2>3. \A f \in FactorIds : factor[f] = "ACTIVE" => factor'[f] = "ACTIVE"
    BY <1>1
  <2>4. pc'[c] \notin {"miss", "stamp"}
    BY <1>3
  <2> QED
    BY <2>1, <2>2, <2>3, <2>4, OthersRemember
<1>6. Counted'
  BY <1>1, <1>2, CountsKept DEF GuessInv
<1>7. Backed'
  BY <1>1 DEF StepUpInv, Backed
<1> QED
  BY <1>5, <1>6, <1>7 DEF GuessInv, StepUpInv

\* A logout takes a session out of the account.
LEMMA LogoutGoesOn ==
    ASSUME IInv, GuessInv, StepUpInv, NEW c \in Clients, NEW s \in SessionIds, Logout(c, s)
    PROVE  GuessInv' /\ StepUpInv'
<1>1. /\ session' = [session EXCEPT ![s].revoked = TRUE]
      /\ UNCHANGED <<pc, target, seen, missed, factor, code, challenge>>
      /\ UNCHANGED <<late, stale, uses, contended, guesses>>
  BY DEF Logout, traceVars, callVars
<1>2. \A r \in SessionIds : ~session'[r].revoked => session'[r] = session[r] /\ ~session[r].revoked
  BY <1>1 DEF IInv, RowTypes
<1>3. Backed'
  BY <1>1, <1>2, BackingKept DEF StepUpInv
<1> QED
  BY <1>1, <1>3 DEF GuessInv, Counted, CountsRead, StepUpInv, FactorsRead

\* Enrolling leaves an active factor alone.
LEMMA EnrollGoesOn ==
    ASSUME IInv, GuessInv, StepUpInv, NEW c \in Clients, DropPending(c) \/ CreateFactor(c)
    PROVE  GuessInv' /\ StepUpInv'
<1>1. UNCHANGED <<session, code, challenge, late, stale, uses, contended, guesses>>
  BY DEF DropPending, CreateFactor, traceVars
<1>2. \A f \in FactorIds : factor[f] = "ACTIVE" => factor'[f] = "ACTIVE"
  <2>1. CASE DropPending(c)
    BY <2>1 DEF DropPending
  <2>2. CASE CreateFactor(c)
    <3>1. PICK f \in FactorIds : factor[f] = "NONE" /\ factor' = [factor EXCEPT ![f] = "PENDING"]
      BY <2>2 DEF CreateFactor
    <3> QED
      BY <3>1 DEF IInv, RowTypes
  <2> QED
    BY <2>1, <2>2
<1>3. Counted'
  BY <1>1 DEF GuessInv, Counted
<1>4. Backed'
  BY <1>1, <1>2, BackingKept DEF StepUpInv
<1>5. CASE DropPending(c)
  <2>1. pc' = [pc EXCEPT ![c] = "create"] /\ UNCHANGED <<target, seen, missed>>
    BY <1>5 DEF DropPending
  <2>2. pc'[c] = "create" /\ \A d \in Clients : d # c => pc'[d] = pc[d]
    BY <2>1 DEF IInv, CallTypes
  <2>3. CountsRead' /\ FactorsRead'
    <3>1. PICK none : none = {}
      OBVIOUS
    <3>2. \A d \in Clients : d # c /\ pc'[d] \in {"miss", "stamp"} =>
                /\ pc'[d] = pc[d] /\ target'[d] = target[d] /\ seen'[d] = seen[d]
                /\ missed[d] \cup none \subseteq missed'[d]
      BY <2>1, <2>2, <3>1
    <3>3. \A t \in ChallengeIds : challenge[t].status = "PENDING" /\ Challenge(t) \notin none =>
                /\ challenge'[t].attempts = challenge[t].attempts
                /\ challenge'[t].status = challenge[t].status
      BY <1>1
    <3>4. Changed("factor") \notin none =>
                \A f \in FactorIds : factor[f] = "ACTIVE" => factor'[f] = "ACTIVE"
      BY <1>2
    <3>5. pc'[c] \notin {"miss", "stamp"}
      BY <2>2
    <3> QED
      BY <3>2, <3>3, <3>4, <3>5, OthersRemember
  <2> QED
    BY <1>3, <1>4, <2>3 DEF GuessInv, StepUpInv
<1>6. CASE CreateFactor(c)
  <2>1. End(c, {}) /\ {} \in SUBSET Changes
    BY <1>6 DEF CreateFactor
  <2> QED
    BY <1>1, <1>2, <1>3, <1>4, <2>1, EndRemembers
<1> QED
  BY <1>5, <1>6

\* The first statements of a change of the factor or the codes show nothing yet.
LEMMA ChangeGoesOn ==
    ASSUME IInv, GuessInv, StepUpInv, NEW c \in Clients, Change(c)
    PROVE  GuessInv' /\ StepUpInv'
<1>1. /\ pc[c] \in {"activate", "regenerate"}
      /\ pc' = [pc EXCEPT ![c] = IF @ = "activate" THEN "activated" ELSE "regenerated"]
      /\ UNCHANGED <<session, factor, code, challenge, target, seen, missed>>
      /\ UNCHANGED <<late, stale, uses, contended, guesses>>
  BY DEF Change, rowVars, traceVars
<1>2. pc'[c] \notin {"miss", "stamp"} /\ \A d \in Clients : d # c => pc'[d] = pc[d]
  BY <1>1 DEF IInv, CallTypes
<1>3. Counted' /\ Backed'
  BY <1>1 DEF GuessInv, Counted, StepUpInv, Backed
<1> QED
  BY <1>1, <1>2, <1>3 DEF GuessInv, CountsRead, StepUpInv, FactorsRead

\* The change of a factor or of the codes leaves no session stamped but those it did not find.
LEMMA SessionsUnstamped ==
    ASSUME IInv, NEW c \in Clients, session' = SessionsAfter(c), stale' = stale \cup Escaped(c)
    PROVE  Backed'
<1>1. ASSUME NEW s \in SessionIds, ~session'[s].revoked, session'[s].with # "NONE"
      PROVE  s \in stale'
  <2>1. session[s] \in SessionType
    BY DEF IInv, RowTypes, SessionType
  <2>2. Row(s) \notin held[c]
    <3>1. SUFFICES ASSUME Row(s) \in held[c] PROVE FALSE
      OBVIOUS
    <3>2. session'[s] = [session[s] EXCEPT !.revoked = TRUE, !.with = "NONE", !.stamp = 0, !.at = 0]
      BY <3>1 DEF SessionsAfter
    <3>3. session'[s].revoked
      <4>1. 0 \in Nat /\ 0 \in 0..MaxTime /\ "NONE" \in {"NONE", "TOTP", "RECOVERY_CODE"}
        OBVIOUS
      <4>2. [session[s] EXCEPT !.revoked = TRUE, !.with = "NONE", !.stamp = 0, !.at = 0].revoked
        BY <2>1, <4>1, SessionKeeps, Zenon
      <4> QED
        BY <3>2, <4>2
    <3> QED
      BY <1>1, <3>3
  <2>3. s # by[c]
    <3>1. SUFFICES ASSUME s = by[c] PROVE FALSE
      OBVIOUS
    <3>2. session'[s] = [session[s] EXCEPT !.with = "NONE", !.stamp = 0, !.at = 0]
      BY <2>2, <3>1 DEF SessionsAfter
    <3>3. session'[s].with = "NONE"
      BY <2>1, <3>2 DEF SessionType
    <3> QED
      BY <1>1, <3>3
  <2>4. session'[s] = session[s]
    BY <2>2, <2>3 DEF SessionsAfter
  <2> QED
    BY <1>1, <2>2, <2>3, <2>4 DEF Escaped, Others
<1> QED
  BY <1>1 DEF Backed

\* Its last one takes back what sessions were stamped for, and the stamps.
LEMMA FinishGoesOn ==
    ASSUME IInv, GuessInv, StepUpInv, NEW c \in Clients, FinishActivation(c) \/ FinishRegeneration(c)
    PROVE  GuessInv' /\ StepUpInv'
<1>1. /\ session' = SessionsAfter(c) /\ stale' = stale \cup Escaped(c)
      /\ UNCHANGED <<challenge, uses, contended, guesses>>
  BY DEF FinishActivation, FinishRegeneration
<1>2. Backed'
  BY <1>1, SessionsUnstamped
<1>3. Counted'
  BY <1>1 DEF GuessInv, Counted
<1>4. CASE FinishActivation(c)
  <2>1. End(c, {Changed("factor")}) /\ {Changed("factor")} \in SUBSET Changes
    BY <1>4 DEF FinishActivation, Changes
  <2> QED
    BY <1>1, <1>2, <1>3, <2>1, EndRemembers
<1>5. CASE FinishRegeneration(c)
  <2>1. End(c, {Changed("codes")}) /\ {Changed("codes")} \in SUBSET Changes /\ factor' = factor
    BY <1>5 DEF FinishRegeneration, Changes
  <2> QED
    BY <1>1, <1>2, <1>3, <2>1, EndRemembers
<1> QED
  BY <1>4, <1>5

\* A stamp is backed, or its session is stale.
LEMMA StampedBacked ==
    ASSUME IInv, Backed, NEW c \in Clients, by[c] \in SessionIds, NEW kind \in {"TOTP", "RECOVERY_CODE"},
           NEW id \in Nat, Stamped(c, kind, id), factor' = factor,
           \A k \in Codes : code[k] \in {"FRESH", "USED"} => code'[k] \in {"FRESH", "USED"},
           \/ {Changed("factor"), Changed("codes")} \cap missed[c] # {}
           \/ kind = "TOTP" /\ id \in FactorIds /\ factor[id] = "ACTIVE"
           \/ kind = "RECOVERY_CODE" /\ \E n \in 1..CodesPerSet :
                <<id, n>> \in Codes /\ code'[<<id, n>>] \in {"FRESH", "USED"}
    PROVE  Backed'
<1> DEFINE b == by[c]
<1>1. session' = [session EXCEPT ![b] = [@ EXCEPT !.with = kind, !.stamp = id, !.at = now]]
  BY DEF Stamped
<1>2. /\ session[b] \in SessionType
      /\ session \in [SessionIds -> SessionType]
  BY DEF IInv, RowTypes, SessionType
<1> HIDE DEF b
<1>3. b \in SessionIds /\ b = by[c]
  BY DEF b
<1>4. session'[b].with = kind /\ session'[b].stamp = id
  <2>1. session'[b] = [session[b] EXCEPT !.with = kind, !.stamp = id, !.at = now]
    BY <1>1, <1>2, <1>3
  <2> QED
    BY <1>2, <2>1 DEF SessionType
<1>5. \A s \in SessionIds : s # b => session'[s] = session[s] /\ (s \in stale => s \in stale')
  BY <1>1, <1>2, <1>3 DEF Stamped
<1>6. \/ b \in stale'
      \/ kind = "TOTP" /\ id \in FactorIds /\ factor'[id] = "ACTIVE"
      \/ kind = "RECOVERY_CODE" /\ \E n \in 1..CodesPerSet :
                <<id, n>> \in Codes /\ code'[<<id, n>>] \in {"FRESH", "USED"}
  BY <1>3 DEF Stamped
<1>7. ASSUME NEW s \in SessionIds, s # b, ~session'[s].revoked, session'[s].with # "NONE"
      PROVE  \/ s \in stale'
             \/ /\ session'[s].with = "TOTP"
                /\ session'[s].stamp \in FactorIds
                /\ factor'[session'[s].stamp] = "ACTIVE"
             \/ /\ session'[s].with = "RECOVERY_CODE"
                /\ \E n \in 1..CodesPerSet : /\ <<session'[s].stamp, n>> \in Codes
                                            /\ code'[<<session'[s].stamp, n>>] \in {"FRESH", "USED"}
  <2>1. session'[s] = session[s] /\ (s \in stale => s \in stale')
    BY <1>5, <1>7
  <2>2. \/ s \in stale
        \/ /\ session[s].with = "TOTP"
           /\ session[s].stamp \in FactorIds
           /\ factor[session[s].stamp] = "ACTIVE"
        \/ /\ session[s].with = "RECOVERY_CODE"
           /\ \E n \in 1..CodesPerSet : /\ <<session[s].stamp, n>> \in Codes
                                       /\ code[<<session[s].stamp, n>>] \in {"FRESH", "USED"}
    BY <1>7, <2>1 DEF Backed
  <2> QED
    BY <2>1, <2>2
<1> QED
  BY <1>4, <1>6, <1>7 DEF Backed

\* A stamp is of an active factor, or missed its change.
LEMMA StampGoesOn ==
    ASSUME IInv, GuessInv, StepUpInv, NEW c \in Clients, Stamp(c)
    PROVE  GuessInv' /\ StepUpInv'
<1>1. /\ Stamped(c, "TOTP", target[c][1]) /\ End(c, {}) /\ {} \in SUBSET Changes
      /\ pc[c] = "stamp"
      /\ UNCHANGED <<factor, code, challenge, uses, contended, guesses>>
  BY DEF Stamp
<1>2. by[c] \in SessionIds /\ target[c][1] \in Nat
  BY <1>1 DEF IInv, TargetInv, CallTypes
<1>3. Changed("factor") \in missed[c] \/ (target[c][1] \in FactorIds /\ factor[target[c][1]] = "ACTIVE")
  BY <1>1 DEF StepUpInv, FactorsRead
<1>4. Backed'
  <2>1. \/ {Changed("factor"), Changed("codes")} \cap missed[c] # {}
        \/ target[c][1] \in FactorIds /\ factor[target[c][1]] = "ACTIVE"
    BY <1>3
  <2> QED
    BY <1>1, <1>2, <2>1, StampedBacked DEF StepUpInv
<1>5. Counted'
  BY <1>1 DEF GuessInv, Counted
<1> QED
  BY <1>1, <1>4, <1>5, EndRemembers

\* A recovery code stays in its set when it is used.
LEMMA UseCodeGoesOn ==
    ASSUME IInv, GuessInv, StepUpInv, NEW c \in Clients, UseCode(c)
    PROVE  GuessInv' /\ StepUpInv'
<1> DEFINE k == target[c]
<1>1. /\ Stamped(c, "RECOVERY_CODE", k[1]) /\ End(c, {CodeRow(k)}) /\ Use(c, CodeRow(k))
      /\ pc[c] = "use"
      /\ code' = [code EXCEPT ![k] = "USED"]
      /\ UNCHANGED <<factor, challenge, guesses>>
  BY DEF UseCode
<1>2. by[c] \in SessionIds /\ k \in Codes
  BY <1>1 DEF IInv, TargetInv
<1> HIDE DEF k
<1>3. {CodeRow(k)} \in SUBSET Changes
  BY <1>2, NamesDiffer DEF Changes
<1>4. k[1] \in Nat /\ k[2] \in 1..CodesPerSet /\ k = <<k[1], k[2]>>
  BY <1>2 DEF Codes
<1>5. /\ code'[k] = "USED"
      /\ \A l \in Codes : code[l] \in {"FRESH", "USED"} => code'[l] \in {"FRESH", "USED"}
  BY <1>1, <1>2 DEF IInv, RowTypes
<1>6. \E n \in 1..CodesPerSet : <<k[1], n>> \in Codes /\ code'[<<k[1], n>>] \in {"FRESH", "USED"}
  BY <1>2, <1>4, <1>5
<1>7. Backed'
  BY <1>1, <1>2, <1>4, <1>5, <1>6, StampedBacked DEF StepUpInv
<1>8. contended \subseteq contended'
  BY <1>1 DEF Use
<1>9. Counted'
  BY <1>1, <1>8, CountsKept DEF GuessInv
<1>10. Changed("factor") \notin {CodeRow(k)}
  BY DEF Changed, CodeRow
<1> QED
  BY <1>1, <1>3, <1>7, <1>9, <1>10, EndRemembers

\* Every step keeps both.
LEMMA MoreNext == IInv /\ GuessInv /\ StepUpInv /\ [Next]_vars => GuessInv' /\ StepUpInv'
<1> SUFFICES ASSUME IInv, GuessInv, StepUpInv, [Next]_vars PROVE GuessInv' /\ StepUpInv'
  OBVIOUS
<1>1. CASE Clock \/ UNCHANGED vars
  <2>1. UNCHANGED <<rowVars, callVars, missed, traceVars>>
    BY <1>1 DEF Clock, vars
  <2> QED
    BY <2>1 DEF rowVars, callVars, traceVars, GuessInv, Counted, CountsRead, StepUpInv, Backed, FactorsRead
<1>2. ASSUME NEW c \in Clients, Call(c) PROVE GuessInv' /\ StepUpInv'
  <2>1. CASE \E purpose \in Purposes : Request(c, purpose)
    BY <2>1, RequestGoesOn
  <2>2. CASE \E s \in SessionIds : Logout(c, s)
    BY <2>2, LogoutGoesOn
  <2>3. CASE ~(\E purpose \in Purposes : Request(c, purpose)) /\ ~(\E s \in SessionIds : Logout(c, s))
    <3>1. /\ UNCHANGED <<now, rowVars, traceVars, held, missed>>
          /\ \A d \in Clients : d # c => /\ pc'[d] = pc[d] /\ target'[d] = target[d]
                                         /\ seen'[d] = seen[d]
          /\ pc'[c] = "miss" => /\ seen'[c] = challenge[target'[c][1]].attempts
                                /\ challenge[target'[c][1]].status = "PENDING"
          /\ pc'[c] = "stamp" => target'[c][1] \in FactorIds /\ factor[target'[c][1]] = "ACTIVE"
      BY <1>2, <2>3, CallBegins DEF Call
    <3>2. UNCHANGED <<session, factor, code, challenge, late, stale, uses, contended, guesses, missed>>
      BY <3>1 DEF rowVars, traceVars
    <3>3. Counted' /\ Backed'
      BY <3>2 DEF GuessInv, Counted, StepUpInv, Backed
    <3>4. ASSUME NEW d \in Clients, pc'[d] = "miss", Challenge(target'[d][1]) \notin missed'[d]
          PROVE  /\ seen'[d] = challenge'[target'[d][1]].attempts
                 /\ challenge'[target'[d][1]].status = "PENDING"
      BY <3>1, <3>2, <3>4 DEF GuessInv, CountsRead
    <3>5. ASSUME NEW d \in Clients, pc'[d] = "stamp", Changed("factor") \notin missed'[d]
          PROVE  target'[d][1] \in FactorIds /\ factor'[target'[d][1]] = "ACTIVE"
      BY <3>1, <3>2, <3>5 DEF StepUpInv, FactorsRead
    <3> QED
      BY <3>3, <3>4, <3>5 DEF GuessInv, CountsRead, StepUpInv, FactorsRead
  <2> QED
    BY <2>1, <2>2, <2>3
<1>3. ASSUME NEW c \in Clients, Proceed(c) PROVE GuessInv' /\ StepUpInv'
  BY <1>3, OpenSessionGoesOn, SendGoesOn, ExpireGoesOn, UsesGoOn, MissGoesOn, EnrollGoesOn,
     ChangeGoesOn, FinishGoesOn, StampGoesOn, UseCodeGoesOn DEF Proceed
<1>4. ASSUME NEW c \in Clients, Abort(c) PROVE GuessInv' /\ StepUpInv'
  <2>1. End(c, {}) /\ {} \in SUBSET Changes
    BY <1>4 DEF Abort
  <2>2. UNCHANGED <<session, factor, code, challenge, late, stale, uses, contended, guesses>>
    BY <1>4 DEF Abort, rowVars, traceVars
  <2>3. Counted' /\ Backed'
    BY <2>2 DEF GuessInv, Counted, StepUpInv, Backed
  <2> QED
    BY <2>1, <2>2, <2>3, EndRemembers
<1> QED
  BY <1>1, <1>2, <1>3, <1>4 DEF Next

\* What requests remember of challenges and factors holds in every state.
LEMMA MoreHolds == Spec => [](IInv /\ GuessInv /\ StepUpInv)
<1>1. Init => GuessInv /\ StepUpInv
  BY MoreInit
<1>2. IInv /\ (GuessInv /\ StepUpInv) /\ [Next]_vars => (GuessInv /\ StepUpInv)'
  BY MoreNext
<1> QED
  BY <1>1, <1>2, InvariantHolds, PTL DEF Spec

\* However requests overlap, no more than maxAttempts wrong codes are compared with a
\* challenge but where an out-of-date count was written.
THEOREM GuessesAreBounded == Spec => []AttemptsBounded
<1>1. IInv /\ GuessInv /\ StepUpInv => AttemptsBounded
  <2>1. ASSUME IInv, GuessInv, NEW t \in ChallengeIds, guesses[t] > MaxAttempts, Challenge(t) \notin contended
        PROVE  FALSE
    <3>1. guesses[t] \in Nat /\ guesses[t] =< MaxAttempts
      BY <2>1 DEF GuessInv, Counted, IInv, TraceTypes
    <3> QED
      BY <2>1, <3>1
  <2> QED
    BY <2>1 DEF AttemptsBounded
<1> QED
  BY <1>1, MoreHolds, PTL

\* A session counts as stepped up only for a factor that is active or codes that are there,
\* but where a challenge or a login overlapped the change of them.
THEOREM StepUpsAreCurrent == Spec => []StepUpIsCurrent
<1>1. IInv /\ GuessInv /\ StepUpInv => StepUpIsCurrent
  BY DEF StepUpInv, Backed, StepUpIsCurrent, Live
<1> QED
  BY <1>1, MoreHolds, PTL
=============================================================================
