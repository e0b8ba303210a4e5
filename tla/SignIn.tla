---- MODULE SignIn ----
(***************************************************************************)
(* One account: its sessions and password (accounts/sessions.rs,           *)
(* accounts/passwords.rs) and its second factors (accounts/security.rs).   *)
(* Hashing a password waits outside the database, so signing in, changing  *)
(* or resetting a password and proving it again are each two transactions  *)
(* with the row that the first one read kept between them.  Every other    *)
(* request is one transaction under the platform lock.  A stored password  *)
(* is its salted hash, so two of them are never equal.                     *)
(***************************************************************************)
EXTENDS Naturals, FiniteSets, Sequences, Functions

CONSTANTS
    Slot,        \* the sessions there is room for
    Request,     \* the requests that hash a password
    Key,         \* the passkeys the person has
    MaxPassword, \* bounds the passwords set
    MaxLink,     \* bounds the reset links sent
    MaxSecret,   \* bounds the authenticator secrets issued
    MaxStep,     \* bounds the 30-second steps of the authenticator's clock
    MaxActs      \* bounds what the person does

ASSUME SignInAssumption ==
    /\ {MaxPassword, MaxLink, MaxSecret, MaxStep, MaxActs} \subseteq Nat

VARIABLES
    account,   \* the row of users
    sessions,  \* sessions and session_security; proved is the password that opened one
    link,      \* resets: the outstanding link
    requests,  \* what each request waits with
    keys,      \* account_passkeys
    app,       \* authenticator_apps
    codes,     \* recovery_codes: any are left
    accepted,  \* the authenticator codes accepted, in their order
    step, acts, issued

credentials == <<account, sessions, link, requests>>
factors == <<keys, app, codes, accepted>>
clocks == <<step, acts, issued>>
signInVars == <<credentials, factors, clocks>>

NoChallenge == [kind |-> "none", about |-> {}]
NoSession == [live |-> FALSE, version |-> 0, proved |-> 0, password |-> FALSE, verified |-> FALSE,
              recent |-> FALSE, challenge |-> NoChallenge]
Idle == [kind |-> "idle", session |-> 0, row |-> 0, link |-> 0]
NoLink == [id |-> 0, version |-> 0]
NoApp == [secret |-> 0, last |-> 0]

\* SESSION_USER and RESET_USER.  Only Active accounts exist: a row is either that or deleted.
Authenticates(s) == sessions[s].live /\ account.there /\ sessions[s].version = account.version
LinkWorks(id) == link.id = id /\ id # 0 /\ account.there /\ link.version = account.version

Enrolled == keys # {} \/ app # NoApp
\* ensure_mfa and ensure_recent.
Passed(s) == Enrolled => sessions[s].verified
Recent(s) ==
    /\ Passed(s)
    /\ IF Enrolled THEN sessions[s].recent ELSE sessions[s].password
\* ensure_enrollment_allowed
MayEnroll(s) == IF Enrolled THEN Recent(s) ELSE sessions[s].password

Act == acts < MaxActs /\ acts' = acts + 1
Begins(r, kind, s, id) ==
    /\ requests[r] = Idle
    /\ requests' = [requests EXCEPT ![r] =
           [kind |-> kind, session |-> s, row |-> account, link |-> id]]
    /\ Act /\ UNCHANGED <<account, sessions, link, factors, step, issued>>
Answers(r) == requests' = [requests EXCEPT ![r] = Idle]
SamePasswordUser(row) == account.there /\ account = row

\* The first transaction of each request, up to the work on the password.
StartLogin(r) == account.there /\ Begins(r, "login", 0, 0)
StartChange(r, s) == Authenticates(s) /\ Passed(s) /\ Begins(r, "change", s, 0)
StartReset(r) == LinkWorks(link.id) /\ Begins(r, "reset", 0, link.id)
StartReauthenticate(r, s) == Authenticates(s) /\ Begins(r, "reauthenticate", s, 0)
\* The password is wrong, a throttle or the slots refuse it, or the caller is gone.
GiveUp(r) ==
    /\ requests[r] # Idle /\ Answers(r)
    /\ UNCHANGED <<account, sessions, link, factors, clocks>>

\* The second transaction of each request.
Referred == {requests[r].session : r \in Request}
FinishLogin(r, s) ==
    /\ requests[r].kind = "login" /\ ~sessions[s].live /\ s \notin Referred
    /\ account.there /\ account.version = requests[r].row.version
    /\ sessions' = [sessions EXCEPT ![s] =
           [NoSession EXCEPT !.live = TRUE, !.version = requests[r].row.version,
                             !.proved = requests[r].row.password, !.password = TRUE]]
    /\ Answers(r) /\ UNCHANGED <<account, link, factors, clocks>>
NoSessions == [s \in Slot |-> NoSession]

ReplacePasswordOnly ==
    /\ account.password < MaxPassword
    /\ account' = [account EXCEPT !.password = @ + 1]
    /\ sessions' = NoSessions /\ link' = NoLink
ReplacePassword ==
    /\ account.password < MaxPassword
    /\ account' = [account EXCEPT !.password = @ + 1, !.version = @ + 1]
    /\ sessions' = NoSessions /\ link' = NoLink
FinishChange(r) ==
    /\ requests[r].kind = "change" /\ Authenticates(requests[r].session)
    /\ SamePasswordUser(requests[r].row) /\ ReplacePassword
    /\ Answers(r) /\ UNCHANGED <<factors, clocks>>
FinishReset(r) ==
    /\ requests[r].kind = "reset" /\ LinkWorks(requests[r].link)
    /\ SamePasswordUser(requests[r].row) /\ ReplacePassword
    /\ Answers(r) /\ UNCHANGED <<factors, clocks>>
FinishReauthenticate(r) ==
    LET s == requests[r].session IN
    /\ requests[r].kind = "reauthenticate" /\ Authenticates(s)
    /\ SamePasswordUser(requests[r].row)
    /\ sessions' = [sessions EXCEPT ![s].password = TRUE]
    /\ Answers(r) /\ UNCHANGED <<account, link, factors, clocks>>

\* recovery: a new link replaces the one before it.
SendLink ==
    /\ account.there /\ issued.links < MaxLink
    /\ issued' = [issued EXCEPT !.links = @ + 1]
    /\ link' = [id |-> issued.links + 1, version |-> account.version]
    /\ Act /\ UNCHANGED <<account, sessions, requests, factors, step>>
LinkExpires ==
    /\ link # NoLink /\ link' = NoLink
    /\ UNCHANGED <<account, sessions, requests, factors, clocks>>

\* What leaves the requests and the password alone.
OnSessions == Act /\ UNCHANGED <<account, link, requests, step>>
RevokeOthers(s, table) == [t \in Slot |-> IF t = s THEN table[t] ELSE NoSession]
Logout(s) ==
    /\ Authenticates(s) /\ sessions' = [sessions EXCEPT ![s] = NoSession]
    /\ OnSessions /\ UNCHANGED <<factors, issued>>
RevokeSession(s, t) ==
    /\ Authenticates(s) /\ Recent(s) /\ sessions[t].live
    /\ sessions' = [sessions EXCEPT ![t] = NoSession]
    /\ OnSessions /\ UNCHANGED <<factors, issued>>
RevokeOtherSessions(s) ==
    /\ Authenticates(s) /\ Recent(s) /\ sessions' = RevokeOthers(s, sessions)
    /\ OnSessions /\ UNCHANGED <<factors, issued>>
RevokeAll(s) ==
    /\ Authenticates(s) /\ Recent(s) /\ sessions' = NoSessions
    /\ OnSessions /\ UNCHANGED <<factors, issued>>

\* save_challenge: a session has one, and a new one replaces it.
Challenge(s, kind, about) ==
    /\ sessions' = [sessions EXCEPT ![s].challenge = [kind |-> kind, about |-> about]]
    /\ OnSessions /\ UNCHANGED factors
Verified(s, table) ==
    [table EXCEPT ![s].verified = TRUE, ![s].recent = TRUE, ![s].challenge = NoChallenge]
Accept(secret, counter) == accepted' = Append(accepted, <<secret, counter>>)
\* matching_totp: the counter a code is for, near the present one.
Counters == {c \in 1..(step + 1) : c + 1 >= step}

StartPasskey(s) ==
    /\ Authenticates(s) /\ MayEnroll(s) /\ keys # Key
    /\ Challenge(s, "passkey-register", Key \ keys) /\ UNCHANGED issued
\* finish_enrollment: the session is verified, the others are revoked, and the first factor
\* comes with recovery codes.
FinishEnrollment(s) ==
    /\ sessions' = RevokeOthers(s, Verified(s, sessions))
    /\ codes' = (codes \/ ~Enrolled)
    /\ OnSessions /\ UNCHANGED issued
AddPasskey(s, k) ==
    /\ Authenticates(s) /\ MayEnroll(s) /\ sessions[s].challenge.kind = "passkey-register"
    /\ k \in sessions[s].challenge.about \ keys
    /\ keys' = keys \union {k} /\ FinishEnrollment(s) /\ UNCHANGED <<app, accepted>>
StartVerification(s) ==
    /\ Authenticates(s) /\ keys # {} /\ Challenge(s, "passkey-verify", keys) /\ UNCHANGED issued
VerifyPasskey(s, k) ==
    /\ Authenticates(s) /\ sessions[s].challenge.kind = "passkey-verify"
    /\ k \in sessions[s].challenge.about \intersect keys
    /\ sessions' = Verified(s, sessions)
    /\ OnSessions /\ UNCHANGED <<factors, issued>>

StartAuthenticator(s) ==
    /\ Authenticates(s) /\ MayEnroll(s) /\ app = NoApp /\ issued.secrets < MaxSecret
    /\ issued' = [issued EXCEPT !.secrets = @ + 1]
    /\ Challenge(s, "authenticator-register", {issued.secrets + 1})
AddAuthenticator(s, counter) ==
    /\ Authenticates(s) /\ MayEnroll(s) /\ app = NoApp
    /\ sessions[s].challenge.kind = "authenticator-register" /\ counter \in Counters
    /\ \E secret \in sessions[s].challenge.about :
           app' = [secret |-> secret, last |-> counter] /\ Accept(secret, counter)
    /\ FinishEnrollment(s) /\ UNCHANGED keys

UsesCodeAgain(s, counter) ==
    /\ Authenticates(s) /\ app # NoApp /\ counter \in Counters /\ counter >= app.last
    /\ app' = [app EXCEPT !.last = counter] /\ Accept(app.secret, counter)
    /\ sessions' = [sessions EXCEPT ![s].verified = TRUE, ![s].recent = TRUE]
    /\ OnSessions /\ UNCHANGED <<keys, codes, issued>>
VerifyAuthenticator(s, counter) ==
    /\ Authenticates(s) /\ app # NoApp /\ counter \in Counters /\ counter > app.last
    /\ app' = [app EXCEPT !.last = counter] /\ Accept(app.secret, counter)
    /\ sessions' = [sessions EXCEPT ![s].verified = TRUE, ![s].recent = TRUE]
    /\ OnSessions /\ UNCHANGED <<keys, codes, issued>>

\* The others are revoked; without a factor left, what this session had of them goes too.
Disabled(s, table, proof) ==
    [table EXCEPT ![s].verified = FALSE, ![s].recent = FALSE, ![s].password = proof,
                  ![s].challenge = NoChallenge]
\* Its proof of the password goes with session_security, its age does not.
Proofs(s) == {FALSE, sessions[s].password}
KeepsOthers(s, ks, a) ==
    LET last == ks = {} /\ a = NoApp IN
    /\ keys' = ks /\ app' = a /\ codes' = (codes /\ ~last)
    /\ IF last THEN \E proof \in Proofs(s) : sessions' = Disabled(s, sessions, proof)
               ELSE UNCHANGED sessions
    /\ OnSessions /\ UNCHANGED <<accepted, issued>>
RemoveFactor(s, ks, a) ==
    LET last == ks = {} /\ a = NoApp
        table == RevokeOthers(s, sessions)
    IN  /\ keys' = ks /\ app' = a /\ codes' = (codes /\ ~last)
        /\ IF last THEN \E proof \in Proofs(s) : sessions' = Disabled(s, table, proof)
                   ELSE sessions' = table
        /\ OnSessions /\ UNCHANGED <<accepted, issued>>
RemovePasskey(s, k) ==
    Authenticates(s) /\ Recent(s) /\ k \in keys /\ RemoveFactor(s, keys \ {k}, app)
RemoveAuthenticator(s) ==
    Authenticates(s) /\ Recent(s) /\ app # NoApp /\ RemoveFactor(s, keys, NoApp)

NewRecoveryCodes(s) ==
    /\ Authenticates(s) /\ Recent(s) /\ Enrolled /\ codes' = TRUE
    /\ OnSessions /\ UNCHANGED <<sessions, keys, app, accepted, issued>>
\* It may be the last one.
UseRecoveryCode(s, last) ==
    /\ Authenticates(s) /\ sessions[s].password /\ codes /\ codes' = ~last
    /\ sessions' = RevokeOthers(s, [sessions EXCEPT ![s].verified = TRUE, ![s].recent = TRUE])
    /\ OnSessions /\ UNCHANGED <<keys, app, accepted, issued>>

\* Time: a session expires, a challenge does, what was proved is no longer recent.
SessionExpires(s) ==
    /\ sessions[s].live /\ sessions' = [sessions EXCEPT ![s] = NoSession]
    /\ UNCHANGED <<account, link, requests, factors, clocks>>
Ages(s) ==
    /\ sessions' = [sessions EXCEPT ![s].recent = FALSE, ![s].password = FALSE]
    /\ UNCHANGED <<account, link, requests, factors, clocks>>
\* It expires, or is used up by an answer that is wrong.
ChallengeEnds(s) ==
    /\ sessions' = [sessions EXCEPT ![s].challenge = NoChallenge]
    /\ UNCHANGED <<account, link, requests, factors, clocks>>
Ticks ==
    /\ step < MaxStep /\ step' = step + 1
    /\ UNCHANGED <<credentials, factors, acts, issued>>
\* delete_account, with the person's last membership.
DeleteAccount ==
    /\ account.there /\ account' = [account EXCEPT !.there = FALSE]
    /\ sessions' = NoSessions /\ link' = NoLink
    /\ UNCHANGED <<requests, factors, clocks>>

SignInInit ==
    /\ account = [there |-> TRUE, version |-> 1, password |-> 1]
    /\ sessions = NoSessions /\ link = NoLink /\ requests = [r \in Request |-> Idle]
    /\ keys = {} /\ app = NoApp /\ codes = FALSE /\ accepted = <<>>
    /\ step = 1 /\ acts = 0 /\ issued = [links |-> 0, secrets |-> 0]

Requests ==
    \E r \in Request :
        \/ StartLogin(r) \/ StartReset(r) \/ GiveUp(r)
        \/ FinishChange(r) \/ FinishReset(r) \/ FinishReauthenticate(r)
        \/ \E s \in Slot : StartChange(r, s) \/ StartReauthenticate(r, s) \/ FinishLogin(r, s)
Factors ==
    \E s \in Slot :
        \/ StartPasskey(s) \/ StartVerification(s) \/ StartAuthenticator(s)
        \/ RemoveAuthenticator(s) \/ NewRecoveryCodes(s)
        \/ \E k \in Key : AddPasskey(s, k) \/ VerifyPasskey(s, k) \/ RemovePasskey(s, k)
        \/ \E c \in Counters : AddAuthenticator(s, c) \/ VerifyAuthenticator(s, c)
        \/ \E last \in BOOLEAN : UseRecoveryCode(s, last)
Lifetimes ==
    \/ SendLink \/ LinkExpires \/ Ticks \/ DeleteAccount
    \/ \E s \in Slot :
           \/ Logout(s) \/ RevokeOtherSessions(s) \/ RevokeAll(s) \/ SessionExpires(s) \/ Ages(s)
           \/ ChallengeEnds(s)
           \/ \E t \in Slot : RevokeSession(s, t)
SignInNext == Requests \/ Factors \/ Lifetimes
SignInSpec == SignInInit /\ [][SignInNext]_signInVars

\* Whoever holds a session that works proved the account's present password to open it, however
\* the sign-in, a change and a reset overlapped.
SessionsKnowThePassword ==
    \A s \in Slot : Authenticates(s) => sessions[s].proved = account.password
\* An authenticator code is good for one use, enrolling with it included.
CodeOnce == IsInjective(accepted)
====
