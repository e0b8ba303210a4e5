--------------------------- MODULE ProviderSignIn ---------------------------
(* How often the platform submits a DSP's provider credentials: the record   *)
(* of attempts beside the browser profile (attempt.rs), the two drivers that *)
(* sign in under it (paycom/mod.rs, cortex/mod.rs), and the credential       *)
(* changes that reset it (browsers/mod.rs).  Sessions and revisions are      *)
(* BrowserSessions'; here at most one driver runs for the connection.        *)
EXTENDS Naturals, Sequences, FiniteSets

CONSTANTS
    MaxSaves,       \* bound on credential changes
    MaxSubmissions, \* bound on submissions of credentials
    MaxLosses       \* bound on crashes and dropped requests

ASSUME ProviderSignInAssumption == {MaxSaves, MaxSubmissions, MaxLosses} \subseteq Nat

VARIABLES
    provider,       \* "paycom" or "cortex"
    vault,          \* which saved credentials the vault holds, 0 for none
    record,         \* the attempt file
    change,         \* steps of a credential change still to come
    driver,         \* the driver of the registered browser, or NoDriver
    rejected,       \* submissions rejected while a driver waited for the answer
                    \* or was cut off, since the credentials were saved or last
                    \* accepted
    lost,           \* the outcome of the last one was lost since then
    taken,          \* PINs of the owner's sent in spite of that since then
    saves, submissions, losses

historyVars == <<rejected, lost, taken>>
signingVars == <<provider, vault, record, change, driver, historyVars,
                 saves, submissions, losses>>

Clean == [failures |-> 0, cooling |-> FALSE, pending |-> FALSE, manual |-> FALSE, recover |-> FALSE]
NoDriver == [at |-> "none"]

\* The forms each driver fills in, in order; the other pages it tells apart.
Forms == IF provider = "paycom" THEN <<"logged_out", "security_questions">>
                                ELSE <<"username", "password">>
SignInPages == {Forms[1], Forms[2], "authenticated", "rejected", "locked", "prompt", "other"}

SigningInit ==
    /\ provider \in {"paycom", "cortex"}
    /\ vault = 0 /\ record = Clean /\ change = <<>> /\ driver = NoDriver
    /\ rejected = 0 /\ lost = FALSE /\ taken = 0
    /\ saves = 0 /\ submissions = 0 /\ losses = 0

-----------------------------------------------------------------------------
(* The record of attempts.                                                  *)

OpenedAnew(r) == [r EXCEPT !.pending = FALSE]
\* Attempts::open: a submission the last process never settled may only be
\* observed from now on.
Opened(r) == IF r.pending THEN [r EXCEPT !.pending = FALSE, !.manual = TRUE, !.recover = TRUE] ELSE r

\* Attempts::check.
ObserveOnly(r) == ~r.cooling /\ r.manual /\ r.recover
MaySubmit(r, retry) ==
    /\ ~r.cooling /\ ~ObserveOnly(r)
    /\ ~r.pending
    /\ ~r.manual \/ (retry /\ r.failures < 3)

Submitted(r) == [r EXCEPT !.pending = TRUE, !.manual = FALSE, !.recover = FALSE]

FailedEndlessly(r, code) ==
    IF ~r.pending THEN r
    ELSE IF code = "rejected" THEN [Clean EXCEPT !.failures = 1, !.cooling = TRUE]
    ELSE [r EXCEPT !.pending = FALSE, !.manual = TRUE, !.recover = code # "owner"]
\* Attempts::failed, with a code of REJECTED_CREDENTIALS, one of NEEDS_OWNER,
\* or any other.
FailedWith(r, code) ==
    IF ~r.pending THEN r
    ELSE IF code = "rejected"
    THEN LET failures == IF r.failures < 3 THEN r.failures + 1 ELSE 3
         IN  [failures |-> failures, cooling |-> failures < 3, pending |-> FALSE,
              manual |-> failures = 3, recover |-> FALSE]
    ELSE [r EXCEPT !.pending = FALSE, !.manual = TRUE, !.recover = code # "owner"]

\* Five or thirty minutes.
CoolDown ==
    /\ record.cooling
    /\ record' = [record EXCEPT !.cooling = FALSE]
    /\ UNCHANGED <<provider, vault, change, driver, historyVars, saves, submissions, losses>>

-----------------------------------------------------------------------------
(* The browser is gone, and whoever waited for an answer is cut off, which  *)
(* may have been a rejection.                                               *)
CutOff == \E unseen \in {0, IF driver.at = "submitting" THEN 1 ELSE 0} : rejected' = rejected + unseen
Closed == driver' = NoDriver /\ lost' = (lost \/ record.pending) /\ CutOff /\ UNCHANGED taken

(* Credential changes; the operation lock keeps sign-ins out, and the       *)
(* browser is closed first.                                                 *)
Changing == change # <<>>

SaveProviderCredentials ==
    /\ ~Changing /\ saves < MaxSaves
    /\ Closed
    /\ change' = <<"vault", "record">>
    /\ saves' = saves + 1
    /\ UNCHANGED <<provider, vault, record, submissions, losses>>

\* Disabling removes the credentials only when asked to.
Disable ==
    /\ ~Changing /\ vault # 0
    /\ Closed
    /\ change' \in {<<"record">>, <<"record", "removal">>}
    /\ UNCHANGED <<provider, vault, record, saves, submissions, losses>>

\* clear_collector_browser_state removes the attempt record with the profile.
ChangeStep ==
    /\ Changing
    /\ change' = Tail(change)
    /\ vault' = CASE Head(change) = "vault" -> saves [] Head(change) = "removal" -> 0
                  [] OTHER -> vault
    /\ record' = IF Head(change) = "record" THEN Clean ELSE record
    /\ IF Head(change) \in {"vault", "record"} THEN rejected' = 0 /\ taken' = 0
                                             ELSE UNCHANGED <<rejected, taken>>
    /\ lost' = (lost /\ Head(change) # "record")
    /\ UNCHANGED <<provider, driver, saves, submissions, losses>>

-----------------------------------------------------------------------------
(* A driver at work.                                                        *)

\* The page is loaded and observed; the credentials are withheld when the
\* record only allows observing.
Begin(r, page) ==
    [at |-> "page", page |-> page, credentials |-> ~ObserveOnly(r), filled |-> {},
     mayFill |-> ~ObserveOnly(r), acted |-> FALSE, held |-> "nothing"]

\* ensure_provider_browser starts a browser after preflight, which opens the
\* record and checks it; a refusal leaves no driver.
StartSignIn(retry) ==
    /\ driver = NoDriver /\ ~Changing /\ vault # 0
    /\ LET r == Opened(record)
       IN  /\ record' = r
           /\ \/ /\ ~ObserveOnly(r) /\ ~MaySubmit(r, retry)
                 /\ UNCHANGED driver
              \/ /\ ObserveOnly(r) \/ MaySubmit(r, retry)
                 /\ \E page \in SignInPages : driver' = Begin(r, page)
    /\ UNCHANGED <<provider, vault, change, historyVars, saves, submissions, losses>>

\* A browser still open is asked again only by an owner's check; a refusal
\* revokes it.
CheckAgain ==
    /\ driver.at \in {"ready", "challenge"} /\ ~Changing
    /\ IF ObserveOnly(record) \/ MaySubmit(record, TRUE)
       THEN /\ \E page \in SignInPages : driver' = Begin(record, page)
            /\ UNCHANGED record
       ELSE /\ driver' = NoDriver
            /\ record' = FailedWith(record, "owner")
    /\ UNCHANGED <<provider, vault, change, historyVars, saves, submissions, losses>>

\* A form is filled in once: Paycom's, per run of advance and only where it
\* is allowed to submit; Cortex's, per start.
Fills ==
    /\ driver.at = "page" /\ driver.page \in {Forms[1], Forms[2]}
    /\ driver.credentials /\ driver.mayFill /\ driver.page \notin driver.filled

\* The record says so before the provider is told.
Submit ==
    /\ Fills /\ submissions < MaxSubmissions
    /\ record' = Submitted(record)
    /\ driver' = [driver EXCEPT !.at = "submitting", !.filled = @ \cup {driver.page}]
    /\ submissions' = submissions + 1
    /\ UNCHANGED <<provider, vault, change, historyVars, saves, losses>>

\* The provider's next page.
Answer ==
    /\ driver.at = "submitting"
    /\ \E page \in SignInPages \ {driver.page} :
           /\ driver' = [driver EXCEPT !.at = "page", !.page = page]
           /\ rejected' = IF page = "rejected" THEN rejected + 1 ELSE rejected
    /\ UNCHANGED <<provider, vault, record, change, lost, taken, saves, submissions, losses>>

\* Between two awaits: these pages are settled without one.
Settling == driver.at = "page" /\ driver.page \in {"authenticated", "rejected", "locked"}

\* The script, the browser or the page fails; with one of NEEDS_OWNER's codes
\* before the form was sent.
BreakOff ==
    /\ driver.at \in {"submitting", "page"} /\ ~Settling /\ losses < MaxLosses
    /\ \E code \in {"owner", "other"} :
           /\ record' = FailedWith(record, code)
           /\ lost' = (lost \/ (record.pending /\ code = "other"))
           /\ IF code = "other" THEN CutOff ELSE UNCHANGED rejected
    /\ driver' = NoDriver
    /\ losses' = losses + 1
    /\ UNCHANGED <<provider, vault, change, taken, saves, submissions>>

\* Paycom's security profile is clicked away.
Dismiss ==
    /\ driver.at = "page" /\ driver.page = "prompt" /\ provider = "paycom"
    /\ \E page \in SignInPages \ {"prompt"} : driver' = [driver EXCEPT !.page = page]
    /\ UNCHANGED <<provider, vault, record, change, historyVars, saves, submissions, losses>>

SignedIn ==
    /\ driver.at = "page" /\ driver.page = "authenticated"
    /\ record' = Clean
    /\ driver' = [driver EXCEPT !.at = "ready", !.credentials = FALSE]
    /\ rejected' = 0 /\ lost' = FALSE /\ taken' = 0
    /\ UNCHANGED <<provider, vault, change, saves, submissions, losses>>

\* The error reaches request, which records it; the session is revoked.
Rejected ==
    /\ driver.at = "page" /\ driver.page = "rejected"
    /\ record' = FailedWith(record, "rejected")
    /\ driver' = NoDriver
    /\ UNCHANGED <<provider, vault, change, historyVars, saves, submissions, losses>>

Locked ==
    /\ driver.at = "page" /\ driver.page = "locked"
    /\ record' = FailedWith(record, "owner")
    /\ driver' = NoDriver
    /\ UNCHANGED <<provider, vault, change, historyVars, saves, submissions, losses>>

\* What Paycom's driver holds of the page it stops at: a form that may be taken
\* up once the owner has acted, or PINs that both fields hold, its own or typed by
\* an owner who has acted in this document.
MayHold(what) ==
    \/ what = "nothing"
    \/ what = "form" /\ provider = "paycom"
    \/ /\ what = "pins" /\ provider = "paycom" /\ driver.page \in {Forms[2], "other"}
       /\ Forms[2] \in driver.filled \/ driver.acted

\* Anything else waits for the owner.
AwaitOwner ==
    /\ driver.at = "page" /\ ~Fills
    /\ driver.page \notin {"authenticated", "rejected", "locked"}
    /\ driver.page = "prompt" => provider = "cortex"
    /\ record' = FailedWith(record, "owner")
    /\ \E what \in {"nothing", "form", "pins"} :
           MayHold(what) /\ driver' = [driver EXCEPT !.at = "challenge", !.held = what]
    /\ UNCHANGED <<provider, vault, change, historyVars, saves, submissions, losses>>

\* The owner has acted in the browser and asks to go on, or has sent a code.
\* Paycom takes up a form whose document is the same one, and otherwise only
\* sees that the owner has signed in.
Complete ==
    /\ driver.at = "challenge"
    /\ \E page \in SignInPages :
           /\ provider = "cortex" \/ driver.held = "form" \/ page = "authenticated"
           /\ driver' = [driver EXCEPT !.at = "page", !.page = page, !.mayFill = TRUE,
                        !.acted = TRUE, !.held = "nothing",
                        !.filled = IF provider = "paycom" THEN {} ELSE @]
    /\ UNCHANGED <<provider, vault, record, change, historyVars, saves, submissions, losses>>

\* Or Paycom sends the PINs that are still in its fields, in a session that may
\* only observe too: the record forgets what was lost before.
SendRetained ==
    /\ driver.at = "challenge" /\ driver.held = "pins" /\ submissions < MaxSubmissions
    /\ record' = Submitted(record)
    /\ driver' = [driver EXCEPT !.at = "submitting", !.page = Forms[2], !.mayFill = FALSE,
                                !.acted = TRUE, !.held = "nothing"]
    /\ taken' = (IF lost THEN taken + 1 ELSE taken) /\ lost' = FALSE
    /\ submissions' = submissions + 1
    /\ UNCHANGED <<provider, vault, change, rejected, saves, losses>>

\* The browser is revoked or expires; its request, if any, is dropped.
CloseBrowser ==
    /\ driver # NoDriver /\ ~Settling
    /\ driver.at \in {"page", "submitting"} => losses < MaxLosses
    /\ losses' = IF driver.at \in {"page", "submitting"} THEN losses + 1 ELSE losses
    /\ Closed
    /\ UNCHANGED <<provider, vault, record, change, saves, submissions>>

CrashPlatform ==
    /\ losses < MaxLosses
    /\ losses' = losses + 1
    /\ Closed /\ change' = <<>>
    /\ UNCHANGED <<provider, vault, record, saves, submissions>>

SigningNext ==
    \/ CoolDown \/ SaveProviderCredentials \/ Disable \/ ChangeStep
    \/ \E retry \in BOOLEAN : StartSignIn(retry)
    \/ CheckAgain \/ Submit \/ Answer \/ BreakOff \/ Dismiss \/ SignedIn \/ Rejected \/ Locked
    \/ AwaitOwner \/ Complete \/ SendRetained \/ CloseBrowser \/ CrashPlatform

SigningSpec == SigningInit /\ [][SigningNext]_signingVars

-----------------------------------------------------------------------------
(* The provider rejects the same credentials at most three times before     *)
(* they are replaced, however often the platform restarts and whoever asks: *)
(* a fourth could lock the account (attempt.rs:67-113).  Once more for each *)
(* time that an owner had PINs sent whose last outcome was lost, which the  *)
(* record then forgets (paycom/mod.rs:325-341).                             *)
RejectedAtMostThrice == rejected <= 3 + taken

(* While the outcome of a submission is lost, with the process, the browser *)
(* or the request, no driver fills in the vault's credentials, not even     *)
(* when the owner asks: until they are replaced or removed, or the owner's  *)
(* own PINs are sent, the platform only looks whether the session was       *)
(* signed in (attempt.rs:51-55, 66-82).                                     *)
LostIsNotRepeated == [][submissions' > submissions /\ driver.at = "page" => ~lost]_signingVars
=============================================================================
