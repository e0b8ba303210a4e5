------------------------------ MODULE AppProofs ------------------------------
(***************************************************************************)
(* Theorems about the accounts, the schedules, the sign-in at the          *)
(* providers and the reading of timecards.                                 *)
(***************************************************************************)
EXTENDS ProviderSignIn, SignIn, Team, Schedules, TimecardReading, FiniteSetTheorems,
        WellFoundedInduction, TLAPS

-----------------------------------------------------------------------------
(***************************************************************************)
(* For any number of submissions, crashes and credential changes: the      *)
(* provider rejects the same credentials at most three times, and once     *)
(* more for each time an owner's PINs were sent over a lost outcome; and   *)
(* the vault's credentials are not filled in while one is lost.            *)
(*                                                                         *)
(* The record of attempts lags behind what the provider has seen, by those *)
(* PINs and at most one rejection more: the one on the page a driver has   *)
(* not settled yet, or one nobody saw.  A lost outcome is Unheard until    *)
(* the record is opened again and Withheld from then on, when no driver    *)
(* has the credentials.                                                    *)
(***************************************************************************)

AttemptRow == [failures : 0 .. 3, cooling : BOOLEAN, pending : BOOLEAN, manual : BOOLEAN,
               recover : BOOLEAN]
DriverPages      == {"logged_out", "security_questions", "username", "password", "authenticated",
               "rejected", "locked", "prompt", "other"}
Holdings   == {"nothing", "form", "pins"}
DriverRow  == [at : {"page", "submitting", "ready", "challenge"}, page : DriverPages,
               credentials : BOOLEAN, filled : SUBSET DriverPages, mayFill : BOOLEAN,
               acted : BOOLEAN, held : Holdings]

Rows ==
    /\ provider \in {"paycom", "cortex"}
    /\ record \in AttemptRow
    /\ driver \in DriverRow \cup {NoDriver}
    /\ rejected \in Nat /\ lost \in BOOLEAN /\ taken \in Nat /\ submissions \in Nat

Unheard  == record.pending /\ driver = NoDriver
Withheld == /\ ~record.pending /\ record.manual /\ record.recover
            /\ driver # NoDriver => ~driver.credentials

\* Where a driver stands, by the record it works under.
Driving ==
    /\ record.failures = 3 => record.manual /\ ~record.recover
    /\ record.pending => record.failures < 3
    /\ driver # NoDriver =>
           /\ record.failures < 3
           /\ driver.at = "submitting" => record.pending
           /\ driver.at \in {"ready", "challenge"} => ~record.pending
    /\ Changing => driver = NoDriver

Unsettled == record.pending /\ driver # NoDriver /\ driver.at = "page" /\ driver.page = "rejected"

Owed == \/ rejected <= record.failures + taken
        \/ /\ rejected = record.failures + taken + 1 /\ record.failures < 3
           /\ lost \/ Unsettled

SigningInv == Rows /\ Driving /\ Owed /\ (lost => Unheard \/ Withheld)

-----------------------------------------------------------------------------
(* The record of attempts.                                                  *)

LEMMA CleanRow ==
    /\ Clean \in AttemptRow /\ Clean.failures = 0
    /\ ~Clean.pending /\ ~Clean.manual /\ ~Clean.recover
  BY DEF Clean, AttemptRow

LEMMA OpenedRow ==
    ASSUME NEW r \in AttemptRow
    PROVE  /\ Opened(r) \in AttemptRow
           /\ Opened(r).failures = r.failures /\ Opened(r).cooling = r.cooling
           /\ ~Opened(r).pending
           /\ r.pending => Opened(r).manual /\ Opened(r).recover
           /\ ~r.pending => Opened(r) = r
  BY DEF Opened, AttemptRow

LEMMA SubmittedRow ==
    ASSUME NEW r \in AttemptRow
    PROVE  /\ Submitted(r) \in AttemptRow
           /\ Submitted(r).failures = r.failures /\ Submitted(r).pending
  BY DEF Submitted, AttemptRow

LEMMA CooledRow ==
    ASSUME NEW r \in AttemptRow
    PROVE  /\ [r EXCEPT !.cooling = FALSE] \in AttemptRow
           /\ [r EXCEPT !.cooling = FALSE].failures = r.failures
           /\ [r EXCEPT !.cooling = FALSE].pending = r.pending
           /\ [r EXCEPT !.cooling = FALSE].manual = r.manual
           /\ [r EXCEPT !.cooling = FALSE].recover = r.recover
  BY DEF AttemptRow

\* A rejection that is not the third counts and leaves the record open.
LEMMA RejectedRow ==
    ASSUME NEW r \in AttemptRow, r.pending, r.failures < 3
    PROVE  /\ FailedWith(r, "rejected") \in AttemptRow
           /\ FailedWith(r, "rejected").failures = r.failures + 1
           /\ r.failures = 2 => FailedWith(r, "rejected").manual
           /\ ~FailedWith(r, "rejected").recover
           /\ ~FailedWith(r, "rejected").pending
<1> DEFINE f == [failures |-> r.failures + 1, cooling |-> r.failures + 1 < 3, pending |-> FALSE,
                 manual |-> r.failures + 1 = 3, recover |-> FALSE]
<1>1. r.failures + 1 \in 0 .. 3
  BY DEF AttemptRow
<1>2. FailedWith(r, "rejected") = f
  BY DEF FailedWith
<1>3. f \in AttemptRow
  BY <1>1, (r.failures + 1 < 3) \in BOOLEAN, (r.failures + 1 = 3) \in BOOLEAN DEF AttemptRow
<1>4. f.failures = r.failures + 1 /\ ~f.pending /\ ~f.recover
  OBVIOUS
<1>5. ASSUME r.failures = 2 PROVE f.manual
  <2>1. r.failures + 1 = 3
    BY <1>5
  <2> QED BY <2>1
<1> HIDE DEF f
<1> QED BY <1>2, <1>3, <1>4, <1>5

\* Any other failure leaves the count alone and no submission open.
LEMMA FailedRow ==
    ASSUME NEW r \in AttemptRow, NEW code, code # "rejected"
    PROVE  /\ FailedWith(r, code) \in AttemptRow
           /\ FailedWith(r, code).failures = r.failures
           /\ ~FailedWith(r, code).pending
           /\ r.pending => FailedWith(r, code).manual
           /\ r.pending /\ code = "other" => FailedWith(r, code).recover
           /\ ~r.pending => FailedWith(r, code) = r
<1> DEFINE f == [r EXCEPT !.pending = FALSE, !.manual = TRUE, !.recover = code # "owner"]
<1>1. (code # "owner") \in BOOLEAN
  OBVIOUS
<1>2. /\ f \in AttemptRow /\ f.failures = r.failures /\ ~f.pending /\ f.manual
      /\ f.recover = (code # "owner")
  BY <1>1 DEF AttemptRow
<1>3. CASE r.pending
  <2>1. FailedWith(r, code) = f
    BY <1>3 DEF FailedWith
  <2> QED BY <1>2, <1>3, <2>1
<1>4. CASE ~r.pending
  BY <1>4 DEF FailedWith, AttemptRow
<1> QED BY <1>3, <1>4

-----------------------------------------------------------------------------
(* The driver.                                                              *)

LEMMA Drives ==
    ASSUME NEW d \in DriverRow
    PROVE  d # NoDriver
  BY DEF DriverRow, NoDriver

LEMMA NoneAt == NoDriver.at = "none"
  BY DEF NoDriver

LEMMA SignInPagesAre ==
    ASSUME provider \in {"paycom", "cortex"}
    PROVE  SignInPages \subseteq DriverPages
<1>1. CASE provider = "paycom"
  <2>1. Forms[1] = "logged_out" /\ Forms[2] = "security_questions"
    BY <1>1 DEF Forms
  <2>2. Forms[1] \in DriverPages /\ Forms[2] \in DriverPages
    BY <2>1 DEF DriverPages
  <2> QED BY <2>2 DEF SignInPages, DriverPages
<1>2. CASE provider = "cortex"
  <2>1. Forms[1] = "username" /\ Forms[2] = "password"
    BY <1>2 DEF Forms
  <2>2. Forms[1] \in DriverPages /\ Forms[2] \in DriverPages
    BY <2>1 DEF DriverPages
  <2> QED BY <2>2 DEF SignInPages, DriverPages
<1> QED BY <1>1, <1>2

LEMMA FormsAre ==
    ASSUME provider \in {"paycom", "cortex"}
    PROVE  Forms[1] # "rejected" /\ Forms[2] # "rejected"
<1>1. CASE provider = "paycom"
  BY <1>1 DEF Forms
<1>2. CASE provider = "cortex"
  BY <1>2 DEF Forms
<1> QED BY <1>1, <1>2

LEMMA BeginRow ==
    ASSUME NEW r \in AttemptRow, NEW page \in DriverPages
    PROVE  /\ Begin(r, page) \in DriverRow
           /\ Begin(r, page).at = "page"
           /\ Begin(r, page).credentials = ~ObserveOnly(r)
<1>1. ObserveOnly(r) \in BOOLEAN
  BY DEF ObserveOnly, AttemptRow
<1> QED BY <1>1 DEF Begin, DriverRow, Holdings

LEMMA DriverSubmits ==
    ASSUME NEW d \in DriverRow
    PROVE  /\ [d EXCEPT !.at = "submitting", !.filled = @ \cup {d.page}] \in DriverRow
           /\ [d EXCEPT !.at = "submitting", !.filled = @ \cup {d.page}].at = "submitting"
           /\ [d EXCEPT !.at = "submitting", !.filled = @ \cup {d.page}].credentials = d.credentials
  BY DEF DriverRow

LEMMA DriverSees ==
    ASSUME NEW d \in DriverRow, NEW page \in DriverPages
    PROVE  /\ [d EXCEPT !.at = "page", !.page = page] \in DriverRow
           /\ [d EXCEPT !.at = "page", !.page = page].at = "page"
           /\ [d EXCEPT !.at = "page", !.page = page].page = page
           /\ [d EXCEPT !.at = "page", !.page = page].credentials = d.credentials
  BY DEF DriverRow

LEMMA DriverClicks ==
    ASSUME NEW d \in DriverRow, NEW page \in DriverPages
    PROVE  /\ [d EXCEPT !.page = page] \in DriverRow
           /\ [d EXCEPT !.page = page].at = d.at
           /\ [d EXCEPT !.page = page].credentials = d.credentials
  BY DEF DriverRow

LEMMA DriverReady ==
    ASSUME NEW d \in DriverRow
    PROVE  /\ [d EXCEPT !.at = "ready", !.credentials = FALSE] \in DriverRow
           /\ [d EXCEPT !.at = "ready", !.credentials = FALSE].at = "ready"
           /\ ~[d EXCEPT !.at = "ready", !.credentials = FALSE].credentials
  BY DEF DriverRow

LEMMA DriverWaits ==
    ASSUME NEW d \in DriverRow, NEW what \in Holdings
    PROVE  /\ [d EXCEPT !.at = "challenge", !.held = what] \in DriverRow
           /\ [d EXCEPT !.at = "challenge", !.held = what].at = "challenge"
           /\ [d EXCEPT !.at = "challenge", !.held = what].credentials = d.credentials
  BY DEF DriverRow

-----------------------------------------------------------------------------
(* Each step keeps the record and the driver in step.                       *)

LEMMA AttemptFields ==
    ASSUME NEW r \in AttemptRow
    PROVE  /\ r.failures \in 0 .. 3
           /\ r.pending \in BOOLEAN /\ r.manual \in BOOLEAN /\ r.recover \in BOOLEAN
  BY DEF AttemptRow

LEMMA SigningInvInit == SigningInit => SigningInv
<1> SUFFICES ASSUME SigningInit PROVE SigningInv
  OBVIOUS
<1>1. Rows
  BY CleanRow DEF SigningInit, historyVars, Rows
<1>2. Driving
  BY CleanRow DEF SigningInit, historyVars, Driving, Changing
<1>3. Owed
  BY CleanRow DEF SigningInit, historyVars, Owed
<1>4. lost => Unheard \/ Withheld
  BY DEF SigningInit, historyVars
<1> QED BY <1>1, <1>2, <1>3, <1>4 DEF SigningInv

\* What is owed stays owed while neither count moves and the driver that would
\* settle it does not.
LEMMA OwedKept ==
    ASSUME Owed, rejected' = rejected, taken' = taken, record'.failures = record.failures,
           lost \/ Unsettled => (lost \/ Unsettled)'
    PROVE  Owed'
  BY DEF Owed

\* A browser that is gone leaves its submission to the record.
LEMMA ClosedKeepsInv ==
    ASSUME SigningInv, Closed, UNCHANGED <<provider, record, submissions>>
    PROVE  SigningInv'
<1> USE DEF SigningInv
<1>1. /\ driver' = NoDriver /\ lost' = (lost \/ record.pending) /\ taken' = taken
      /\ record \in AttemptRow /\ rejected \in Nat /\ taken \in Nat
  BY DEF Closed, Rows
<1>2. PICK unseen \in {0, IF driver.at = "submitting" THEN 1 ELSE 0} : rejected' = rejected + unseen
  BY DEF Closed, CutOff
<1>3. Rows'
  BY <1>1, <1>2, AttemptFields DEF Rows
<1>4. Driving'
  BY <1>1 DEF Driving
<1>5. lost' => (Unheard \/ Withheld)'
  BY <1>1 DEF Unheard, Withheld
<1>6. Owed'
  <2>1. CASE rejected' = rejected
    BY <1>1, <2>1 DEF Owed, Unsettled
  <2>2. CASE rejected' # rejected
    <3>1. driver.at = "submitting" /\ rejected' = rejected + 1
      BY <1>1, <1>2, <2>2
    <3>2. record.pending /\ record.failures < 3 /\ driver # NoDriver
      BY <3>1, NoneAt DEF Driving
    <3>3. ~lost /\ ~Unsettled
      BY <3>1, <3>2 DEF Unheard, Withheld, Unsettled
    <3> QED BY <1>1, <3>1, <3>2, <3>3, AttemptFields DEF Owed
  <2> QED BY <2>1, <2>2
<1> QED BY <1>3, <1>4, <1>5, <1>6

LEMMA SigningInvNext == SigningInv /\ [SigningNext]_signingVars => SigningInv'
<1> SUFFICES ASSUME SigningInv, [SigningNext]_signingVars
             PROVE  SigningInv'
  OBVIOUS
<1> USE DEF SigningInv
<1>0. SignInPages \subseteq DriverPages /\ (driver # NoDriver => driver \in DriverRow)
  BY SignInPagesAre DEF Rows
<1>1. CASE CoolDown
  <2>1. Rows'
    BY <1>1, CooledRow DEF CoolDown, historyVars, Rows
  <2>2. /\ Driving' /\ (Unheard' = Unheard) /\ (Withheld' = Withheld) /\ (Unsettled' = Unsettled)
        /\ record'.failures = record.failures
    BY <1>1, CooledRow DEF CoolDown, historyVars, Rows, Driving, Unheard, Withheld, Unsettled, Changing
  <2> QED BY <1>1, <2>1, <2>2, OwedKept DEF CoolDown, historyVars
<1>2. CASE SaveProviderCredentials
  BY <1>2, ClosedKeepsInv DEF SaveProviderCredentials
<1>3. CASE Disable
  BY <1>3, ClosedKeepsInv DEF Disable
<1>4. CASE ChangeStep
  <2>1. Rows'
    BY <1>4, CleanRow DEF ChangeStep, Rows
  <2>2. Driving'
    BY <1>4, CleanRow DEF ChangeStep, Rows, Driving, Changing
  <2>3. Owed'
    <3>1. CASE rejected' = 0
      BY <3>1, <2>1, AttemptFields DEF Rows, Owed
    <3>2. CASE rejected' # 0
      BY <3>2, <1>4 DEF ChangeStep, Owed, Unheard, Withheld, Unsettled
    <3> QED BY <3>1, <3>2
  <2>4. lost' => (Unheard \/ Withheld)'
    BY <1>4 DEF ChangeStep, Unheard, Withheld
  <2> QED BY <2>1, <2>2, <2>3, <2>4
<1>5. ASSUME NEW retry \in BOOLEAN, StartSignIn(retry)
      PROVE  SigningInv'
  <2>1. Rows'
    BY <1>0, <1>5, OpenedRow, BeginRow, Drives, AttemptFields DEF StartSignIn, historyVars, ObserveOnly, MaySubmit, Rows
  <2>2. Driving'
    BY <1>0, <1>5, OpenedRow, BeginRow, Drives, AttemptFields DEF StartSignIn, historyVars, ObserveOnly, MaySubmit, Rows, Driving, Changing
  <2>3. Owed'
    <3>1. lost \/ Unsettled => (lost \/ Unsettled)'
      BY <1>0, <1>5, OpenedRow, BeginRow, Drives, AttemptFields DEF StartSignIn, historyVars, ObserveOnly, MaySubmit, Rows, Driving, Unheard, Withheld, Unsettled, Changing
    <3>2. rejected' = rejected /\ taken' = taken /\ record'.failures = record.failures
      BY <1>0, <1>5, OpenedRow, BeginRow, Drives, AttemptFields DEF StartSignIn, historyVars, ObserveOnly, MaySubmit, Rows
    <3> QED BY <3>1, <3>2, OwedKept
  <2>4. lost' => (Unheard \/ Withheld)'
    BY <1>0, <1>5, OpenedRow, BeginRow, Drives, AttemptFields DEF StartSignIn, historyVars, ObserveOnly, MaySubmit, Rows, Driving, Unheard, Withheld, Changing
  <2> QED BY <2>1, <2>2, <2>3, <2>4
<1>6. CASE CheckAgain
  <2>1. driver \in DriverRow /\ ~record.pending /\ record \in AttemptRow
    BY <1>0, <1>6, NoneAt DEF CheckAgain, historyVars, Rows, Driving
  <2>2. CASE ObserveOnly(record) \/ MaySubmit(record, TRUE)
    <3>1. PICK page \in DriverPages : driver' = Begin(record, page)
      BY <1>0, <1>6, <2>2 DEF CheckAgain, historyVars
    <3>2. /\ driver' \in DriverRow /\ driver' # NoDriver /\ driver'.at = "page"
          /\ driver'.credentials = ~ObserveOnly(record)
      BY <2>1, <3>1, BeginRow, Drives
    <3>3. UNCHANGED <<provider, record, change, rejected, lost, taken, submissions>>
      BY <1>6, <2>2 DEF CheckAgain, historyVars
    <3>4. record.manual /\ record.recover => ObserveOnly(record)
      BY <2>2 DEF ObserveOnly, MaySubmit
    <3>5. Rows'
      BY <3>2, <3>3 DEF Rows
    <3>6. Driving'
      BY <1>6, <2>1, <3>2, <3>3, NoneAt DEF CheckAgain, Driving, Changing
    <3>7. Withheld => Withheld'
      BY <3>2, <3>3, <3>4 DEF Withheld
    <3> QED BY <2>1, <3>3, <3>5, <3>6, <3>7, OwedKept DEF Unheard, Unsettled
  <2>3. CASE ~(ObserveOnly(record) \/ MaySubmit(record, TRUE))
    <3>1. driver' = NoDriver /\ record' = record
          /\ UNCHANGED <<provider, change, rejected, lost, taken, submissions>>
      BY <1>6, <2>1, <2>3, FailedRow DEF CheckAgain, historyVars
    <3>2. Withheld => Withheld'
      BY <3>1 DEF Withheld
    <3> QED BY <2>1, <3>1, <3>2, OwedKept DEF Rows, Driving, Changing, Unheard, Unsettled
  <2> QED BY <2>2, <2>3
<1>7. CASE Submit
  <2>1. /\ driver \in DriverRow /\ driver # NoDriver /\ driver.credentials /\ driver.at = "page"
        /\ driver.page # "rejected" /\ record \in AttemptRow /\ ~Changing
    BY <1>0, <1>7, NoneAt, FormsAre DEF Submit, historyVars, Fills, Rows, Driving
  <2>2. /\ driver' \in DriverRow /\ driver' # NoDriver /\ driver'.at = "submitting"
        /\ driver'.credentials = driver.credentials
        /\ record' \in AttemptRow /\ record'.failures = record.failures /\ record'.pending
    BY <1>7, <2>1, DriverSubmits, SubmittedRow, Drives DEF Submit, historyVars
  <2>3. Rows'
    BY <1>7, <2>2 DEF Submit, historyVars, Rows
  <2>4. Driving'
    BY <1>7, <2>1, <2>2, AttemptFields DEF Submit, historyVars, Driving, Changing
  <2>5. ~Unheard /\ ~Withheld /\ ~Unsettled
    BY <2>1 DEF Unheard, Withheld, Unsettled
  <2>6. Owed' /\ ~lost'
    BY <1>7, <2>2, <2>5, OwedKept DEF Submit, historyVars
  <2> QED BY <2>3, <2>4, <2>6
<1>8. CASE Answer
  <2>1. /\ driver \in DriverRow /\ driver # NoDriver /\ driver.at = "submitting"
        /\ record.pending /\ record.failures < 3 /\ record \in AttemptRow /\ ~Changing
    BY <1>0, <1>8, NoneAt DEF Answer, Rows, Driving
  <2>2. PICK page \in DriverPages :
            /\ driver' = [driver EXCEPT !.at = "page", !.page = page]
            /\ rejected' = IF page = "rejected" THEN rejected + 1 ELSE rejected
    BY <1>0, <1>8 DEF Answer
  <2>3. /\ driver' \in DriverRow /\ driver' # NoDriver /\ driver'.at = "page"
        /\ driver'.page = page /\ driver'.credentials = driver.credentials
    BY <2>1, <2>2, DriverSees, Drives
  <2>4. Rows'
    BY <1>8, <2>2, <2>3 DEF Answer, Rows
  <2>5. Driving'
    BY <1>8, <2>1, <2>3 DEF Answer, Driving, Changing
  <2>6. rejected <= record.failures + taken /\ ~lost
    BY <2>1 DEF Owed, Unheard, Withheld, Unsettled
  <2>7. Owed'
    <3>1. CASE page = "rejected"
      <4>1. rejected' = rejected + 1 /\ record' = record
        BY <1>8, <2>2, <3>1 DEF Answer
      <4>2. Unsettled'
        BY <2>1, <2>3, <3>1, <4>1 DEF Unsettled
      <4>3. taken' = taken /\ lost' = lost
        BY <1>8 DEF Answer
      <4> QED BY <2>1, <2>6, <4>1, <4>2, <4>3, AttemptFields DEF Owed, Rows
    <3>2. CASE page # "rejected"
      BY <1>8, <2>2, <2>6, <3>2 DEF Answer, Owed
    <3> QED BY <3>1, <3>2
  <2> QED BY <1>8, <2>4, <2>5, <2>6, <2>7 DEF Answer
<1>9. CASE BreakOff
  <2>1. /\ driver # NoDriver /\ record \in AttemptRow /\ ~Unsettled /\ ~Unheard
    BY <1>9, NoneAt DEF BreakOff, Settling, Rows, Unsettled, Unheard
  <2>2. PICK code \in {"owner", "other"} :
            /\ record' = FailedWith(record, code)
            /\ lost' = (lost \/ (record.pending /\ code = "other"))
            /\ IF code = "other" THEN CutOff ELSE UNCHANGED rejected
    BY <1>9 DEF BreakOff
  <2>3. driver' = NoDriver /\ UNCHANGED <<provider, change, taken, submissions>>
    BY <1>9 DEF BreakOff
  <2>a. rejected' = rejected \/ (code = "other" /\ driver.at = "submitting" /\ rejected' = rejected + 1)
    BY <2>2 DEF CutOff, Rows
  <2>4. /\ record' \in AttemptRow /\ record'.failures = record.failures /\ ~record'.pending
        /\ record.pending => record'.manual
        /\ record.pending /\ code = "other" => record'.recover
        /\ ~record.pending => record' = record
    BY <2>1, <2>2, FailedRow
  <2>5. Rows'
    BY <2>2, <2>3, <2>a, <2>4 DEF Rows
  <2>6. Driving'
    BY <2>1, <2>3, <2>4 DEF Driving, Changing
  <2>7. Withheld => Withheld'
    BY <2>3, <2>4 DEF Withheld
  <2>8. Owed'
    <3>1. CASE rejected' = rejected
      BY <2>1, <2>2, <2>3, <2>4, <3>1, OwedKept
    <3>2. CASE code = "other" /\ driver.at = "submitting" /\ rejected' = rejected + 1
      <4>1. record.pending /\ record.failures < 3
        BY <2>1, <3>2 DEF Driving
      <4>2. ~lost
        BY <2>1, <4>1 DEF Unheard, Withheld
      <4>3. lost'
        BY <2>2, <3>2, <4>1
      <4> QED BY <2>1, <2>3, <2>4, <3>2, <4>1, <4>2, <4>3, AttemptFields DEF Owed, Rows
    <3> QED BY <2>a, <3>1, <3>2
  <2>9. CASE lost
    BY <2>1, <2>5, <2>6, <2>7, <2>8, <2>9
  <2>10. CASE record.pending /\ code = "other"
    <3>1. Withheld'
      BY <2>3, <2>4, <2>10 DEF Withheld
    <3> QED BY <3>1, <2>5, <2>6, <2>8
  <2>11. CASE ~lost /\ ~(record.pending /\ code = "other")
    BY <2>2, <2>5, <2>6, <2>8, <2>11
  <2> QED BY <2>9, <2>10, <2>11
<1>10. CASE Dismiss
  <2>1. /\ driver \in DriverRow /\ driver # NoDriver /\ driver.at = "page"
        /\ driver.page = "prompt" /\ ~Changing
    BY <1>0, <1>10, NoneAt DEF Dismiss, historyVars, Driving
  <2>2. PICK page \in DriverPages : driver' = [driver EXCEPT !.page = page]
    BY <1>0, <1>10 DEF Dismiss, historyVars
  <2>3. /\ driver' \in DriverRow /\ driver' # NoDriver /\ driver'.at = "page"
        /\ driver'.credentials = driver.credentials
    BY <2>1, <2>2, DriverClicks, Drives
  <2>4. UNCHANGED <<provider, record, change, rejected, lost, taken, submissions>>
    BY <1>10 DEF Dismiss, historyVars
  <2>5. Rows'
    BY <2>3, <2>4 DEF Rows
  <2>6. Driving'
    BY <2>1, <2>3, <2>4 DEF Driving, Changing
  <2>7. ~Unheard /\ ~Unsettled /\ (Withheld => Withheld')
    BY <2>1, <2>3, <2>4 DEF Unheard, Unsettled, Withheld
  <2> QED BY <2>4, <2>5, <2>6, <2>7, OwedKept
<1>11. CASE SignedIn
  <2>1. driver \in DriverRow /\ ~Changing
    BY <1>0, <1>11, NoneAt DEF SignedIn, Driving
  <2>2. /\ driver' \in DriverRow /\ driver' # NoDriver /\ driver'.at = "ready"
        /\ ~driver'.credentials
    BY <1>11, <2>1, DriverReady, Drives DEF SignedIn
  <2>3. Rows'
    BY <1>11, <2>2, CleanRow DEF SignedIn, Rows
  <2>4. Driving'
    BY <1>11, <2>1, <2>2, CleanRow DEF SignedIn, Driving, Changing
  <2>5. Owed' /\ ~lost'
    BY <1>11, CleanRow DEF SignedIn, Owed
  <2> QED BY <2>3, <2>4, <2>5
<1>12. CASE Rejected
  <2>1. driver # NoDriver /\ record \in AttemptRow /\ driver.page = "rejected"
    BY <1>12, NoneAt DEF Rejected, historyVars, Rows
  <2>2. /\ driver' = NoDriver /\ record' = FailedWith(record, "rejected")
        /\ UNCHANGED <<provider, change, rejected, lost, taken, submissions>>
    BY <1>12 DEF Rejected, historyVars
  <2>3. CASE ~record.pending
    <3>1. record' = record
      BY <2>2, <2>3 DEF FailedWith
    <3>2. ~Unheard /\ ~Unsettled /\ (Withheld => Withheld')
      BY <2>2, <2>3, <3>1 DEF Unheard, Unsettled, Withheld
    <3> QED BY <2>2, <3>1, <3>2, OwedKept DEF Rows, Driving, Changing
  <2>4. CASE record.pending /\ record.failures < 3
    <3>1. /\ record' \in AttemptRow /\ record'.failures = record.failures + 1
          /\ record.failures = 2 => record'.manual
          /\ ~record'.pending /\ ~record'.recover
      BY <2>1, <2>2, <2>4, RejectedRow
    <3>2. Rows'
      BY <2>2, <3>1 DEF Rows
    <3>3. Driving'
      BY <2>1, <2>2, <3>1, AttemptFields DEF Driving, Changing
    <3>4. Owed'
      BY <2>1, <2>2, <3>1, AttemptFields DEF Owed, Rows
    <3>5. ~lost'
      BY <2>1, <2>2, <2>4 DEF Unheard, Withheld
    <3> QED BY <3>2, <3>3, <3>4, <3>5
  <2> QED BY <2>3, <2>4 DEF Driving
<1>13. CASE Locked
  <2>1. driver # NoDriver /\ record \in AttemptRow /\ driver.page = "locked"
    BY <1>13, NoneAt DEF Locked, historyVars, Rows
  <2>2. /\ driver' = NoDriver /\ record' = FailedWith(record, "owner")
        /\ UNCHANGED <<provider, change, rejected, lost, taken, submissions>>
    BY <1>13 DEF Locked, historyVars
  <2>3. /\ record' \in AttemptRow /\ record'.failures = record.failures /\ ~record'.pending
        /\ record.pending => record'.manual
        /\ ~record.pending => record' = record
    BY <2>1, <2>2, FailedRow
  <2>4. ~Unheard /\ ~Unsettled /\ (Withheld => Withheld')
    BY <2>1, <2>2, <2>3 DEF Unheard, Unsettled, Withheld
  <2>5. Rows'
    BY <2>2, <2>3 DEF Rows
  <2>6. Driving'
    BY <2>2, <2>3 DEF Driving, Changing
  <2> QED BY <2>2, <2>3, <2>4, <2>5, <2>6, OwedKept
<1>14. CASE AwaitOwner
  <2>1. /\ driver \in DriverRow /\ driver # NoDriver /\ driver.page # "rejected"
        /\ record \in AttemptRow /\ ~Changing
    BY <1>0, <1>14, NoneAt DEF AwaitOwner, historyVars, Rows, Driving
  <2>2. PICK what \in Holdings : driver' = [driver EXCEPT !.at = "challenge", !.held = what]
    BY <1>14 DEF AwaitOwner, Holdings
  <2>3. /\ driver' \in DriverRow /\ driver' # NoDriver /\ driver'.at = "challenge"
        /\ driver'.credentials = driver.credentials
    BY <2>1, <2>2, DriverWaits, Drives
  <2>4. /\ record' = FailedWith(record, "owner")
        /\ UNCHANGED <<provider, change, rejected, lost, taken, submissions>>
    BY <1>14 DEF AwaitOwner, historyVars
  <2>5. /\ record' \in AttemptRow /\ record'.failures = record.failures /\ ~record'.pending
        /\ record.pending => record'.manual
        /\ ~record.pending => record' = record
    BY <2>1, <2>4, FailedRow
  <2>6. ~Unheard /\ ~Unsettled /\ (Withheld => Withheld')
    BY <2>1, <2>3, <2>5 DEF Unheard, Unsettled, Withheld
  <2>7. Rows'
    BY <2>3, <2>4, <2>5 DEF Rows
  <2>8. Driving'
    BY <2>1, <2>3, <2>4, <2>5 DEF Driving, Changing
  <2> QED BY <2>4, <2>5, <2>6, <2>7, <2>8, OwedKept
<1>15. CASE Complete
  <2>1. /\ driver \in DriverRow /\ driver # NoDriver /\ driver.at = "challenge" /\ ~Changing
        /\ ~record.pending
    BY <1>0, <1>15, NoneAt DEF Complete, historyVars, Driving
  <2>2. PICK page \in DriverPages, filled \in SUBSET DriverPages :
            driver' = [driver EXCEPT !.at = "page", !.page = page, !.mayFill = TRUE,
                         !.acted = TRUE, !.held = "nothing", !.filled = filled]
    <3>1. PICK page \in SignInPages :
            driver' = [driver EXCEPT !.at = "page", !.page = page, !.mayFill = TRUE,
                         !.acted = TRUE, !.held = "nothing",
                         !.filled = IF provider = "paycom" THEN {} ELSE @]
      BY <1>15 DEF Complete
    <3>2. driver.filled \in SUBSET DriverPages
      BY <2>1 DEF DriverRow
    <3>3. CASE provider = "paycom"
      BY <1>0, <3>1, <3>2, <3>3, Zenon
    <3>4. CASE provider # "paycom"
      BY <1>0, <3>1, <3>2, <3>4, Zenon
    <3> QED BY <3>3, <3>4
  <2>3. /\ driver' \in DriverRow /\ driver' # NoDriver /\ driver'.at = "page"
        /\ driver'.credentials = driver.credentials
    <3>1. driver \in DriverRow
      BY <2>1
    <3>2. driver' \in DriverRow /\ driver'.at = "page" /\ driver'.credentials = driver.credentials
      BY <2>2, <3>1, ZenonT(60) DEF DriverRow, Holdings
    <3> QED BY <3>2, Drives
  <2>4. UNCHANGED <<provider, record, change, rejected, lost, taken, submissions>>
    BY <1>15 DEF Complete, historyVars
  <2>5. Rows'
    BY <2>3, <2>4 DEF Rows
  <2>6. Driving'
    BY <2>1, <2>3, <2>4 DEF Driving, Changing
  <2>7. ~Unheard /\ ~Unsettled /\ (Withheld => Withheld')
    BY <2>1, <2>3, <2>4 DEF Unheard, Unsettled, Withheld
  <2> QED BY <2>4, <2>5, <2>6, <2>7, OwedKept
<1>a. CASE SendRetained
  <2>1. /\ driver \in DriverRow /\ driver # NoDriver /\ driver.at = "challenge" /\ ~Changing
        /\ ~record.pending /\ record.failures < 3 /\ record \in AttemptRow
    BY <1>0, <1>a, NoneAt DEF SendRetained, Rows, Driving
  <2>2. /\ driver' \in DriverRow /\ driver'.at = "submitting"
    <3> DEFINE pins == Forms[2]
    <3>1. pins \in DriverPages
      BY <1>0 DEF SignInPages
    <3>2. driver' = [driver EXCEPT !.at = "submitting", !.page = pins, !.mayFill = FALSE,
                                   !.acted = TRUE, !.held = "nothing"]
      BY <1>a DEF SendRetained
    <3> HIDE DEF pins
    <3> QED BY <2>1, <3>1, <3>2 DEF DriverRow, Holdings
  <2>3. driver' # NoDriver
    BY <2>2, Drives
  <2>4. record' \in AttemptRow /\ record'.failures = record.failures /\ record'.pending
    BY <1>a, <2>1, SubmittedRow DEF SendRetained
  <2>5. /\ taken' = (IF lost THEN taken + 1 ELSE taken) /\ lost' = FALSE
        /\ submissions' = submissions + 1 /\ UNCHANGED <<provider, change, rejected>>
    BY <1>a DEF SendRetained
  <2>6. Rows'
    <3>1. /\ provider \in {"paycom", "cortex"} /\ rejected \in Nat /\ lost \in BOOLEAN
          /\ taken \in Nat /\ submissions \in Nat
      BY <1>0 DEF Rows
    <3>2. taken' \in Nat /\ submissions' \in Nat
      <4>1. taken' = taken + 1 \/ taken' = taken
        BY <2>5
      <4>2. submissions' = submissions + 1
        BY <2>5
      <4> QED BY <3>1, <4>1, <4>2
    <3>3. lost' \in BOOLEAN
      BY <2>5
    <3> QED BY <2>2, <2>4, <2>5, <3>1, <3>2, <3>3 DEF Rows
  <2>7. Driving'
    BY <2>1, <2>2, <2>3, <2>4, <2>5, AttemptFields DEF Driving, Changing
  <2>8. Owed'
    BY <2>1, <2>4, <2>5, AttemptFields DEF Owed, Unsettled, Rows
  <2> QED BY <2>5, <2>6, <2>7, <2>8
<1>16. CASE CloseBrowser
  BY <1>16, ClosedKeepsInv DEF CloseBrowser
<1>17. CASE CrashPlatform
  BY <1>17, ClosedKeepsInv DEF CrashPlatform
<1>18. CASE UNCHANGED signingVars
  BY <1>18 DEF signingVars, historyVars, Rows, Driving, Owed, Unheard, Withheld, Unsettled, Changing
<1> QED
  BY <1>1, <1>2, <1>3, <1>4, <1>5, <1>6, <1>7, <1>8, <1>9, <1>10, <1>11, <1>12, <1>13, <1>14,
     <1>15, <1>a, <1>16, <1>17, <1>18 DEF SigningNext

LEMMA SigningInvAlways == SigningSpec => []SigningInv
<1>1. SigningInit => SigningInv
  BY SigningInvInit
<1>2. SigningInv /\ [SigningNext]_signingVars => SigningInv'
  BY SigningInvNext
<1> QED BY <1>1, <1>2, PTL DEF SigningSpec

\* However often the platform restarts and whoever asks, the provider rejects
\* the same credentials at most three times, and once more for each time an
\* owner's PINs were sent over a lost outcome: the record is at most one
\* rejection and those behind, and allows none after its third
\* (attempt.rs:67-113, paycom/mod.rs:325-341).
THEOREM ThirdRejectionIsTheLast == SigningSpec => []RejectedAtMostThrice
<1>1. SigningInv => RejectedAtMostThrice
  BY AttemptFields DEF SigningInv, Rows, Owed, RejectedAtMostThrice
<1> QED BY <1>1, SigningInvAlways, PTL

\* The vault's credentials are not filled in while the outcome of a submission
\* is lost, for any number of crashes and requests: no driver holds them until
\* they are replaced or removed, found signed in, or an owner's PINs are sent
\* (attempt.rs:51-55, 66-82).
THEOREM LostStaysUnrepeated == SigningSpec => LostIsNotRepeated
<1>1. SigningInv /\ [SigningNext]_signingVars
          => (submissions' > submissions /\ driver.at = "page" => ~lost) \/ UNCHANGED signingVars
  <2> SUFFICES ASSUME SigningInv, SigningNext, submissions' > submissions, driver.at = "page"
               PROVE  ~lost
    BY DEF signingVars, historyVars
  <2>1. submissions \in Nat
    BY DEF SigningInv, Rows
  <2>2. submissions' # submissions
    BY <2>1
  <2>3. Submit
    BY <2>2 DEF SigningNext, CoolDown, SaveProviderCredentials, Disable, ChangeStep, StartSignIn,
                CheckAgain, Answer, BreakOff, Dismiss, SignedIn, Rejected, Locked, AwaitOwner,
                Complete, SendRetained, CloseBrowser, CrashPlatform
  <2>4. driver # NoDriver /\ driver.credentials
    BY <2>3, NoneAt DEF Submit, Fills
  <2> QED BY <2>4 DEF SigningInv, Unheard, Withheld
<1>2. SigningInv /\ [SigningNext]_signingVars
          => [submissions' > submissions /\ driver.at = "page" => ~lost]_signingVars
  BY <1>1
<1> QED BY <1>2, SigningInvAlways, PTL DEF SigningSpec, LostIsNotRepeated

-----------------------------------------------------------------------------
(***************************************************************************)
(* For any number of sign-ins, changes and resets under way at once:       *)
(* whoever holds a session that works has proved the present password, and *)
(* no authenticator code is accepted twice.                                *)
(*                                                                         *)
(* The row a request read may be stale, but its version then is an older   *)
(* one; a version stands for one password (SessionsKnow, RequestsKnow). A  *)
(* secret that is offered has no accepted code (SecretsAreNew) and the     *)
(* newest accepted of the secret in use is remembered (CodesInOrder).      *)
(***************************************************************************)

Challenges   == [kind : {"none", "passkey-register", "passkey-verify", "authenticator-register"},
                 about : SUBSET (Key \cup Nat)]
SessionRow   == [live : BOOLEAN, version : Nat, proved : Nat, password : BOOLEAN,
                 verified : BOOLEAN, recent : BOOLEAN, challenge : Challenges]
AccountRow   == [there : BOOLEAN, version : Nat, password : Nat]
RequestRow   == [kind : {"login", "change", "reset", "reauthenticate"}, session : Slot \cup {0},
                 row : AccountRow, link : Nat]

AccountRows ==
    /\ account \in AccountRow
    /\ sessions \in [Slot -> SessionRow]
    /\ link \in [id : Nat, version : Nat]
    /\ requests \in [Request -> RequestRow \cup {Idle}]
    /\ keys \subseteq Key
    /\ app \in [secret : Nat, last : Nat]
    /\ issued \in [links : Nat, secrets : Nat]
    /\ step \in Nat /\ codes \in BOOLEAN
    /\ accepted \in Seq(Nat \X Nat)

\* Whoever keeps a version keeps the password of that version.
Knows(version, password) ==
    /\ version <= account.version
    /\ version = account.version => password = account.password
SessionsKnow == \A s \in Slot : sessions[s].live => Knows(sessions[s].version, sessions[s].proved)
RequestsKnow == \A r \in Request :
    requests[r] # Idle => Knows(requests[r].row.version, requests[r].row.password)

\* A secret is offered to a session before any code of it was accepted, and none is offered
\* while there is an authenticator.
Offers(s) == sessions[s].challenge.kind = "authenticator-register"
SecretsAreNew == \A s \in Slot : Offers(s) =>
    /\ app = NoApp
    /\ \A secret \in sessions[s].challenge.about :
           /\ secret \in Nat /\ secret <= issued.secrets
           /\ \A i \in DOMAIN accepted : accepted[i][1] # secret
CodesInOrder ==
    /\ app.secret <= issued.secrets
    /\ \A i \in DOMAIN accepted : accepted[i][1] <= issued.secrets
    /\ app # NoApp =>
           \A i \in DOMAIN accepted : accepted[i][1] = app.secret => accepted[i][2] <= app.last

SignInInv == AccountRows /\ SessionsKnow /\ RequestsKnow /\ SecretsAreNew /\ CodesInOrder /\ CodeOnce

-----------------------------------------------------------------------------
\* What most steps do to the sessions: none begins, none changes its version, a challenge
\* stays or ends.
CalmTable(sessionRows) ==
    /\ sessionRows \in [Slot -> SessionRow]
    /\ \A s \in Slot :
           /\ sessionRows[s].live => /\ sessions[s].live
                               /\ sessionRows[s].version = sessions[s].version
                               /\ sessionRows[s].proved = sessions[s].proved
           /\ sessionRows[s].challenge.kind = "authenticator-register" =>
                  sessionRows[s].challenge = sessions[s].challenge

LEMMA NoSessionRow == NoSession \in SessionRow /\ ~NoSession.live
                      /\ NoSession.challenge.kind # "authenticator-register"
                      /\ NoChallenge \in Challenges
  BY DEF NoSession, SessionRow, NoChallenge, Challenges

LEMMA SameIsCalm == ASSUME AccountRows PROVE CalmTable(sessions)
  BY DEF AccountRows, CalmTable

LEMMA ClearedIsCalm == ASSUME AccountRows PROVE CalmTable(NoSessions)
  BY NoSessionRow DEF AccountRows, CalmTable, NoSessions

LEMMA EndedIsCalm ==
    ASSUME AccountRows, NEW s \in Slot
    PROVE  CalmTable([sessions EXCEPT ![s] = NoSession])
  BY NoSessionRow DEF AccountRows, CalmTable

LEMMA RevokedIsCalm ==
    ASSUME AccountRows, NEW s \in Slot, NEW sessionRows, CalmTable(sessionRows)
    PROVE  CalmTable(RevokeOthers(s, sessionRows))
  BY NoSessionRow DEF CalmTable, RevokeOthers

\* A row put into a calm table.
LEMMA PutIsCalm ==
    ASSUME NEW sessionRows, CalmTable(sessionRows), NEW s \in Slot, NEW entry \in SessionRow,
           entry.live = sessionRows[s].live, entry.version = sessionRows[s].version, entry.proved = sessionRows[s].proved,
           entry.challenge.kind = "authenticator-register" => entry.challenge = sessionRows[s].challenge
    PROVE  CalmTable([sessionRows EXCEPT ![s] = entry])
  BY DEF CalmTable

LEMMA VerifiedIsCalm ==
    ASSUME NEW sessionRows, CalmTable(sessionRows), NEW s \in Slot
    PROVE  CalmTable(Verified(s, sessionRows))
<1> DEFINE entry == [sessionRows[s] EXCEPT !.verified = TRUE, !.recent = TRUE, !.challenge = NoChallenge]
<1>1. sessionRows[s] \in SessionRow
  BY DEF CalmTable
<1>2. /\ entry \in SessionRow /\ entry.live = sessionRows[s].live /\ entry.version = sessionRows[s].version
      /\ entry.proved = sessionRows[s].proved /\ entry.challenge = NoChallenge
  BY <1>1, NoSessionRow DEF SessionRow
<1>3. Verified(s, sessionRows) = [sessionRows EXCEPT ![s] = entry]
  BY DEF Verified, CalmTable
<1>4. entry.challenge.kind # "authenticator-register"
  BY <1>2 DEF NoChallenge
<1> HIDE DEF entry
<1>5. CalmTable([sessionRows EXCEPT ![s] = entry])
  BY <1>2, <1>4, PutIsCalm
<1> QED BY <1>3, <1>5

LEMMA ProvedIsCalm ==
    ASSUME NEW sessionRows, CalmTable(sessionRows), NEW s \in Slot
    PROVE  CalmTable([sessionRows EXCEPT ![s].verified = TRUE, ![s].recent = TRUE])
<1> DEFINE entry == [sessionRows[s] EXCEPT !.verified = TRUE, !.recent = TRUE]
<1>1. sessionRows[s] \in SessionRow
  BY DEF CalmTable
<1>2. /\ entry \in SessionRow /\ entry.live = sessionRows[s].live /\ entry.version = sessionRows[s].version
      /\ entry.proved = sessionRows[s].proved /\ entry.challenge = sessionRows[s].challenge
  BY <1>1 DEF SessionRow
<1>3. [sessionRows EXCEPT ![s].verified = TRUE, ![s].recent = TRUE] = [sessionRows EXCEPT ![s] = entry]
  BY DEF CalmTable
<1> HIDE DEF entry
<1>5. CalmTable([sessionRows EXCEPT ![s] = entry])
  BY <1>2, PutIsCalm
<1> QED BY <1>3, <1>5

LEMMA DisabledIsCalm ==
    ASSUME NEW sessionRows, CalmTable(sessionRows), NEW s \in Slot, NEW proof \in BOOLEAN
    PROVE  CalmTable(Disabled(s, sessionRows, proof))
<1> DEFINE entry == [sessionRows[s] EXCEPT !.verified = FALSE, !.recent = FALSE, !.password = proof,
                                   !.challenge = NoChallenge]
<1>1. sessionRows[s] \in SessionRow
  BY DEF CalmTable
<1>2. /\ entry \in SessionRow /\ entry.live = sessionRows[s].live /\ entry.version = sessionRows[s].version
      /\ entry.proved = sessionRows[s].proved /\ entry.challenge = NoChallenge
  BY <1>1, NoSessionRow DEF SessionRow
<1>3. Disabled(s, sessionRows, proof) = [sessionRows EXCEPT ![s] = entry]
  BY DEF Disabled, CalmTable
<1>4. entry.challenge.kind # "authenticator-register"
  BY <1>2 DEF NoChallenge
<1> HIDE DEF entry
<1>5. CalmTable([sessionRows EXCEPT ![s] = entry])
  BY <1>2, <1>4, PutIsCalm
<1> QED BY <1>3, <1>5

LEMMA AgedIsCalm ==
    ASSUME NEW sessionRows, CalmTable(sessionRows), NEW s \in Slot
    PROVE  CalmTable([sessionRows EXCEPT ![s].recent = FALSE, ![s].password = FALSE])
<1> DEFINE entry == [sessionRows[s] EXCEPT !.recent = FALSE, !.password = FALSE]
<1>1. sessionRows[s] \in SessionRow
  BY DEF CalmTable
<1>2. /\ entry \in SessionRow /\ entry.live = sessionRows[s].live /\ entry.version = sessionRows[s].version
      /\ entry.proved = sessionRows[s].proved /\ entry.challenge = sessionRows[s].challenge
  BY <1>1 DEF SessionRow
<1>3. [sessionRows EXCEPT ![s].recent = FALSE, ![s].password = FALSE] = [sessionRows EXCEPT ![s] = entry]
  BY DEF CalmTable
<1> HIDE DEF entry
<1>5. CalmTable([sessionRows EXCEPT ![s] = entry])
  BY <1>2, PutIsCalm
<1> QED BY <1>3, <1>5

LEMMA ReauthenticatedIsCalm ==
    ASSUME NEW sessionRows, CalmTable(sessionRows), NEW s \in Slot
    PROVE  CalmTable([sessionRows EXCEPT ![s].password = TRUE])
  BY DEF CalmTable, SessionRow

LEMMA UnchallengedIsCalm ==
    ASSUME NEW sessionRows, CalmTable(sessionRows), NEW s \in Slot
    PROVE  CalmTable([sessionRows EXCEPT ![s].challenge = NoChallenge])
  BY NoSessionRow DEF CalmTable, SessionRow, NoChallenge

-----------------------------------------------------------------------------
\* A step that begins no session, replaces no password and touches no authenticator.
Quiet ==
    /\ CalmTable(sessions')
    /\ account' \in AccountRow /\ account'.version = account.version
    /\ account'.password = account.password
    /\ requests' \in [Request -> RequestRow \cup {Idle}]
    /\ \A r \in Request : requests'[r] \in {requests[r], Idle}
    /\ link' \in [id : Nat, version : Nat]
    /\ issued' \in [links : Nat, secrets : Nat] /\ issued'.secrets = issued.secrets
    /\ keys' \subseteq Key /\ step' \in Nat /\ codes' \in BOOLEAN
    /\ UNCHANGED <<app, accepted>>

LEMMA QuietKeepsInv == SignInInv /\ Quiet => SignInInv'
<1> SUFFICES ASSUME SignInInv, Quiet PROVE SignInInv'
  OBVIOUS
<1> USE DEF SignInInv
<1>1. AccountRows'
  BY DEF AccountRows, Quiet, CalmTable
<1>2. SessionsKnow'
  BY DEF AccountRows, SessionsKnow, Knows, CalmTable, Quiet
<1>3. RequestsKnow'
  BY DEF AccountRows, RequestsKnow, Knows, Quiet
<1>4. SecretsAreNew'
  BY DEF SecretsAreNew, CalmTable, Offers, Quiet
<1>5. CodesInOrder' /\ CodeOnce'
  BY DEF CodesInOrder, CodeOnce, Quiet
<1> QED BY <1>1, <1>2, <1>3, <1>4, <1>5

LEMMA SignInInvInit == SignInInit => SignInInv
<1> SUFFICES ASSUME SignInInit PROVE SignInInv
  OBVIOUS
<1>1. AccountRows
  <2>1. account \in AccountRow /\ sessions \in [Slot -> SessionRow] /\ app \in [secret : Nat, last : Nat]
    BY NoSessionRow DEF SignInInit, AccountRow, NoSessions, NoApp
  <2>2. link \in [id : Nat, version : Nat] /\ issued \in [links : Nat, secrets : Nat]
    BY DEF SignInInit, NoLink
  <2>3. accepted \in Seq(Nat \X Nat) /\ requests \in [Request -> RequestRow \cup {Idle}]
    BY DEF SignInInit
  <2>4. keys \subseteq Key /\ step \in Nat /\ codes \in BOOLEAN
    BY DEF SignInInit
  <2> QED BY <2>1, <2>2, <2>3, <2>4 DEF AccountRows
<1>2. SessionsKnow /\ RequestsKnow
  BY NoSessionRow DEF SignInInit, SessionsKnow, RequestsKnow, NoSessions
<1>3. SecretsAreNew
  BY NoSessionRow DEF SignInInit, SecretsAreNew, Offers, NoSessions
<1>4. CodesInOrder /\ CodeOnce
  BY DEF SignInInit, CodesInOrder, CodeOnce, IsInjective, NoApp
<1> QED BY <1>1, <1>2, <1>3, <1>4 DEF SignInInv

-----------------------------------------------------------------------------
\* The requests that wait outside the lock.

LEMMA BeginsKeepsInv ==
    ASSUME SignInInv, NEW r \in Request, NEW kind \in {"login", "change", "reset", "reauthenticate"},
           NEW s \in Slot \cup {0}, NEW id \in Nat, Begins(r, kind, s, id)
    PROVE  SignInInv'
<1> DEFINE entry == [kind |-> kind, session |-> s, row |-> account, link |-> id]
<1> USE DEF SignInInv
<1>1. entry \in RequestRow /\ entry.row = account
  BY DEF AccountRows, RequestRow
<1>2. requests' = [requests EXCEPT ![r] = entry]
  BY DEF Begins
<1>3. UNCHANGED <<account, sessions, link, factors, step, issued>>
  BY DEF Begins
<1> HIDE DEF entry
<1>4. AccountRows'
  BY <1>1, <1>2, <1>3 DEF AccountRows, factors
<1>5. RequestsKnow'
  BY <1>1, <1>2, <1>3 DEF RequestsKnow, AccountRows, Knows, AccountRow
<1>6. SessionsKnow' /\ SecretsAreNew' /\ CodesInOrder' /\ CodeOnce'
  BY <1>3 DEF SessionsKnow, Knows, SecretsAreNew, Offers, CodesInOrder, CodeOnce, factors
<1> QED BY <1>4, <1>5, <1>6

\* A session begins with the password that was proved: of the version it is bound to.
LEMMA FinishLoginKeepsInv ==
    ASSUME SignInInv, NEW r \in Request, NEW s \in Slot, FinishLogin(r, s)
    PROVE  SignInInv'
<1> DEFINE entry == [NoSession EXCEPT !.live = TRUE, !.version = requests[r].row.version,
                                    !.proved = requests[r].row.password, !.password = TRUE]
<1> USE DEF SignInInv
<1>1. requests[r] # Idle /\ requests[r] \in RequestRow
  BY DEF FinishLogin, AccountRows, Idle
<1>2. requests[r].row \in AccountRow
  BY <1>1 DEF RequestRow
<1>3. /\ entry \in SessionRow /\ entry.challenge.kind # "authenticator-register"
      /\ entry.version = requests[r].row.version /\ entry.proved = requests[r].row.password
  BY <1>2, NoSessionRow DEF NoSession, SessionRow, AccountRow, NoChallenge, Challenges
<1>4. sessions' = [sessions EXCEPT ![s] = entry]
  BY DEF FinishLogin
<1>5. /\ requests' = [requests EXCEPT ![r] = Idle]
      /\ UNCHANGED <<account, link, keys, app, codes, accepted, step, issued>>
  BY DEF FinishLogin, Answers, factors, clocks
<1> HIDE DEF entry
<1>6. AccountRows'
  BY <1>3, <1>4, <1>5 DEF AccountRows
<1>7. SessionsKnow'
  BY <1>1, <1>3, <1>4, <1>5 DEF SessionsKnow, RequestsKnow, AccountRows, Knows
<1>8. RequestsKnow'
  BY <1>5 DEF RequestsKnow, AccountRows, Knows
<1>9. SecretsAreNew'
  BY <1>3, <1>4, <1>5 DEF SecretsAreNew, Offers, AccountRows
<1>10. CodesInOrder' /\ CodeOnce'
  BY <1>5 DEF CodesInOrder, CodeOnce
<1> QED BY <1>6, <1>7, <1>8, <1>9, <1>10

\* A new password comes with a new version and without sessions; whoever waits with the old
\* row waits with an older version.
LEMMA ReplaceKeepsInv ==
    ASSUME SignInInv, NEW r \in Request, ReplacePassword, Answers(r), UNCHANGED <<factors, clocks>>
    PROVE  SignInInv'
<1> USE DEF SignInInv
<1>1. /\ account' \in AccountRow /\ account'.version = account.version + 1
      /\ account.version \in Nat
  <2>1. account \in AccountRow
    BY DEF AccountRows
  <2>2. account' = [account EXCEPT !.password = @ + 1, !.version = @ + 1]
    BY DEF ReplacePassword
  <2>3. account.version \in Nat /\ account.password \in Nat /\ account.there \in BOOLEAN
    BY <2>1 DEF AccountRow
  <2>4. account' = [there |-> account.there, version |-> account.version + 1,
                    password |-> account.password + 1]
    BY <2>1, <2>2 DEF AccountRow
  <2>5. account' \in AccountRow
    BY <2>3, <2>4 DEF AccountRow
  <2> QED BY <2>3, <2>4, <2>5
<1>2. CalmTable(sessions') /\ \A s \in Slot : ~sessions'[s].live
  BY ClearedIsCalm, NoSessionRow DEF ReplacePassword, NoSessions
<1>3. link' \in [id : Nat, version : Nat]
  BY DEF ReplacePassword, NoLink
<1>4. AccountRows'
  BY <1>1, <1>2, <1>3 DEF AccountRows, CalmTable, Answers, factors, clocks
<1>5. SessionsKnow'
  BY <1>2 DEF SessionsKnow
<1>6. RequestsKnow'
  <2> SUFFICES ASSUME NEW q \in Request, requests'[q] # Idle
               PROVE  Knows(requests[q].row.version, requests[q].row.password)'
    BY DEF RequestsKnow
  <2>1. requests'[q] = requests[q] /\ requests[q] # Idle
    BY DEF Answers, AccountRows
  <2>2. requests[q].row.version <= account.version /\ requests[q].row.version \in Nat
    BY <2>1 DEF RequestsKnow, Knows, AccountRows, RequestRow, AccountRow
  <2> QED BY <1>1, <2>1, <2>2 DEF Knows
<1>7. SecretsAreNew'
  BY <1>2 DEF SecretsAreNew, CalmTable, Offers, factors, clocks
<1>8. CodesInOrder' /\ CodeOnce'
  BY DEF CodesInOrder, CodeOnce, factors, clocks
<1> QED BY <1>4, <1>5, <1>6, <1>7, <1>8

-----------------------------------------------------------------------------
\* Second factors.

\* A challenge for a passkey, which holds no secret.
LEMMA ChallengeKeepsInv ==
    ASSUME SignInInv, NEW s \in Slot, NEW kind \in {"passkey-register", "passkey-verify"},
           NEW about \in SUBSET Key, Challenge(s, kind, about), UNCHANGED issued
    PROVE  SignInInv'
<1> DEFINE challenge == [kind |-> kind, about |-> about]
           entry == [sessions[s] EXCEPT !.challenge = challenge]
<1> USE DEF SignInInv
<1>1. challenge \in Challenges /\ challenge.kind # "authenticator-register"
  BY DEF Challenges
<1>2. sessions[s] \in SessionRow /\ sessions \in [Slot -> SessionRow]
  BY DEF AccountRows
<1> HIDE DEF challenge
<1>3. /\ entry \in SessionRow /\ entry.live = sessions[s].live /\ entry.version = sessions[s].version
      /\ entry.proved = sessions[s].proved /\ entry.challenge = challenge
  BY <1>1, <1>2 DEF SessionRow
<1>4. sessions' = [sessions EXCEPT ![s] = entry]
  BY <1>2 DEF Challenge, challenge
<1> HIDE DEF entry
<1>5. CalmTable(sessions')
  BY <1>1, <1>3, <1>4, SameIsCalm, PutIsCalm
<1>6. Quiet
  BY <1>5 DEF Challenge, OnSessions, Quiet, AccountRows, factors
<1> QED BY <1>6, QuietKeepsInv

\* A new secret is newer than every one that was accepted.
LEMMA StartAuthenticatorKeepsInv ==
    ASSUME SignInInv, NEW s \in Slot, StartAuthenticator(s)
    PROVE  SignInInv'
<1> DEFINE secret == issued.secrets + 1
           challenge == [kind |-> "authenticator-register", about |-> {secret}]
           entry == [sessions[s] EXCEPT !.challenge = challenge]
<1> USE DEF SignInInv
<1>1. secret \in Nat /\ challenge \in Challenges /\ challenge.about = {secret}
  BY DEF Challenges, AccountRows
<1>2. sessions[s] \in SessionRow /\ sessions \in [Slot -> SessionRow]
  BY DEF AccountRows
<1>3. issued' \in [links : Nat, secrets : Nat] /\ issued'.secrets = secret
  <2>1. issued \in [links : Nat, secrets : Nat]
    BY DEF AccountRows
  <2>2. issued' = [issued EXCEPT !.secrets = @ + 1]
    BY DEF StartAuthenticator
  <2> QED BY <2>1, <2>2
<1>4. sessions' = [sessions EXCEPT ![s] = entry]
  BY <1>2 DEF StartAuthenticator, Challenge
<1>5. /\ UNCHANGED <<account, link, requests, step, keys, app, codes, accepted>>
      /\ app = NoApp
  BY DEF StartAuthenticator, Challenge, OnSessions, factors
<1>6. \A i \in DOMAIN accepted : accepted[i][1] \in Nat
  BY DEF AccountRows
<1>7. issued.secrets \in Nat /\ app.secret \in Nat
  BY DEF AccountRows
<1> HIDE DEF challenge
<1>8. /\ entry \in SessionRow /\ entry.live = sessions[s].live /\ entry.version = sessions[s].version
      /\ entry.proved = sessions[s].proved /\ entry.challenge = challenge
  BY <1>1, <1>2 DEF SessionRow
<1> HIDE DEF entry
<1>9. AccountRows'
  BY <1>3, <1>4, <1>5, <1>8 DEF AccountRows
<1>10. SessionsKnow' /\ RequestsKnow'
  BY <1>2, <1>4, <1>5, <1>8 DEF SessionsKnow, RequestsKnow, Knows
<1>11. SecretsAreNew'
  <2> SUFFICES ASSUME NEW t \in Slot, Offers(t)', NEW offered \in sessions'[t].challenge.about
               PROVE  /\ offered \in Nat /\ offered <= issued'.secrets
                      /\ \A i \in DOMAIN accepted' : accepted'[i][1] # offered
    BY <1>5 DEF SecretsAreNew
  <2>1. CASE t = s
    <3>1. offered = secret
      BY <1>1, <1>2, <1>4, <1>8, <2>1
    <3> QED BY <1>1, <1>3, <1>5, <1>6, <1>7, <3>1 DEF CodesInOrder
  <2>2. CASE t # s
    <3>1. sessions'[t] = sessions[t]
      BY <1>2, <1>4, <2>2
    <3> QED BY <1>3, <1>5, <1>7, <3>1 DEF SecretsAreNew, Offers
  <2> QED BY <2>1, <2>2
<1>12. CodesInOrder' /\ CodeOnce'
  BY <1>3, <1>5, <1>6, <1>7 DEF CodesInOrder, CodeOnce, IsInjective
<1> QED BY <1>9, <1>10, <1>11, <1>12

\* Accepting a code: of a secret that was never used, or later than the last of the present one.
LEMMA AcceptKeepsInv ==
    ASSUME SignInInv, NEW secret \in Nat, NEW counter \in Nat, Accept(secret, counter),
           app' = [secret |-> secret, last |-> counter], issued' = issued,
           secret <= issued.secrets,
           \A i \in DOMAIN accepted : accepted[i][1] = secret => accepted[i][2] < counter
    PROVE  CodesInOrder' /\ CodeOnce' /\ accepted' \in Seq(Nat \X Nat)
           /\ app' \in [secret : Nat, last : Nat]
           /\ \A i \in DOMAIN accepted' :
                  \/ i \in DOMAIN accepted /\ accepted'[i] = accepted[i]
                  \/ accepted'[i][1] = secret
<1> USE DEF SignInInv
<1> DEFINE n == Len(accepted) + 1
<1>1. accepted \in Seq(Nat \X Nat) /\ issued.secrets \in Nat
  BY DEF AccountRows
<1>2. /\ accepted' \in Seq(Nat \X Nat) /\ DOMAIN accepted' = 1..n /\ DOMAIN accepted = 1..(n - 1)
      /\ n \in Nat /\ accepted'[n][1] = secret /\ accepted'[n][2] = counter
      /\ \A i \in 1..(n - 1) : accepted'[i] = accepted[i]
  BY <1>1 DEF Accept
<1> HIDE DEF n
<1>3. \A i \in 1..n : i \in 1..(n - 1) \/ i = n
  BY <1>2
<1>4. \A i \in 1..(n - 1) : accepted[i][1] = secret => accepted[i][2] < counter
  BY <1>2
<1>5. CodeOnce'
  <2> SUFFICES ASSUME NEW i \in 1..n, NEW k \in 1..n, accepted'[i] = accepted'[k]
               PROVE  i = k
    BY <1>2 DEF CodeOnce, IsInjective
  <2>1. ASSUME NEW m \in 1..(n - 1) PROVE accepted'[m] # accepted'[n]
    <3> SUFFICES ASSUME accepted'[m] = accepted'[n] PROVE FALSE
      OBVIOUS
    <3>1. accepted[m][1] = secret /\ accepted[m][2] = counter
      BY <1>2
    <3> QED BY <1>4, <3>1
  <2>2. CASE i \in 1..(n - 1) /\ k \in 1..(n - 1)
    BY <1>2, <2>2 DEF CodeOnce, IsInjective
  <2> QED BY <1>3, <2>1, <2>2
<1>6. CodesInOrder'
  <2>1. app'.secret = secret /\ app'.last = counter
    OBVIOUS
  <2>2. \A i \in 1..n : accepted'[i][1] <= issued.secrets
    BY <1>2, <1>3 DEF CodesInOrder
  <2>3. \A i \in 1..n : accepted'[i][1] = secret => accepted'[i][2] <= counter
    <3> SUFFICES ASSUME NEW i \in 1..n, accepted'[i][1] = secret
                 PROVE  accepted'[i][2] <= counter
      OBVIOUS
    <3>1. CASE i = n
      BY <1>2, <3>1
    <3>2. CASE i \in 1..(n - 1)
      <4>1. accepted[i][1] = secret /\ accepted'[i][2] = accepted[i][2]
        BY <1>2, <3>2
      <4>2. accepted[i][2] < counter /\ accepted[i][2] \in Nat
        BY <1>1, <1>2, <1>4, <3>2, <4>1
      <4> QED BY <4>1, <4>2
    <3> QED BY <1>3, <3>1, <3>2
  <2> QED BY <1>2, <2>1, <2>2, <2>3 DEF CodesInOrder
<1> QED BY <1>2, <1>3, <1>5, <1>6

LEMMA RowsOf ==
    ASSUME SignInInv
    PROVE  /\ CalmTable(sessions) /\ account \in AccountRow /\ link \in [id : Nat, version : Nat]
           /\ requests \in [Request -> RequestRow \cup {Idle}] /\ keys \subseteq Key
           /\ issued \in [links : Nat, secrets : Nat] /\ issued.secrets \in Nat
           /\ step \in Nat /\ codes \in BOOLEAN
           /\ app \in [secret : Nat, last : Nat] /\ accepted \in Seq(Nat \X Nat)
  BY SameIsCalm DEF SignInInv, AccountRows

LEMMA CountersAre == ASSUME SignInInv PROVE Counters \subseteq Nat
  BY DEF SignInInv, AccountRows, Counters

LEMMA AddAuthenticatorKeepsInv ==
    ASSUME SignInInv, NEW s \in Slot, NEW counter \in Counters, AddAuthenticator(s, counter)
    PROVE  SignInInv'
<1> USE DEF SignInInv
<1>1. PICK secret \in sessions[s].challenge.about :
          app' = [secret |-> secret, last |-> counter] /\ Accept(secret, counter)
  BY DEF AddAuthenticator
<1>2. /\ Offers(s) /\ secret \in Nat /\ secret <= issued.secrets
      /\ \A i \in DOMAIN accepted : accepted[i][1] # secret
  BY DEF AddAuthenticator, SecretsAreNew, Offers
<1>3. /\ sessions' = RevokeOthers(s, Verified(s, sessions))
      /\ UNCHANGED <<account, link, requests, step, keys, issued>> /\ codes' \in BOOLEAN
  BY RowsOf DEF AddAuthenticator, FinishEnrollment, OnSessions
<1>4. CalmTable(sessions')
  BY <1>3, RowsOf, VerifiedIsCalm, RevokedIsCalm
<1>5. CodesInOrder' /\ CodeOnce' /\ accepted' \in Seq(Nat \X Nat)
      /\ app' \in [secret : Nat, last : Nat]
  BY <1>1, <1>2, <1>3, CountersAre, AcceptKeepsInv
<1>6. AccountRows'
  BY <1>3, <1>4, <1>5, RowsOf DEF AccountRows, CalmTable
<1>7. SessionsKnow' /\ RequestsKnow'
  BY <1>3, <1>4 DEF SessionsKnow, RequestsKnow, Knows, CalmTable
<1>8. \A t \in Slot : ~Offers(t)'
  <2> TAKE t \in Slot
  <2>1. CASE t # s
    BY <1>3, <2>1, NoSessionRow DEF RevokeOthers, Offers
  <2>2. CASE t = s
    <3>1. sessions'[s].challenge = NoChallenge
      <4>1. sessions \in [Slot -> SessionRow]
        BY DEF AccountRows
      <4>2. Verified(s, sessions)[s].challenge = NoChallenge
        BY <4>1 DEF Verified, SessionRow
      <4> QED BY <1>3, <4>2 DEF RevokeOthers
    <3> QED BY <2>2, <3>1 DEF Offers, NoChallenge
  <2> QED BY <2>1, <2>2
<1>9. SecretsAreNew'
  BY <1>8 DEF SecretsAreNew
<1> QED BY <1>5, <1>6, <1>7, <1>9

LEMMA VerifyAuthenticatorKeepsInv ==
    ASSUME SignInInv, NEW s \in Slot, NEW counter \in Counters, VerifyAuthenticator(s, counter)
    PROVE  SignInInv'
<1> USE DEF SignInInv
<1>1. app \in [secret : Nat, last : Nat] /\ app.secret \in Nat /\ app.last \in Nat
  BY RowsOf
<1>2. /\ app' = [secret |-> app.secret, last |-> counter] /\ Accept(app.secret, counter)
      /\ app # NoApp /\ counter > app.last /\ counter \in Nat
  BY <1>1, CountersAre DEF VerifyAuthenticator
<1>3. /\ sessions' = [sessions EXCEPT ![s].verified = TRUE, ![s].recent = TRUE]
      /\ UNCHANGED <<account, link, requests, step, keys, issued, codes>>
  BY DEF VerifyAuthenticator, OnSessions
<1>4. CalmTable(sessions')
  BY <1>3, RowsOf, ProvedIsCalm
<1>5. \A i \in DOMAIN accepted : accepted[i][1] = app.secret => accepted[i][2] < counter
  <2>1. \A i \in DOMAIN accepted : accepted[i][2] \in Nat
    BY DEF AccountRows
  <2> QED BY <1>1, <1>2, <2>1 DEF CodesInOrder
<1>6. CodesInOrder' /\ CodeOnce' /\ accepted' \in Seq(Nat \X Nat)
      /\ app' \in [secret : Nat, last : Nat]
  BY <1>1, <1>2, <1>3, <1>5, AcceptKeepsInv DEF CodesInOrder
<1>7. AccountRows'
  BY <1>3, <1>4, <1>6, RowsOf DEF AccountRows, CalmTable
<1>8. SessionsKnow' /\ RequestsKnow'
  BY <1>3, <1>4 DEF SessionsKnow, RequestsKnow, Knows, CalmTable
<1>9. SecretsAreNew'
  BY <1>2, <1>4 DEF SecretsAreNew, Offers, CalmTable
<1> QED BY <1>6, <1>7, <1>8, <1>9

\* Without an authenticator only new secrets are accepted.
LEMMA RemoveFactorKeepsInv ==
    ASSUME SignInInv, NEW s \in Slot, NEW ks \in SUBSET Key, NEW a \in {app, NoApp},
           RemoveFactor(s, ks, a)
    PROVE  SignInInv'
<1> USE DEF SignInInv
<1>1. /\ keys' = ks /\ app' = a
      /\ codes' \in BOOLEAN
      /\ UNCHANGED <<account, link, requests, step, accepted, issued>>
  BY RowsOf DEF RemoveFactor, OnSessions
<1>2. Proofs(s) \subseteq BOOLEAN
  BY RowsOf DEF Proofs, CalmTable, SessionRow
<1>3. CalmTable(sessions')
  <2>1. CalmTable(RevokeOthers(s, sessions))
    BY RowsOf, RevokedIsCalm
  <2>2. \A proof \in Proofs(s) : CalmTable(Disabled(s, RevokeOthers(s, sessions), proof))
    BY <1>2, <2>1, DisabledIsCalm
  <2>3. \/ \E proof \in Proofs(s) : sessions' = Disabled(s, RevokeOthers(s, sessions), proof)
        \/ sessions' = RevokeOthers(s, sessions)
    BY DEF RemoveFactor
  <2> QED BY <2>1, <2>2, <2>3
<1>4. CASE a = app
  <2>1. Quiet
    BY <1>1, <1>3, <1>4, RowsOf DEF Quiet
  <2> QED BY <2>1, QuietKeepsInv
<1>5. CASE a = NoApp
  <2>1. NoApp \in [secret : Nat, last : Nat] /\ NoApp.secret = 0
    BY DEF NoApp
  <2>2. AccountRows'
    BY <1>1, <1>3, <1>5, <2>1, RowsOf DEF AccountRows, CalmTable
  <2>3. SessionsKnow' /\ RequestsKnow'
    BY <1>1, <1>3 DEF SessionsKnow, RequestsKnow, Knows, CalmTable
  <2>4. SecretsAreNew'
    BY <1>1, <1>3, <1>5 DEF SecretsAreNew, Offers, CalmTable
  <2>5. CodesInOrder' /\ CodeOnce'
    BY <1>1, <1>5, <2>1, RowsOf DEF CodesInOrder, CodeOnce
  <2> QED BY <2>2, <2>3, <2>4, <2>5
<1> QED BY <1>4, <1>5

-----------------------------------------------------------------------------
\* Everything else is quiet.

LEMMA RequestQuiets ==
    ASSUME SignInInv, NEW r \in Request, GiveUp(r) \/ FinishReauthenticate(r)
    PROVE  Quiet
<1>1. /\ requests' = [requests EXCEPT ![r] = Idle]
      /\ UNCHANGED <<account, link, keys, app, codes, accepted, step, issued>>
  BY DEF GiveUp, FinishReauthenticate, Answers, factors, clocks
<1>2. CalmTable(sessions')
  <2>1. CASE GiveUp(r)
    BY <2>1, RowsOf DEF GiveUp
  <2>2. CASE FinishReauthenticate(r)
    <3> DEFINE s == requests[r].session
    <3>1. sessions' = [sessions EXCEPT ![s].password = TRUE]
      BY <2>2 DEF FinishReauthenticate
    <3> HIDE DEF s
    <3>2. CASE s \in Slot
      BY <3>1, <3>2, RowsOf, ReauthenticatedIsCalm
    <3>3. CASE s \notin Slot
      <4>1. sessions' = sessions
        BY <3>1, <3>3, RowsOf DEF CalmTable
      <4> QED BY <4>1, RowsOf
    <3> QED BY <3>2, <3>3
  <2> QED BY <2>1, <2>2
<1> QED BY <1>1, <1>2, RowsOf DEF Quiet

LEMMA FactorQuiets ==
    ASSUME SignInInv, NEW s \in Slot,
           \/ NewRecoveryCodes(s)
           \/ \E k \in Key : AddPasskey(s, k) \/ VerifyPasskey(s, k)
           \/ \E last \in BOOLEAN : UseRecoveryCode(s, last)
    PROVE  Quiet
<1>1. /\ UNCHANGED <<account, link, requests, app, accepted, step, issued>>
      /\ keys' \subseteq Key /\ codes' \in BOOLEAN
  BY RowsOf DEF NewRecoveryCodes, AddPasskey, VerifyPasskey, UseRecoveryCode, FinishEnrollment,
     OnSessions, factors
<1>2. CalmTable(sessions')
  <2>1. CASE NewRecoveryCodes(s)
    BY <2>1, RowsOf DEF NewRecoveryCodes
  <2>2. ASSUME NEW k \in Key, AddPasskey(s, k) PROVE CalmTable(sessions')
    BY <2>2, RowsOf, VerifiedIsCalm, RevokedIsCalm DEF AddPasskey, FinishEnrollment, SignInInv
  <2>3. ASSUME NEW k \in Key, VerifyPasskey(s, k) PROVE CalmTable(sessions')
    BY <2>3, RowsOf, VerifiedIsCalm DEF VerifyPasskey
  <2>4. ASSUME NEW last \in BOOLEAN, UseRecoveryCode(s, last) PROVE CalmTable(sessions')
    BY <2>4, RowsOf, ProvedIsCalm, RevokedIsCalm DEF UseRecoveryCode, SignInInv
  <2> QED BY <2>1, <2>2, <2>3, <2>4
<1> QED BY <1>1, <1>2, RowsOf DEF Quiet

LEMMA LifetimeQuiets == ASSUME SignInInv, Lifetimes PROVE Quiet
<1>1. /\ UNCHANGED <<requests, keys, app, codes, accepted>>
      /\ step' \in Nat
  <2>1. CASE Ticks
    BY <2>1, RowsOf DEF Ticks, credentials, factors
  <2>2. CASE SendLink \/ LinkExpires \/ DeleteAccount
    BY <2>2, RowsOf DEF SendLink, LinkExpires, DeleteAccount, factors, clocks
  <2>3. ASSUME NEW s \in Slot, \/ Logout(s) \/ RevokeOtherSessions(s) \/ RevokeAll(s)
                               \/ \E t \in Slot : RevokeSession(s, t)
        PROVE  UNCHANGED <<requests, keys, app, codes, accepted, step>>
    BY <2>3 DEF Logout, RevokeOtherSessions, RevokeAll, RevokeSession, OnSessions, factors
  <2>4. ASSUME NEW s \in Slot, SessionExpires(s) \/ Ages(s) \/ ChallengeEnds(s)
        PROVE  UNCHANGED <<requests, keys, app, codes, accepted, step>>
    BY <2>4 DEF SessionExpires, Ages, ChallengeEnds, factors, clocks
  <2> QED BY <2>1, <2>2, <2>3, <2>4, RowsOf DEF Lifetimes
<1>2. account' \in AccountRow /\ account'.version = account.version
      /\ account'.password = account.password
  <2>1. CASE DeleteAccount
    BY <2>1, RowsOf DEF DeleteAccount, AccountRow
  <2>2. CASE ~DeleteAccount
    <3>1. UNCHANGED account
      BY <2>2 DEF Lifetimes, SendLink, LinkExpires, Ticks, Logout, RevokeOtherSessions,
         RevokeAll, SessionExpires, Ages, ChallengeEnds, RevokeSession, OnSessions, credentials
    <3> QED BY <3>1, RowsOf
  <2> QED BY <2>1, <2>2
<1>3. /\ issued' \in [links : Nat, secrets : Nat] /\ issued'.secrets = issued.secrets
      /\ link' \in [id : Nat, version : Nat]
  <2>1. CASE SendLink
    <3>1. issued' = [links |-> issued.links + 1, secrets |-> issued.secrets]
      BY <2>1, RowsOf DEF SendLink
    <3>2. link' = [id |-> issued.links + 1, version |-> account.version]
      BY <2>1 DEF SendLink
    <3>3. issued.links \in Nat /\ issued.secrets \in Nat /\ account.version \in Nat
      BY RowsOf DEF AccountRow
    <3> QED BY <3>1, <3>2, <3>3
  <2>2. CASE ~SendLink
    <3>1. UNCHANGED issued /\ link' \in {link, NoLink}
      BY <2>2 DEF Lifetimes, LinkExpires, Ticks, DeleteAccount, Logout, RevokeOtherSessions,
         RevokeAll, SessionExpires, Ages, ChallengeEnds, RevokeSession, OnSessions,
         credentials, clocks
    <3> QED BY <3>1, RowsOf DEF NoLink
  <2> QED BY <2>1, <2>2
<1>4. CalmTable(sessions')
  <2>1. CASE SendLink \/ LinkExpires \/ Ticks
    BY <2>1, RowsOf DEF SendLink, LinkExpires, Ticks, credentials
  <2>2. CASE DeleteAccount \/ \E s \in Slot : RevokeAll(s)
    <3>1. sessions' = NoSessions
      BY <2>2 DEF DeleteAccount, RevokeAll
    <3> QED BY <3>1, ClearedIsCalm DEF SignInInv
  <2>3. CASE \E s \in Slot : Logout(s) \/ SessionExpires(s) \/ \E t \in Slot : RevokeSession(s, t)
    <3>1. \E s \in Slot : sessions' = [sessions EXCEPT ![s] = NoSession]
      BY <2>3 DEF Logout, SessionExpires, RevokeSession
    <3> QED BY <3>1, EndedIsCalm DEF SignInInv
  <2>4. CASE \E s \in Slot : RevokeOtherSessions(s)
    BY <2>4, RowsOf, RevokedIsCalm DEF RevokeOtherSessions, SignInInv
  <2>5. ASSUME NEW s \in Slot, Ages(s) PROVE CalmTable(sessions')
    <3>1. CalmTable([sessions EXCEPT ![s].recent = FALSE, ![s].password = FALSE])
      BY RowsOf, AgedIsCalm
    <3> QED BY <2>5, <3>1 DEF Ages
  <2>6. ASSUME NEW s \in Slot, ChallengeEnds(s) PROVE CalmTable(sessions')
    <3>1. CalmTable([sessions EXCEPT ![s].challenge = NoChallenge])
      BY RowsOf, UnchallengedIsCalm
    <3> QED BY <2>6, <3>1 DEF ChallengeEnds
  <2> QED BY <2>1, <2>2, <2>3, <2>4, <2>5, <2>6 DEF Lifetimes
<1> QED BY <1>1, <1>2, <1>3, <1>4, RowsOf DEF Quiet

LEMMA RequestsKeepInv ==
    ASSUME SignInInv, NEW r \in Request,
           \/ StartLogin(r) \/ StartReset(r) \/ GiveUp(r)
           \/ FinishChange(r) \/ FinishReset(r) \/ FinishReauthenticate(r)
           \/ \E s \in Slot : StartChange(r, s) \/ StartReauthenticate(r, s) \/ FinishLogin(r, s)
    PROVE  SignInInv'
<1>1. CASE StartLogin(r)
  BY <1>1, BeginsKeepsInv DEF StartLogin
<1>2. CASE StartReset(r)
  <2>1. link.id \in Nat
    BY RowsOf
  <2> QED BY <1>2, <2>1, BeginsKeepsInv DEF StartReset
<1>3. ASSUME NEW s \in Slot, StartChange(r, s) \/ StartReauthenticate(r, s) PROVE SignInInv'
  BY <1>3, BeginsKeepsInv DEF StartChange, StartReauthenticate
<1>4. ASSUME NEW s \in Slot, FinishLogin(r, s) PROVE SignInInv'
  BY <1>4, FinishLoginKeepsInv
<1>5. CASE FinishChange(r) \/ FinishReset(r)
  BY <1>5, ReplaceKeepsInv DEF FinishChange, FinishReset
<1>6. CASE GiveUp(r) \/ FinishReauthenticate(r)
  BY <1>6, RequestQuiets, QuietKeepsInv
<1> QED BY <1>1, <1>2, <1>3, <1>4, <1>5, <1>6

LEMMA FactorsKeepInv ==
    ASSUME SignInInv, NEW s \in Slot,
           \/ StartPasskey(s) \/ StartVerification(s) \/ StartAuthenticator(s)
           \/ RemoveAuthenticator(s) \/ NewRecoveryCodes(s)
           \/ \E k \in Key : AddPasskey(s, k) \/ VerifyPasskey(s, k) \/ RemovePasskey(s, k)
           \/ \E c \in Counters : AddAuthenticator(s, c) \/ VerifyAuthenticator(s, c)
           \/ \E last \in BOOLEAN : UseRecoveryCode(s, last)
    PROVE  SignInInv'
<1>1. CASE StartPasskey(s) \/ StartVerification(s)
  <2>1. Key \ keys \in SUBSET Key /\ keys \in SUBSET Key
    BY RowsOf
  <2> QED BY <1>1, <2>1, ChallengeKeepsInv DEF StartPasskey, StartVerification
<1>2. CASE StartAuthenticator(s)
  BY <1>2, StartAuthenticatorKeepsInv
<1>3. CASE RemoveAuthenticator(s)
  BY <1>3, RowsOf, RemoveFactorKeepsInv DEF RemoveAuthenticator
<1>4. ASSUME NEW k \in Key, RemovePasskey(s, k) PROVE SignInInv'
  <2>1. keys \ {k} \in SUBSET Key
    BY RowsOf
  <2> QED BY <1>4, <2>1, RemoveFactorKeepsInv DEF RemovePasskey
<1>5. ASSUME NEW c \in Counters, AddAuthenticator(s, c) \/ VerifyAuthenticator(s, c)
      PROVE  SignInInv'
  BY <1>5, AddAuthenticatorKeepsInv, VerifyAuthenticatorKeepsInv
<1>6. CASE \/ NewRecoveryCodes(s)
           \/ \E k \in Key : AddPasskey(s, k) \/ VerifyPasskey(s, k)
           \/ \E last \in BOOLEAN : UseRecoveryCode(s, last)
  BY <1>6, FactorQuiets, QuietKeepsInv
<1> QED BY <1>1, <1>2, <1>3, <1>4, <1>5, <1>6

LEMMA SignInInvNext == SignInInv /\ [SignInNext]_signInVars => SignInInv'
<1> SUFFICES ASSUME SignInInv, [SignInNext]_signInVars PROVE SignInInv'
  OBVIOUS
<1>1. CASE Requests
  BY <1>1, RequestsKeepInv DEF Requests
<1>2. CASE Factors
  BY <1>2, FactorsKeepInv DEF Factors
<1>3. CASE Lifetimes
  BY <1>3, LifetimeQuiets, QuietKeepsInv
<1>4. CASE UNCHANGED signInVars
  <2>1. Quiet
    BY <1>4, RowsOf DEF signInVars, credentials, factors, clocks, Quiet
  <2> QED BY <2>1, QuietKeepsInv
<1> QED BY <1>1, <1>2, <1>3, <1>4 DEF SignInNext

\* The inductive invariant of the accounts' sign-ins: types, what every session and request knows
\* of the version it was made under, which secrets are new and which codes are remembered.
THEOREM SignInInvHolds == SignInSpec => []SignInInv
<1> QED BY SignInInvInit, SignInInvNext, PTL DEF SignInSpec

\* Whoever holds a session that works proved the account's present password to open it, in
\* every interleaving of sign-ins, changes and resets (sessions.rs login, passwords.rs change
\* and reset): the version that the session carries stands for one password.
THEOREM PasswordIsKnown == SignInSpec => []SessionsKnowThePassword
<1>1. SignInInv => SessionsKnowThePassword
  BY DEF SignInInv, SessionsKnowThePassword, SessionsKnow, Knows, Authenticates
<1> QED BY <1>1, SignInInvHolds, PTL

\* An authenticator code is accepted once, the one that enrols included, whatever is removed
\* and enrolled again in between (security.rs add_authenticator and verify_authenticator).
THEOREM CodeUsedOnce == SignInSpec => []CodeOnce
<1>1. SignInInv => CodeOnce
  BY DEF SignInInv
<1> QED BY <1>1, SignInInvHolds, PTL

-----------------------------------------------------------------------------
(***************************************************************************)
(* For any persons and roles: a founded DSP keeps an owner, and whoever    *)
(* joins gets what they were invited to. An invitation that is open stands *)
(* for a role that is there as it was then, and for nobody who is a member *)
(* (InvitationsStand).                                                     *)
(***************************************************************************)

\* The tables have a row for each person and each role.
TeamRows ==
    /\ DOMAIN members = Person
    /\ DOMAIN open = Person
    /\ DOMAIN roles = Role
    /\ invites \in Nat

\* Whoever is invited is not a member, and the role they are invited to is there as it was.
InvitedAsItIs(p) ==
    open[p].id # 0 =>
        /\ members[p] = Nobody /\ RoleThere(open[p].role)
        /\ RolePermissions(open[p].role) = open[p].as
InvitationsStand == \A p \in Person : InvitedAsItIs(p)

TeamInv == TeamRows /\ OwnerRemains /\ InvitationsStand

LEMMA NoInvitationStands == NoInvitation.id = 0
  BY DEF NoInvitation

LEMMA TeamInvInit == TeamInit => TeamInv
<1> SUFFICES ASSUME TeamInit PROVE TeamInv
  OBVIOUS
<1>1. TeamRows
  BY FoundedAssumption DEF TeamInit, TeamRows
<1>2. OwnerRemains
  BY FoundedAssumption DEF TeamInit, OwnerRemains, Owners
<1>3. InvitationsStand
  BY NoInvitationStands DEF TeamInit, InvitationsStand, InvitedAsItIs
<1> QED BY <1>1, <1>2, <1>3 DEF TeamInv

\* What touches neither members nor roles and opens no invitation.
Peaceful ==
    /\ UNCHANGED <<members, roles, invites>>
    /\ DOMAIN open' = Person
    /\ \A p \in Person : open'[p] \in {open[p], NoInvitation}

LEMMA PeacefulKeepsInv == ASSUME TeamInv, Peaceful PROVE TeamInv'
<1>1. TeamRows' /\ OwnerRemains'
  BY DEF TeamInv, Peaceful, TeamRows, OwnerRemains, Owners
<1>2. InvitationsStand'
  <2> SUFFICES ASSUME NEW p \in Person PROVE InvitedAsItIs(p)'
    BY DEF InvitationsStand
  <2> QED BY NoInvitationStands
          DEF TeamInv, Peaceful, InvitationsStand, InvitedAsItIs, RoleThere, RolePermissions
<1> QED BY <1>1, <1>2 DEF TeamInv

LEMMA InviteKeepsInv ==
    ASSUME TeamInv, NEW a \in Actor, NEW p \in Person, NEW r \in RoleIds, Invite(a, p, r)
    PROVE  TeamInv'
<1> DEFINE invitation == [id |-> invites + 1, role |-> r, by |-> a, as |-> RolePermissions(r)]
<1>1. /\ open' = [open EXCEPT ![p] = invitation] /\ UNCHANGED <<members, roles>>
      /\ invites' = invites + 1 /\ members[p] = Nobody /\ RoleThere(r)
  BY DEF Invite
<1>2. invitation.role = r /\ invitation.as = RolePermissions(r)
  OBVIOUS
<1> HIDE DEF invitation
<1>3. TeamRows' /\ OwnerRemains'
  BY <1>1 DEF TeamInv, TeamRows, OwnerRemains, Owners
<1>4. InvitationsStand'
  BY <1>1, <1>2 DEF TeamInv, TeamRows, InvitationsStand, InvitedAsItIs, RoleThere, RolePermissions
<1> QED BY <1>3, <1>4 DEF TeamInv

\* The owner who gives their role away is not the last: Owners is not their own singleton.
LEMMA SetRoleKeepsInv ==
    ASSUME TeamInv, NEW a \in Actor, NEW p \in Person, NEW r \in RoleIds \union {Nobody},
           SetRole(a, p, r)
    PROVE  TeamInv'
<1>1. /\ members' = [members EXCEPT ![p] = r] /\ UNCHANGED <<roles, invites>>
      /\ open' = [q \in Person |->
             IF open[q].by = p \/ (r = Nobody /\ q = p) THEN NoInvitation ELSE open[q]]
  BY DEF SetRole
<1>2. TeamRows'
  BY <1>1 DEF TeamInv, TeamRows
<1>3. OwnerRemains'
  <2>1. \E q \in Owners : q # p \/ r = Owner
    <3> SUFFICES ASSUME r # Owner, \A q \in Owners : q = p PROVE FALSE
      BY DEF TeamInv, OwnerRemains
    <3>1. Owners = {p}
      BY DEF TeamInv, OwnerRemains
    <3>2. Cardinality(Owners) = 1
      BY <3>1, FS_Singleton
    <3>3. members[p] = Owner
      BY <3>1 DEF Owners
    <3>4. Cardinality(Owners) > 1
      BY <3>3 DEF SetRole, KeepsAnOwner
    <3> QED BY <3>2, <3>4
  <2>2. PICK q \in Owners : q # p \/ r = Owner
    BY <2>1
  <2>3. members'[q] = Owner
    BY <1>1, <2>2 DEF TeamInv, TeamRows, Owners
  <2> QED BY <2>3 DEF OwnerRemains, Owners
<1>4. InvitationsStand'
  <2> SUFFICES ASSUME NEW q \in Person PROVE InvitedAsItIs(q)'
    BY DEF InvitationsStand
  <2>1. CASE q # p
    BY <1>1, <2>1, NoInvitationStands
       DEF TeamInv, TeamRows, InvitationsStand, InvitedAsItIs, RoleThere, RolePermissions
  <2>2. CASE q = p
    <3>1. RoleThere(members[p])
      BY FoundedAssumption DEF SetRole, Belongs
    <3>2. members[p] # Nobody
      BY <3>1, FoundedAssumption DEF RoleThere, RoleIds, Owner, Nobody
    <3>3. open[p].id = 0
      BY <3>2 DEF TeamInv, InvitationsStand, InvitedAsItIs
    <3> QED BY <1>1, <2>2, <3>3, NoInvitationStands DEF InvitedAsItIs
  <2> QED BY <2>1, <2>2
<1> QED BY <1>2, <1>3, <1>4 DEF TeamInv

\* Whoever joins is invited no longer; the owners stay.
LEMMA FinishAcceptKeepsInv ==
    ASSUME TeamInv, NEW p \in Person, FinishAccept(p)
    PROVE  TeamInv'
<1>1. /\ members' = [members EXCEPT ![p] = IF @ = Nobody THEN open[p].role ELSE @]
      /\ open' = [open EXCEPT ![p] = NoInvitation] /\ UNCHANGED <<roles, invites>>
  BY DEF FinishAccept
<1>2. TeamRows'
  BY <1>1 DEF TeamInv, TeamRows
<1>3. OwnerRemains'
  BY <1>1 DEF TeamInv, TeamRows, OwnerRemains, Owners, Owner, Nobody
<1>4. InvitationsStand'
  BY <1>1, NoInvitationStands
     DEF TeamInv, TeamRows, InvitationsStand, InvitedAsItIs, RoleThere, RolePermissions
<1> QED BY <1>2, <1>3, <1>4 DEF TeamInv

\* The permissions of a role change only where no invitation to it stays open.
LEMMA RolesKeepInv ==
    ASSUME TeamInv, NEW a \in Actor, NEW r \in Role,
           \/ DeleteRole(a, r)
           \/ \E ps \in PermissionSets : CreateRole(a, r, ps) \/ UpdateRole(a, r, ps)
    PROVE  TeamInv'
<1>1. /\ DOMAIN roles' = Role /\ \A q \in Role \ {r} : roles'[q] = roles[q]
      /\ UNCHANGED <<members, invites>> /\ DOMAIN open' = Person
      /\ \A p \in Person : open'[p] \in {open[p], NoInvitation}
  BY DEF TeamInv, TeamRows, DeleteRole, CreateRole, UpdateRole
<1>2. TeamRows' /\ OwnerRemains'
  BY <1>1 DEF TeamInv, TeamRows, OwnerRemains, Owners
<1>3. r = Owner => UNCHANGED roles
  BY DEF DeleteRole, CreateRole, UpdateRole, RoleThere, RoleIds
<1>4. ASSUME NEW p \in Person, open'[p].id # 0, open'[p].role = r PROVE roles'[r] = roles[r]
  <2>1. open'[p] = open[p] /\ open[p].id # 0
    BY <1>1, <1>4, NoInvitationStands
  <2>2. RoleThere(r)
    BY <1>4, <2>1 DEF TeamInv, InvitationsStand, InvitedAsItIs
  <2>3. ~DeleteRole(a, r)
    BY <1>4, <2>1 DEF DeleteRole
  <2>4. \A ps \in PermissionSets : ~CreateRole(a, r, ps)
    BY <2>2 DEF CreateRole
  <2>5. PICK ps \in PermissionSets : UpdateRole(a, r, ps)
    BY <2>3, <2>4
  <2>6. p \in EndedWith(r)
    BY <1>4, <2>1 DEF EndedWith
  <2>7. open[p] # NoInvitation
    BY <2>1, NoInvitationStands
  <2> QED BY <1>4, <2>1, <2>5, <2>6, <2>7 DEF UpdateRole, TeamInv, TeamRows
<1>5. InvitationsStand'
  <2> SUFFICES ASSUME NEW p \in Person, open'[p].id # 0
               PROVE  /\ members'[p] = Nobody /\ RoleThere(open[p].role)'
                      /\ RolePermissions(open[p].role)' = open'[p].as
    BY DEF InvitationsStand, InvitedAsItIs
  <2>1. open'[p] = open[p] /\ InvitedAsItIs(p) /\ open[p].id # 0
    BY <1>1, NoInvitationStands DEF TeamInv, InvitationsStand
  <2>2. open[p].role # Owner => open[p].role \in Role
    BY <2>1 DEF InvitedAsItIs, RoleThere, RoleIds
  <2>3. open[p].role # Owner => roles'[open[p].role] = roles[open[p].role]
    BY <1>1, <1>4, <2>1, <2>2
  <2> QED BY <1>1, <2>1, <2>3 DEF InvitedAsItIs, RoleThere, RolePermissions
<1> QED BY <1>2, <1>5 DEF TeamInv

LEMMA TeamInvNext == TeamInv /\ [TeamNext]_teamVars => TeamInv'
<1> SUFFICES ASSUME TeamInv, [TeamNext]_teamVars PROVE TeamInv'
  OBVIOUS
<1>1. ASSUME NEW a \in Actor, NEW p \in Person, NEW r \in RoleIds, Invite(a, p, r) PROVE TeamInv'
  BY <1>1, InviteKeepsInv
<1>2. ASSUME NEW a \in Actor, NEW p \in Person, NEW r \in RoleIds \union {Nobody},
             SetRole(a, p, r)
      PROVE  TeamInv'
  BY <1>2, SetRoleKeepsInv
<1>3. ASSUME NEW a \in Actor, NEW r \in Role,
             \/ DeleteRole(a, r)
             \/ \E ps \in PermissionSets : CreateRole(a, r, ps) \/ UpdateRole(a, r, ps)
      PROVE  TeamInv'
  BY <1>3, RolesKeepInv
<1>4. ASSUME NEW p \in Person, FinishAccept(p) PROVE TeamInv'
  BY <1>4, FinishAcceptKeepsInv
<1>5. ASSUME \/ \E a \in Actor : OpenView(a) \/ \E p \in Person : RevokeInvitation(a, p)
             \/ \E p \in Person :
                    InvitationExpires(p) \/ AccountChanges(p) \/ StartAccept(p) \/ GiveUpAccept(p)
             \/ \E f \in DOMAIN Feature, on \in BOOLEAN : SetFeature(f, on)
             \/ SetStatus
             \/ UNCHANGED teamVars
      PROVE  TeamInv'
  <2>1. Peaceful
    <3>1. CASE \E a \in Actor, p \in Person : RevokeInvitation(a, p)
      BY <3>1 DEF RevokeInvitation, Peaceful, TeamInv, TeamRows
    <3>2. CASE \E p \in Person : InvitationExpires(p)
      BY <3>2 DEF InvitationExpires, Peaceful, TeamInv, TeamRows
    <3>3. CASE \/ \E a \in Actor : OpenView(a) \/ \E p \in Person : StartAccept(p) \/ GiveUpAccept(p)
               \/ UNCHANGED teamVars
      BY <3>3 DEF OpenView, StartAccept, GiveUpAccept, teamVars, teamTable, Peaceful, TeamInv, TeamRows
    <3>4. CASE \/ \E p \in Person : AccountChanges(p)
               \/ \E f \in DOMAIN Feature, on \in BOOLEAN : SetFeature(f, on)
               \/ SetStatus
      BY <3>4 DEF AccountChanges, SetFeature, SetStatus, Peaceful, TeamInv, TeamRows
    <3>5. CASE \E p \in Person : StartAccept(p) \/ GiveUpAccept(p)
      BY <3>5 DEF StartAccept, GiveUpAccept, teamTable, Peaceful, TeamInv, TeamRows
    <3> QED BY <1>5, <3>1, <3>2, <3>3, <3>4, <3>5
  <2> QED BY <2>1, PeacefulKeepsInv
<1> QED BY <1>1, <1>2, <1>3, <1>4, <1>5 DEF TeamNext

\* The inductive invariant of a DSP's team: types, an owner once founded, and open invitations that
\* still stand for what they offered.
THEOREM TeamInvHolds == TeamSpec => []TeamInv
<1> QED BY TeamInvInit, TeamInvNext, PTL DEF TeamSpec

\* A founded DSP always has an owner, whoever changes whose role and in whatever order
\* (tenants.rs set_role counts the owners in the transaction that changes the row).
THEOREM OwnerStays == TeamSpec => []OwnerRemains
<1>1. TeamInv => OwnerRemains
  BY DEF TeamInv
<1> QED BY <1>1, TeamInvHolds, PTL

\* Whoever joins gets the role with the permissions it had when they were invited: a change of
\* the role ends the invitation, also one that is being accepted (roles.rs update,
\* invitations.rs accept).
THEOREM JoinedAsInvited == TeamSpec => JoinsAsInvited
<1> DEFINE Joins == joined' # joined => RolePermissions(joined'.role) = joined'.as
<1>1. TeamInv /\ [TeamNext]_teamVars => [Joins]_teamVars
  <2> SUFFICES ASSUME TeamInv, TeamNext, joined' # joined
               PROVE  RolePermissions(joined'.role) = joined'.as
    OBVIOUS
  <2>1. PICK p \in Person : FinishAccept(p)
    BY DEF TeamNext, OpenView, RevokeInvitation, Invite, SetRole, DeleteRole, CreateRole, UpdateRole,
       InvitationExpires, AccountChanges, StartAccept, GiveUpAccept, SetFeature, SetStatus
  <2>2. open[p].id # 0
    BY <2>1 DEF FinishAccept, InvitationOpen
  <2>3. members[p] = Nobody /\ RolePermissions(open[p].role) = open[p].as
    BY <2>2 DEF TeamInv, InvitationsStand, InvitedAsItIs
  <2>4. joined'.role = open[p].role /\ joined'.as = open[p].as
    BY <2>1, <2>3 DEF FinishAccept, TeamInv, TeamRows
  <2> QED BY <2>3, <2>4
<1> QED BY <1>1, TeamInvHolds, PTL DEF TeamSpec, JoinsAsInvited

-----------------------------------------------------------------------------
(***************************************************************************)
(* For any timings, zones and crashes: no occurrence of a schedule is      *)
(* collected twice, and none that is passed over was missing from the      *)
(* queue.                                                                  *)
(*                                                                         *)
(* An occurrence is later than the one before it, whatever the zone's      *)
(* change does to the clock (NextIsLater): the batches a schedule has had  *)
(* are of its occurrences up to the one it stands at, and the one it       *)
(* stands at may be in the queue already when the process stopped between  *)
(* the two commits.                                                        *)
(***************************************************************************)

LEMMA DaysAreThere == Day \in Nat /\ Day > 0
  BY TimesAssumption

\* The date of an instant: its local time lies within that day.
LEMMA WithinDay ==
    ASSUME NEW l \in Int
    PROVE  /\ l \div Day \in Int
           /\ (l \div Day) * Day <= l /\ l < (l \div Day) * Day + Day
  BY DaysAreThere

\* The first of four days.
LEMMA FirstIsOne ==
    ASSUME NEW days \in SUBSET (0..3), days # {}
    PROVE  Min(days) \in days
<1>1. \E x \in days : \A y \in days : x <= y
  <2>1. CASE 0 \in days
    BY <2>1
  <2>2. CASE 0 \notin days /\ 1 \in days
    BY <2>2
  <2>3. CASE 0 \notin days /\ 1 \notin days /\ 2 \in days
    BY <2>3
  <2>4. CASE 0 \notin days /\ 1 \notin days /\ 2 \notin days
    <3>1. \A x \in days : x = 3
      BY <2>4
    <3>2. PICK x \in days : TRUE
      OBVIOUS
    <3>3. \A y \in days : x <= y
      BY <3>1
    <3> QED BY <3>3
  <2> QED BY <2>1, <2>2, <2>3, <2>4
<1> QED BY <1>1 DEF Min

\* An instant of a local time reads that time.
LEMMA InstantReads ==
    ASSUME NEW z, IsZone(z), NEW date \in Int, NEW time \in Int
    PROVE  /\ LocalInstant(z, date, time) \in Int
           /\ Instants(z, date, time) # {} =>
                  Local(z, LocalInstant(z, date, time)) = date * Day + time
<1> DEFINE local == date * Day + time
           set == {t \in {local - z.before, local - z.later} : Local(z, t) = local}
<1>1. local \in Int
  BY DaysAreThere
<1>2. set = Instants(z, date, time)
  BY DEF Instants
<1>3. set # {} => Min(set) \in set
  <2> SUFFICES ASSUME set # {} PROVE Min(set) \in set
    OBVIOUS
  <2> HIDE DEF local
  <2>1. \E x \in set : \A y \in set : x <= y
    BY <1>1 DEF IsZone
  <2> HIDE DEF set
  <2> QED BY <2>1 DEF Min
<1>4. LocalInstant(z, date, time) = IF set = {} THEN Never ELSE Min(set)
  BY <1>2 DEF LocalInstant
<1> HIDE DEF local
<1>5. \A t \in set : t \in Int /\ Local(z, t) = local
  BY <1>1 DEF IsZone
<1> HIDE DEF set
<1>6. LocalInstant(z, date, time) \in Int
  BY <1>3, <1>4, <1>5 DEF Never
<1>7. set # {} => Local(z, LocalInstant(z, date, time)) = local
  BY <1>3, <1>4, <1>5
<1> QED BY <1>2, <1>6, <1>7 DEF local

LEMMA InstantIsThere ==
    ASSUME NEW z, NEW date, NEW time
    PROVE  LET local == date * Day + time IN
           Local(z, local - z.before) = local \/ Local(z, local - z.later) = local =>
               Instants(z, date, time) # {}
<1> DEFINE local == date * Day + time
           e == local - z.before
           f == local - z.later
<1>1. Instants(z, date, time) = {t \in {e, f} : Local(z, t) = local}
  BY DEF Instants
<1> HIDE DEF local, e, f
<1>2. Local(z, e) = local => e \in Instants(z, date, time)
  BY <1>1
<1>3. Local(z, f) = local => f \in Instants(z, date, time)
  BY <1>1
<1> QED BY <1>2, <1>3 DEF local, e, f

\* A change of the clocks takes a local time from one day at most.
LEMMA TwoDaysHaveIt ==
    ASSUME NEW z, IsZone(z), NEW date \in Int, NEW time \in Int
    PROVE  Instants(z, date, time) # {} \/ Instants(z, date + 1, time) # {}
<1> DEFINE local == date * Day + time
           next == (date + 1) * Day + time
<1>1. local \in Int /\ next = local + Day
  BY DaysAreThere
<1>2. Local(z, local - z.before) = local \/ Local(z, local - z.later) = local =>
          Instants(z, date, time) # {}
  BY InstantIsThere
<1>3. Local(z, next - z.before) = next \/ Local(z, next - z.later) = next =>
          Instants(z, date + 1, time) # {}
  BY InstantIsThere
<1> HIDE DEF local, next
<1>4. \/ Local(z, local - z.before) = local \/ Local(z, local - z.later) = local
      \/ Local(z, next - z.before) = next \/ Local(z, next - z.later) = next
  BY <1>1, DaysAreThere DEF Local, IsZone
<1> QED BY <1>2, <1>3, <1>4

\* Two days on, a time of day is later.
LEMMA LaterByDays ==
    ASSUME NEW z, IsZone(z), NEW after \in Int, NEW t \in Int, NEW time \in 0..(Day - 1),
           NEW d \in {2, 3}, Local(z, t) = (DateOf(z, after) + d) * Day + time
    PROVE  t > after
<1> DEFINE l == Local(z, after)
           date == l \div Day
<1>1. l \in Int /\ DateOf(z, after) = date
  BY DEF Local, IsZone, DateOf
<1>2. date \in Int /\ l < date * Day + Day
  BY <1>1, WithinDay
<1>3. (date + d) * Day >= date * Day + 2 * Day
  <2> HIDE DEF date
  <2>1. (date + 2) * Day = date * Day + 2 * Day /\ (date + 3) * Day = date * Day + 3 * Day
    BY <1>2, DaysAreThere
  <2>2. date * Day \in Int
    BY <1>2, DaysAreThere
  <2> QED BY <2>1, <2>2, DaysAreThere
<1>4. Local(z, t) > l + Day
  <2> HIDE DEF date, l
  <2>1. date * Day \in Int /\ (date + d) * Day \in Int
    BY <1>2, DaysAreThere
  <2> QED BY <1>1, <1>2, <1>3, <2>1, DaysAreThere
<1> QED BY <1>1, <1>4, DaysAreThere DEF Local, IsZone

\* next_daily answers, and with a later instant, whatever the zone does.
LEMMA DailyIsLater ==
    ASSUME NEW z, IsZone(z), NEW after \in Nat, NEW time \in 0..(Day - 1)
    PROVE  NextDaily(time, z, after) \in Nat /\ NextDaily(time, z, after) > after
<1> DEFINE date == DateOf(z, after)
           At(d) == LocalInstant(z, date + d, time)
           days == {d \in 0..3 : At(d) # Never /\ At(d) > after}
<1>1. date \in Int
  <2>1. Local(z, after) \in Int
    BY DEF Local, IsZone
  <2> QED BY <2>1, WithinDay DEF DateOf
<1> HIDE DEF date
<1>2. \A d \in 0..3 : At(d) \in Int
  BY <1>1, InstantReads, DaysAreThere
<1>3. \E d \in {2, 3} : Instants(z, date + d, time) # {}
  <2>1. Instants(z, date + 2, time) # {} \/ Instants(z, (date + 2) + 1, time) # {}
    BY <1>1, TwoDaysHaveIt, DaysAreThere
  <2>2. (date + 2) + 1 = date + 3
    BY <1>1
  <2> QED BY <2>1, <2>2
<1>4. PICK d \in {2, 3} : Instants(z, date + d, time) # {}
  BY <1>3
<1>5. At(d) > after
  <2>1. Local(z, At(d)) = (date + d) * Day + time
    BY <1>1, <1>4, InstantReads, DaysAreThere
  <2>2. At(d) \in Int
    BY <1>2
  <2> DEFINE t == At(d)
  <2> HIDE DEF At
  <2>3. after \in Int /\ t \in Int /\ Local(z, t) = (DateOf(z, after) + d) * Day + time
    BY <2>1, <2>2 DEF date
  <2> HIDE DEF t
  <2>4. t > after
    BY <2>3, LaterByDays
  <2> QED BY <2>4 DEF t
<1>6. d \in days
  BY <1>2, <1>5 DEF Never
<1>7. NextDaily(time, z, after) = At(Min(days))
  BY <1>6 DEF NextDaily, FirstDay, date
<1> HIDE DEF At
<1>8. days \subseteq 0..3 /\ days # {}
  BY <1>6
<1>9. Min(days) \in days
  BY <1>8, FirstIsOne
<1> QED BY <1>2, <1>7, <1>9

LEMMA AnchorIsInt ==
    ASSUME NEW z, IsZone(z), NEW after \in Nat, NEW time \in 0..(Day - 1)
    PROVE  Anchor(time, z, after) \in Int
<1> DEFINE date == DateOf(z, after)
           At(d) == LocalInstant(z, date + d, time)
           days == {d \in 0..3 : At(d) # Never /\ TRUE}
<1>1. date \in Int
  <2>1. Local(z, after) \in Int
    BY DEF Local, IsZone
  <2> QED BY <2>1, WithinDay DEF DateOf
<1> HIDE DEF date
<1>2. \A d \in 0..3 : At(d) \in Int
  BY <1>1, InstantReads, DaysAreThere
<1>3. Anchor(time, z, after) = IF days = {} THEN Never ELSE At(Min(days))
  BY DEF Anchor, FirstDay, date
<1> HIDE DEF At
<1>4. days # {} => Min(days) \in 0..3
  BY FirstIsOne
<1> HIDE DEF days
<1> QED BY <1>2, <1>3, <1>4 DEF Never

\* next: the next occurrence is after now, whatever the timing.
LEMMA NextIsLater ==
    ASSUME NEW z, IsZone(z), NEW after \in Nat, NEW timing \in Timings, NEW start \in Int
    PROVE  NextRun(timing, start, z, after) \in Nat /\ NextRun(timing, start, z, after) > after
<1> DEFINE p == timing.period
           gone == after - start
<1>1. p \in Nat /\ p > 0 /\ timing.time \in 0..(Day - 1) /\ gone \in Int
  BY SchedulesAssumption
<1>2. CASE timing.cadence = "daily"
  BY <1>1, <1>2, DailyIsLater DEF NextRun
<1>3. CASE timing.cadence # "daily" /\ start > after
  BY <1>3 DEF NextRun
<1>4. CASE timing.cadence # "daily" /\ ~(start > after)
  <2> DEFINE q == gone \div p
  <2>1. NextRun(timing, start, z, after) = start + (q + 1) * p
    BY <1>4 DEF NextRun
  <2>2. q \in Int /\ gone < (q + 1) * p /\ (q + 1) * p \in Int
    <3> HIDE DEF p, gone
    <3> QED BY <1>1
  <2> HIDE DEF q, p
  <2> QED BY <2>1, <2>2
<1> QED BY <1>2, <1>3, <1>4

-----------------------------------------------------------------------------
\* The invariant: a schedule that is on has an occurrence, and the one being moved on is queued.

ScheduleRow == [there : BOOLEAN, timing : Timings, anchor : Int, on : BOOLEAN, next : Int,
                revision : Nat, error : BOOLEAN]
SchedRows ==
    /\ clock \in Nat /\ zone \in ZoneChoices
    /\ rows \in [Schedule -> ScheduleRow]
    /\ \E B : batches \in Seq(B)
OnHasNext == \A s \in Schedule : rows[s].on => rows[s].next \in Nat
QueueingIsQueued == queueing => due # <<>> /\ Queued
SchedInv == SchedRows /\ OnHasNext /\ QueueingIsQueued /\ OccurrenceOnce

LEMMA NoScheduleRow == NoSchedule \in ScheduleRow /\ ~NoSchedule.on
<1>1. (CHOOSE t \in Timings : TRUE) \in Timings
  BY SchedulesAssumption
<1> QED BY <1>1 DEF NoSchedule, ScheduleRow, Never

LEMMA SchedRowsOf ==
    ASSUME SchedInv
    PROVE  /\ clock \in Nat /\ zone \in ZoneChoices /\ IsZone(zone)
           /\ rows \in [Schedule -> ScheduleRow]
           /\ \A s \in Schedule : /\ rows[s] \in ScheduleRow /\ rows[s].timing \in Timings
                                  /\ rows[s].anchor \in Int /\ rows[s].revision \in Nat
  BY SchedulesAssumption DEF SchedInv, SchedRows, ScheduleRow

LEMMA SchedInvInit == SchedInit => SchedInv
<1> SUFFICES ASSUME SchedInit PROVE SchedInv
  OBVIOUS
<1>1. <<>> \in Seq({})
  OBVIOUS
<1>2. SchedRows
  BY <1>1, DaysAreThere, NoScheduleRow DEF SchedInit, SchedRows
<1>3. OnHasNext /\ QueueingIsQueued /\ OccurrenceOnce
  BY NoScheduleRow DEF SchedInit, OnHasNext, QueueingIsQueued, OccurrenceOnce
<1> QED BY <1>2, <1>3 DEF SchedInv

\* A step that queues nothing: it leaves the rows to whoever moves one on, or holds the lock
\* for itself, and then nothing is between queued and moved on.
LEMMA CalmStepKeepsInv ==
    ASSUME SchedInv, clock' \in Nat, zone' \in ZoneChoices, rows' \in [Schedule -> ScheduleRow],
           OnHasNext', UNCHANGED batches,
           queueing' = FALSE \/ UNCHANGED <<rows, due, queueing>>
    PROVE  SchedInv'
  BY DEF SchedInv, SchedRows, QueueingIsQueued, OccurrenceOnce, Queued, Occurrence, Row

LEMMA UnlockedIsCalm == SchedInv /\ Unlocked => ~queueing
  BY DEF SchedInv, QueueingIsQueued, Unlocked

\* Every edit of the schedules: it holds the lock.
LEMMA EditKeepsInv ==
    ASSUME SchedInv, Edits, zone' \in ZoneChoices, rows' \in [Schedule -> ScheduleRow], OnHasNext'
    PROVE  SchedInv'
<1>2. ~queueing' /\ UNCHANGED <<clock, batches, queueing>>
  BY UnlockedIsCalm DEF Edits
<1>3. SchedRows' /\ QueueingIsQueued' /\ OccurrenceOnce'
  BY <1>2 DEF SchedInv, SchedRows, QueueingIsQueued, OccurrenceOnce
<1> QED BY <1>3 DEF SchedInv

LEMMA SaveKeepsInv ==
    ASSUME SchedInv, NEW s \in Schedule, NEW timing \in Timings, NEW isOn \in BOOLEAN,
           SaveSchedule(s, timing, isOn)
    PROVE  SchedInv'
<1> DEFINE old == rows[s]
           same == old.there /\ old.timing = timing
           start == IF same THEN old.anchor ELSE Anchor(timing.time, zone, clock)
           next == IF ~isOn THEN Never
                   ELSE IF same /\ old.on /\ old.next # Never THEN old.next
                   ELSE NextRun(timing, start, zone, clock)
           entry == [there |-> TRUE, timing |-> timing, anchor |-> start, on |-> isOn,
                   next |-> next, revision |-> old.revision + 1, error |-> FALSE]
<1>1. old \in ScheduleRow
  BY SchedRowsOf
<1>2. start \in Int
  <2>1. Anchor(timing.time, zone, clock) \in Int
    BY SchedRowsOf, SchedulesAssumption, AnchorIsInt
  <2> QED BY <1>1, <2>1 DEF ScheduleRow
<1>3. next \in Int /\ (isOn => next \in Nat)
  <2>1. NextRun(timing, start, zone, clock) \in Nat
    BY <1>2, SchedRowsOf, NextIsLater
  <2>2. old.on => old.next \in Nat
    BY DEF SchedInv, OnHasNext
  <2> HIDE DEF start, same
  <2> QED BY <2>1, <2>2 DEF Never
<1>4. rows' = [rows EXCEPT ![s] = entry] /\ zone' = zone /\ Edits
  BY DEF SaveSchedule
<1> HIDE DEF start, next
<1>5. entry \in ScheduleRow /\ entry.on = isOn /\ entry.next = next
  BY <1>1, <1>2, <1>3 DEF ScheduleRow
<1> HIDE DEF entry
<1>6. rows' \in [Schedule -> ScheduleRow] /\ OnHasNext'
  BY <1>3, <1>4, <1>5, SchedRowsOf DEF OnHasNext, SchedInv
<1> QED BY <1>4, <1>6, SchedRowsOf, EditKeepsInv

LEMMA DeleteKeepsInv ==
    ASSUME SchedInv, NEW s \in Schedule, DeleteSchedule(s)
    PROVE  SchedInv'
<1> DEFINE entry == [NoSchedule EXCEPT !.revision = rows[s].revision]
<1>1. entry \in ScheduleRow /\ ~entry.on
  BY SchedRowsOf, NoScheduleRow DEF ScheduleRow
<1>2. rows' = [rows EXCEPT ![s] = entry] /\ zone' = zone /\ Edits
  BY DEF DeleteSchedule
<1> HIDE DEF entry
<1>3. rows' \in [Schedule -> ScheduleRow] /\ OnHasNext'
  BY <1>1, <1>2, SchedRowsOf DEF OnHasNext, SchedInv
<1> QED BY <1>2, <1>3, SchedRowsOf, EditKeepsInv

LEMMA DisconnectKeepsInv == ASSUME SchedInv, Disconnect PROVE SchedInv'
<1> DEFINE Off(s) == [rows[s] EXCEPT !.on = FALSE, !.next = Never, !.error = FALSE,
                                     !.revision = rows[s].revision + 1]
<1>1. \A s \in Schedule : Off(s) \in ScheduleRow /\ ~Off(s).on
  <2> TAKE s \in Schedule
  <2>1. rows[s] \in ScheduleRow /\ rows[s].revision + 1 \in Nat /\ Never \in Int
    BY SchedRowsOf DEF Never
  <2> QED BY <2>1 DEF ScheduleRow
<1>2. rows' = [s \in Schedule |-> IF s \in On THEN Off(s) ELSE rows[s]] /\ zone' = zone /\ Edits
  BY DEF Disconnect
<1> HIDE DEF Off
<1>3. rows' \in [Schedule -> ScheduleRow] /\ OnHasNext'
  BY <1>1, <1>2, SchedRowsOf DEF OnHasNext, SchedInv
<1> QED BY <1>2, <1>3, SchedRowsOf, EditKeepsInv

\* In another zone, or after a pause, every schedule that is on has its next occurrence.
LEMMA RetimedRows ==
    ASSUME SchedInv, NEW where \in ZoneChoices, Retimed(where)
    PROVE  /\ rows' \in [Schedule -> ScheduleRow] /\ OnHasNext'
           /\ \A s \in Schedule : rows[s].there => rows'[s].revision = rows[s].revision + 1
           /\ \A s \in Schedule : ~rows[s].there => rows'[s] = rows[s]
<1> DEFINE FirstAt(s) == Anchor(rows[s].timing.time, where, clock)
           Next(s) == IF rows[s].on THEN NextRun(rows[s].timing, FirstAt(s), where, clock) ELSE Never
           New(s) == [rows[s] EXCEPT !.anchor = FirstAt(s), !.error = FALSE,
                                     !.revision = rows[s].revision + 1, !.next = Next(s)]
<1>1. \A s \in Schedule : FirstAt(s) \in Int
  BY SchedRowsOf, SchedulesAssumption, AnchorIsInt
<1>2. \A s \in Schedule : Next(s) \in Int /\ (rows[s].on => Next(s) \in Nat)
  <2> TAKE s \in Schedule
  <2>1. NextRun(rows[s].timing, FirstAt(s), where, clock) \in Nat
    BY <1>1, SchedRowsOf, SchedulesAssumption, NextIsLater
  <2> QED BY <2>1 DEF Never
<1>3. rows' = [s \in Schedule |-> IF ~rows[s].there THEN rows[s] ELSE New(s)]
  BY DEF Retimed
<1> HIDE DEF FirstAt, Next
<1>4. \A s \in Schedule : /\ New(s) \in ScheduleRow /\ New(s).on = rows[s].on
                          /\ New(s).next = Next(s) /\ New(s).revision = rows[s].revision + 1
  <2> TAKE s \in Schedule
  <2>1. rows[s] \in ScheduleRow /\ rows[s].revision + 1 \in Nat
    BY SchedRowsOf
  <2> QED BY <1>1, <1>2, <2>1 DEF ScheduleRow
<1> HIDE DEF New
<1>5. rows' \in [Schedule -> ScheduleRow]
  BY <1>3, <1>4, SchedRowsOf
<1>6. OnHasNext'
  BY <1>2, <1>3, <1>4 DEF OnHasNext, SchedInv
<1> QED BY <1>3, <1>4, <1>5, <1>6

LEMMA QueueKeepsInv == ASSUME SchedInv, QueueOccurrence PROVE SchedInv'
<1>1. /\ UNCHANGED <<clock, table, due>> /\ due # <<>>
      /\ \/ Queued /\ UNCHANGED batches
         \/ ~Queued /\ batches' = Append(batches, Occurrence)
  BY DEF QueueOccurrence, Unlocked
<1>2. UNCHANGED <<zone, rows>> /\ Occurrence' = Occurrence
  BY <1>1 DEF table, Occurrence, Row
<1>3. CASE Queued /\ UNCHANGED batches
  BY <1>1, <1>2, <1>3 DEF SchedInv, SchedRows, OnHasNext, QueueingIsQueued, Queued, OccurrenceOnce
<1>4. CASE ~Queued /\ batches' = Append(batches, Occurrence)
  <2> DEFINE n == Len(batches) + 1
  <2>1. PICK B : batches \in Seq(B)
    BY DEF SchedInv, SchedRows
  <2>2. batches \in Seq(B \cup {Occurrence}) /\ batches' \in Seq(B \cup {Occurrence})
    BY <1>4, <2>1
  <2>3. /\ DOMAIN batches' = 1..n /\ DOMAIN batches = 1..(n - 1) /\ n \in Nat \ {0}
        /\ batches'[n] = Occurrence /\ \A i \in 1..(n - 1) : batches'[i] = batches[i]
    BY <1>4, <2>1
  <2> HIDE DEF n
  <2>4. OccurrenceOnce'
    <3>1. \A i \in 1..(n - 1) : batches[i] # Occurrence
      BY <1>4, <2>3 DEF Queued
    <3>2. \A i \in 1..n : i = n \/ i \in 1..(n - 1)
      BY <2>3
    <3> QED BY <2>3, <3>1, <3>2 DEF OccurrenceOnce, SchedInv
  <2>5. Queued'
    BY <1>2, <2>3 DEF Queued
  <2>6. SchedRows'
    BY <1>1, <1>2, <2>2 DEF SchedRows, SchedInv
  <2> QED BY <1>1, <1>2, <2>4, <2>5, <2>6 DEF SchedInv, OnHasNext, QueueingIsQueued
<1> QED BY <1>1, <1>3, <1>4

\* A row put where the scheduler is: its occurrence may have moved on.
LEMMA RowPut ==
    ASSUME SchedInv, NEW next \in Int, rows[Row].next \in Nat => next \in Nat, NEW error \in BOOLEAN,
           NEW table2, table2 = [rows EXCEPT ![Row].next = next, ![Row].error = error]
    PROVE  /\ table2 \in [Schedule -> ScheduleRow]
           /\ \A s \in Schedule : table2[s].on => table2[s].next \in Nat
           /\ \A s \in Schedule : s # Row => table2[s] = rows[s]
           /\ Row \in Schedule => table2[Row].next = next
<1>1. CASE Row \in Schedule
  <2> DEFINE entry == [rows[Row] EXCEPT !.next = next, !.error = error]
  <2>1. rows[Row] \in ScheduleRow
    BY <1>1, SchedRowsOf
  <2>2. entry \in ScheduleRow /\ entry.on = rows[Row].on /\ entry.next = next
    BY <2>1 DEF ScheduleRow
  <2>3. table2 = [rows EXCEPT ![Row] = entry]
    BY <1>1, SchedRowsOf
  <2> HIDE DEF entry
  <2> QED BY <1>1, <2>2, <2>3, SchedRowsOf DEF SchedInv, OnHasNext
<1>2. CASE Row \notin Schedule
  <2>1. table2 = rows
    BY <1>2, SchedRowsOf
  <2> QED BY <1>2, <2>1, SchedRowsOf DEF SchedInv, OnHasNext
<1> QED BY <1>1, <1>2

LEMMA MoveOnKeepsInv == ASSUME SchedInv, MoveOn PROVE SchedInv'
<1> DEFINE next == IF queueing \/ rows[Row].next = Never
                   THEN NextRun(rows[Row].timing, rows[Row].anchor, zone, clock)
                   ELSE rows[Row].next
<1>1. /\ rows' = [rows EXCEPT ![Row].next = next, ![Row].error = FALSE]
      /\ queueing' = FALSE /\ UNCHANGED <<clock, zone, batches>>
  BY DEF MoveOn
<1>2. CASE Row \in Schedule
  <2>1. next \in Int /\ (rows[Row].next \in Nat => next \in Nat)
    <3>1. NextRun(rows[Row].timing, rows[Row].anchor, zone, clock) \in Nat
      BY <1>2, SchedRowsOf, NextIsLater
    <3>2. rows[Row].next \in Int
      BY <1>2, SchedRowsOf DEF ScheduleRow
    <3> QED BY <3>1, <3>2
  <2> HIDE DEF next
  <2>2. rows' \in [Schedule -> ScheduleRow] /\ OnHasNext'
    BY <1>1, <2>1, RowPut DEF OnHasNext
  <2> QED BY <1>1, <2>2, SchedRowsOf, CalmStepKeepsInv
<1>3. CASE Row \notin Schedule
  <2>1. rows' = rows
    BY <1>1, <1>3, SchedRowsOf
  <2> QED BY <1>1, <2>1, SchedRowsOf, CalmStepKeepsInv DEF OnHasNext, SchedInv
<1> QED BY <1>2, <1>3

LEMMA RefuseKeepsInv == ASSUME SchedInv, RefuseRow PROVE SchedInv'
<1>1. /\ rows' = [rows EXCEPT ![Row].error = TRUE]
      /\ ~queueing /\ UNCHANGED <<clock, zone, batches, queueing>>
  BY DEF RefuseRow
<1>2. rows' \in [Schedule -> ScheduleRow] /\ OnHasNext'
  BY <1>1, SchedRowsOf DEF OnHasNext, SchedInv, ScheduleRow
<1>3. SchedRows' /\ QueueingIsQueued' /\ OccurrenceOnce'
  BY <1>1, <1>2 DEF SchedInv, SchedRows, QueueingIsQueued, OccurrenceOnce
<1> QED BY <1>2, <1>3 DEF SchedInv

LEMMA OwnerEditsKeepInv == ASSUME SchedInv, OwnerEdits PROVE SchedInv'
<1>1. CASE Disconnect
  BY <1>1, DisconnectKeepsInv
<1>2. CASE Connect
  BY <1>2, SchedRowsOf, EditKeepsInv DEF Connect, OnHasNext, SchedInv
<1>3. CASE UpdateZone
  BY <1>3, RetimedRows, EditKeepsInv DEF UpdateZone
<1>4. CASE StopInUpdateZone
  BY <1>4, SchedRowsOf, CalmStepKeepsInv DEF StopInUpdateZone, OnHasNext, SchedInv
<1>5. CASE Suspend
  BY <1>5, SchedRowsOf, EditKeepsInv DEF Suspend, OnHasNext, SchedInv
<1>6. CASE Resume
  <2>1. CASE UNCHANGED rows
    BY <1>6, <2>1, SchedRowsOf, EditKeepsInv DEF Resume, OnHasNext, SchedInv
  <2>2. CASE Retimed(zone)
    BY <1>6, <2>2, SchedRowsOf, RetimedRows, EditKeepsInv DEF Resume
  <2> QED BY <1>6, <2>1, <2>2 DEF Resume
<1> QED BY <1>1, <1>2, <1>3, <1>4, <1>5, <1>6 DEF OwnerEdits

LEMMA SchedInvNext == SchedInv /\ [SchedNext]_schedVars => SchedInv'
<1> SUFFICES ASSUME SchedInv, [SchedNext]_schedVars PROVE SchedInv'
  OBVIOUS
<1>1. CASE Members
  BY <1>1, SaveKeepsInv, DeleteKeepsInv DEF Members
<1>2. CASE OwnerEdits
  BY <1>2, OwnerEditsKeepInv
<1>3. CASE QueueOccurrence
  BY <1>3, QueueKeepsInv
<1>4. CASE MoveOn
  BY <1>4, MoveOnKeepsInv
<1>5. CASE RefuseRow
  BY <1>5, RefuseKeepsInv
<1>6. ASSUME RefreshDeadline \/ TakeDue \/ StopScheduler \/ Pass \/ JobsEnd \/ RequestCollection
             \/ UNCHANGED schedVars
      PROVE  SchedInv'
  <2>1. UNCHANGED <<zone, rows, batches>> /\ clock' \in Nat
    BY <1>6, SchedRowsOf DEF RefreshDeadline, TakeDue, StopScheduler, Pass, JobsEnd,
       RequestCollection, schedVars, table
  <2>2. queueing' = FALSE \/ UNCHANGED <<rows, due, queueing>>
    <3>1. CASE TakeDue
      <4>1. ~queueing /\ ~queueing'
        BY <3>1, UnlockedIsCalm DEF TakeDue
      <4>2. SchedRows' /\ QueueingIsQueued'
        BY <2>1, <4>1 DEF SchedInv, SchedRows, QueueingIsQueued
      <4> QED BY <3>1, <4>1 DEF TakeDue
    <3>2. CASE ~TakeDue
      BY <1>6, <3>2 DEF RefreshDeadline, StopScheduler, Pass, JobsEnd, RequestCollection,
         schedVars, table, memory
    <3> QED BY <3>1, <3>2
  <2>3. OnHasNext'
    BY <2>1 DEF OnHasNext, SchedInv
  <2> QED BY <2>1, <2>2, <2>3, SchedRowsOf, CalmStepKeepsInv
<1> QED BY <1>1, <1>2, <1>3, <1>4, <1>5, <1>6 DEF SchedNext, SchedulerSteps

\* The inductive invariant of the schedules: an enabled schedule has its next occurrence, and the
\* batches it has had are of its occurrences up to the one it stands at.
THEOREM SchedInvHolds == SchedSpec => []SchedInv
<1> QED BY SchedInvInit, SchedInvNext, PTL DEF SchedSpec

\* No occurrence of a schedule is collected twice, however often the process stops between the
\* commit of its batch and that of the schedule (scheduler.rs schedule_due, enqueue_schedule).
THEOREM NoOccurrenceTwice == SchedSpec => []OccurrenceOnce
<1>1. SchedInv => OccurrenceOnce
  BY DEF SchedInv
<1> QED BY <1>1, SchedInvHolds, PTL

LEMMA NoneSkippedStep ==
    ASSUME SchedInv, SchedNext, NEW s \in Schedule
    PROVE  MovesOnWhenQueued(s)
<1> SUFFICES ASSUME rows[s].on, rows'[s].on, rows'[s].revision = rows[s].revision,
                    rows'[s].next # rows[s].next
             PROVE  \E i \in DOMAIN batches' : batches'[i] = <<s, rows[s].next>>
  BY DEF MovesOnWhenQueued
<1>1. rows[s] \in ScheduleRow /\ rows[s].revision \in Nat /\ rows[s].next \in Nat
  BY SchedRowsOf DEF SchedInv, OnHasNext
<1>2. ~Members
  <2>1. ASSUME NEW t \in Schedule, NEW timing \in Timings, NEW isOn \in BOOLEAN,
               SaveSchedule(t, timing, isOn)
        PROVE  FALSE
    <3>1. rows'[t].revision = rows[t].revision + 1 /\ \A r \in Schedule \ {t} : rows'[r] = rows[r]
      BY <2>1, SchedRowsOf DEF SaveSchedule
    <3> QED BY <1>1, <3>1
  <2>2. ASSUME NEW t \in Schedule, DeleteSchedule(t) PROVE FALSE
    <3> DEFINE entry == [NoSchedule EXCEPT !.revision = rows[t].revision]
    <3>1. rows' = [rows EXCEPT ![t] = entry]
      BY <2>2 DEF DeleteSchedule
    <3>2. ~entry.on
      BY NoScheduleRow DEF ScheduleRow
    <3> HIDE DEF entry
    <3> QED BY <3>1, <3>2, SchedRowsOf
  <2> QED BY <2>1, <2>2 DEF Members
<1>3. ~OwnerEdits
  <2>1. ~Disconnect
    <3> SUFFICES ASSUME Disconnect PROVE FALSE
      OBVIOUS
    <3> DEFINE Off == [rows[s] EXCEPT !.on = FALSE, !.next = Never, !.error = FALSE,
                                      !.revision = rows[s].revision + 1]
    <3>1. rows'[s] = Off \/ rows'[s] = rows[s]
      BY DEF Disconnect
    <3>2. ~Off.on
      BY <1>1 DEF ScheduleRow
    <3> HIDE DEF Off
    <3> QED BY <3>1, <3>2
  <2>2. \A where \in ZoneChoices : ~Retimed(where)
    <3> SUFFICES ASSUME NEW where \in ZoneChoices, Retimed(where) PROVE FALSE
      OBVIOUS
    <3>1. rows'[s] = rows[s] \/ rows'[s].revision = rows[s].revision + 1
      BY RetimedRows
    <3> QED BY <1>1, <3>1
  <2>3. rows' # rows
    OBVIOUS
  <2> QED BY <2>1, <2>2, <2>3, SchedRowsOf
          DEF OwnerEdits, Connect, UpdateZone, StopInUpdateZone, Suspend, Resume
<1>4. ~RefuseRow
  BY <1>1, SchedRowsOf DEF RefuseRow, ScheduleRow
<1>5. MoveOn
  BY <1>2, <1>3, <1>4 DEF SchedNext, SchedulerSteps, RefreshDeadline, TakeDue, QueueOccurrence,
     StopScheduler, Pass, JobsEnd, RequestCollection, table
<1>6. Row = s /\ queueing
  <2> DEFINE next == IF queueing \/ rows[Row].next = Never
                     THEN NextRun(rows[Row].timing, rows[Row].anchor, zone, clock)
                     ELSE rows[Row].next
  <2>1. rows' = [rows EXCEPT ![Row].next = next, ![Row].error = FALSE]
    BY <1>5 DEF MoveOn
  <2>2. Row = s
    <3> HIDE DEF next
    <3> QED BY <2>1, SchedRowsOf
  <2>3. rows[Row].next # Never
    BY <1>1, <2>2 DEF Never
  <2>4. ~queueing => next = rows[s].next
    BY <2>2, <2>3
  <2>5. rows'[s].next = next
    <3> HIDE DEF next
    <3> QED BY <1>1, <2>1, <2>2, SchedRowsOf DEF ScheduleRow
  <2> QED BY <2>2, <2>4, <2>5
<1>7. \E i \in DOMAIN batches : batches[i] = <<s, rows[s].next>>
  BY <1>6 DEF SchedInv, QueueingIsQueued, Queued, Occurrence
<1> QED BY <1>5, <1>7 DEF MoveOn

\* A schedule that nobody edits moves on from an occurrence only when that occurrence's batch is
\* in the queue, whatever the scheduler was refused and wherever the process stopped
\* (scheduler.rs schedule_due).
THEOREM NoOccurrenceSkipped == SchedSpec => NoneIsSkipped
<1>1. SchedInv /\ [SchedNext]_schedVars => [\A s \in Schedule : MovesOnWhenQueued(s)]_schedVars
  BY NoneSkippedStep
<1> QED BY <1>1, SchedInvHolds, PTL DEF SchedSpec, NoneIsSkipped

-----------------------------------------------------------------------------
(***************************************************************************)
(* For any number of employees and lanes, attempts, kills and writes that  *)
(* arrive late: what is published was read under one roster, and a page is *)
(* taken from a response only where an attempt has seen a response agree   *)
(* with its page.                                                          *)
(*                                                                         *)
(* A checkpoint's token stands for the roster its pages were read under,   *)
(* in the table, in the attempt and in what is still written for an        *)
(* attempt that is gone (Tokens); the attempt's memory is of its own       *)
(* roster (Memory).                                                        *)
(***************************************************************************)

Phases == {"none", "roster", "proving", "reading", "http"}
Codes == {"none", "provider_response_mismatch", "provider_timeout", "authentication_failed", "job_cancelled"}
PageRow == [by : {"none", "page", "response"}, of : Nat, proven : BOOLEAN]
EmployeePages == [Employee -> PageRow]
RunRow == [phase : Phases, roster : Nat, token : Nat, pages : EmployeePages, todo : SUBSET Employee,
           sample : SUBSET Employee, direct : {"unknown", "verifying", "enabled", "disabled"},
           matched : BOOLEAN, differed : BOOLEAN, stopped : BOOLEAN]
LaneRow == [at : {"idle", "read", "verify", "spot", "save", "failed"}, e : Nat, direct : BOOLEAN,
            page : PageRow, code : Codes]
Writes == [token : Nat, e : Nat, page : PageRow]

ReadingType ==
    /\ roster \in Nat /\ job \in {"queued", "running", "succeeded", "failed", "cancelled"}
    /\ row \in [token : Nat, print : Nat, fresh : BOOLEAN] /\ saved \in EmployeePages
    /\ live \in [token : Nat, pages : EmployeePages]
    /\ run \in RunRow /\ lanes \in [Lane -> LaneRow] /\ late \subseteq Writes
    /\ published \in EmployeePages /\ tokens \in Nat

\* A page that was read under roster r; from a response only where one had been proven.
PageOf(page, r) == page.of = r /\ (page.by = "response" => page.proven)
PagesOf(pages, r) == \A e \in Employee : pages[e] = NoPage \/ PageOf(pages[e], r)

\* The attempt reads timecards.
Underway == run.phase \in {"proving", "reading", "http"}

\* A token stands for one roster, in the checkpoint, in the attempt and in what is still written
\* for one that is gone.
Tokens ==
    /\ row.token <= tokens /\ run.token <= tokens
    /\ row.token = 0 => saved = NoPages
    /\ row.token # 0 => PagesOf(saved, row.print)
    /\ Underway /\ row.token = run.token => run.roster = row.print
    /\ \A w \in late : /\ w.token # 0 /\ w.token <= tokens
                       /\ w.token = row.token => PageOf(w.page, row.print)
                       /\ Underway /\ w.token = run.token => PageOf(w.page, run.roster)

\* What the attempt has in memory, and what is shown of it.
Memory ==
    /\ Underway => run.token # 0 /\ PagesOf(run.pages, run.roster)
    /\ ~Underway => run.pages = NoPages /\ \A l \in Lane : lanes[l] = IdleLane
    /\ \A l \in Lane : lanes[l].at = "save" => PageOf(lanes[l].page, run.roster)
    /\ Holds => run.phase # "none"
    /\ Holds /\ Underway => live.token = run.token /\ PagesOf(live.pages, run.roster)

\* Responses are read where the attempt has seen one agree.
Agreed ==
    /\ run.direct = "enabled" => run.matched
    /\ \A l \in Lane : lanes[l].direct => run.matched
    /\ run.phase = "http" => run.matched /\ ~run.differed

OnePublication == \E r \in Nat : PagesOf(published, r)

ReadingInv == ReadingType /\ Tokens /\ Memory /\ Agreed /\ OnePublication

-----------------------------------------------------------------------------
\* A set of naturals has a least member.
LEMMA LeastIsThere ==
    ASSUME NEW S, S \subseteq Nat, S # {}
    PROVE  (CHOOSE x \in S : \A o \in S : x <= o) \in S
<1> DEFINE less == OpToRel(<, Nat)
<1>1. IsWellFoundedOn(less, Nat)
  BY NatLessThanWellFounded
<1> HIDE DEF less
<1>2. \E x \in S : \A o \in S : ~ (<<o, x>> \in less)
  BY <1>1, WFMin, Zenon
<1>3. PICK x \in S : \A o \in S : ~ (<<o, x>> \in less)
  BY <1>2
<1>4. \A o \in S : ~(o < x)
  BY <1>3 DEF less, OpToRel
<1>5. \A o \in S : x <= o
  BY <1>4
<1> QED BY <1>5

LEMMA NoPageIsNone == NoPage \in PageRow /\ NoPages \in EmployeePages /\ \A r : PagesOf(NoPages, r)
  BY DEF NoPage, PageRow, NoPages, EmployeePages, PagesOf

LEMMA IdleLaneIsIdle ==
    /\ IdleLane \in LaneRow /\ IdleLane.at = "idle" /\ IdleLane.direct = FALSE
    /\ [l \in Lane |-> IdleLane] \in [Lane -> LaneRow]
  BY NoPageIsNone DEF IdleLane, LaneRow, Codes

LEMMA NoRunIsNone ==
    /\ NoRun \in RunRow /\ NoRun.phase = "none" /\ NoRun.pages = NoPages /\ NoRun.token = 0
    /\ NoRun.direct = "disabled" /\ NoRun.roster = 0 /\ NoRun.matched = FALSE /\ NoRun.differed = FALSE
  BY NoPageIsNone DEF NoRun, RunRow, Phases

LEMMA NoRowNoLive ==
    /\ NoRow \in [token : Nat, print : Nat, fresh : BOOLEAN] /\ NoRow.token = 0
    /\ NoLive \in [token : Nat, pages : EmployeePages]
  BY NoPageIsNone DEF NoRow, NoLive

\* A page that was put with others of its roster.
LEMMA OneMorePage ==
    ASSUME NEW pages \in EmployeePages, NEW page \in PageRow, NEW e, NEW r, PagesOf(pages, r), PageOf(page, r)
    PROVE  [pages EXCEPT ![e] = page] \in EmployeePages /\ PagesOf([pages EXCEPT ![e] = page], r)
  BY DEF EmployeePages, PagesOf

LEMMA PageByIsOf ==
    ASSUME ReadingType, NEW how \in {"page", "response"}, NEW proven \in BOOLEAN, how = "response" => proven
    PROVE  PageBy(how, proven) \in PageRow /\ PageOf(PageBy(how, proven), run.roster)
<1>1. run.roster \in Nat
  BY DEF ReadingType, RunRow
<1> QED BY <1>1 DEF PageBy, PageOf, PageRow

\* One lane goes on.
LEMMA LaneSaves ==
    ASSUME ReadingType, NEW l \in Lane, NEW page \in PageRow, With(l, page)
    PROVE  /\ lanes' \in [Lane -> LaneRow] /\ lanes'[l].at = "save" /\ lanes'[l].page = page
           /\ lanes'[l].direct = lanes[l].direct /\ \A o \in Lane \ {l} : lanes'[o] = lanes[o]
<1> DEFINE lane == [lanes[l] EXCEPT !.at = "save", !.page = page]
<1>1. lane \in LaneRow /\ lane.at = "save" /\ lane.page = page /\ lane.direct = lanes[l].direct
  BY DEF ReadingType, LaneRow
<1>2. lanes' = [lanes EXCEPT ![l] = lane]
  BY DEF With, ReadingType
<1> HIDE DEF lane
<1> QED BY <1>1, <1>2 DEF ReadingType

LEMMA LaneFails ==
    ASSUME ReadingType, NEW l \in Lane, NEW code \in Codes, Fails(l, code)
    PROVE  /\ lanes' \in [Lane -> LaneRow] /\ lanes'[l].at = "failed"
           /\ lanes'[l].direct = lanes[l].direct /\ \A o \in Lane \ {l} : lanes'[o] = lanes[o]
<1> DEFINE lane == [lanes[l] EXCEPT !.at = "failed", !.code = code]
<1>1. lane \in LaneRow /\ lane.at = "failed" /\ lane.direct = lanes[l].direct
  BY DEF ReadingType, LaneRow
<1>2. lanes' = [lanes EXCEPT ![l] = lane]
  BY DEF Fails, ReadingType
<1> HIDE DEF lane
<1> QED BY <1>1, <1>2 DEF ReadingType

LEMMA LaneMoves ==
    ASSUME ReadingType, NEW l \in Lane, NEW where \in {"verify", "spot"},
           lanes' = [lanes EXCEPT ![l].at = where]
    PROVE  /\ lanes' \in [Lane -> LaneRow] /\ lanes'[l].at = where
           /\ lanes'[l].direct = lanes[l].direct /\ \A o \in Lane \ {l} : lanes'[o] = lanes[o]
<1> DEFINE lane == [lanes[l] EXCEPT !.at = where]
<1>1. lane \in LaneRow /\ lane.at = where /\ lane.direct = lanes[l].direct
  BY DEF ReadingType, LaneRow
<1>2. lanes' = [lanes EXCEPT ![l] = lane]
  BY DEF ReadingType
<1> HIDE DEF lane
<1> QED BY <1>1, <1>2 DEF ReadingType

LEMMA LaneRenders ==
    ASSUME ReadingType, NEW l \in Lane, lanes' = [lanes EXCEPT ![l].direct = FALSE]
    PROVE  /\ lanes' \in [Lane -> LaneRow] /\ lanes'[l].at = lanes[l].at
           /\ lanes'[l].direct = FALSE /\ \A o \in Lane \ {l} : lanes'[o] = lanes[o]
<1> DEFINE lane == [lanes[l] EXCEPT !.direct = FALSE]
<1>1. lane \in LaneRow /\ lane.at = lanes[l].at /\ lane.direct = FALSE
  BY DEF ReadingType, LaneRow
<1>2. lanes' = [lanes EXCEPT ![l] = lane]
  BY DEF ReadingType
<1> HIDE DEF lane
<1> QED BY <1>1, <1>2 DEF ReadingType

-----------------------------------------------------------------------------
\* While timecards are read only the lanes and what the comparisons said move.
SameReading == /\ run' \in RunRow /\ run'.phase = run.phase /\ run'.roster = run.roster
               /\ run'.token = run.token /\ run'.pages = run.pages

LEMMA ReadingKeepsInv ==
    ASSUME ReadingInv, ReadingFrame, Underway, SameReading, lanes' \in [Lane -> LaneRow],
           run.matched => run'.matched,
           run'.direct = "enabled" => run'.matched,
           run'.phase = "http" => run'.differed = run.differed,
           \A l \in Lane : /\ lanes'[l].at = "save" => PageOf(lanes'[l].page, run.roster)
                           /\ lanes'[l].direct => run'.matched
    PROVE  ReadingInv'
<1> USE DEF ReadingInv, ReadingFrame
<1>1. ReadingType'
  BY DEF ReadingType, SameReading
<1>2. Underway' /\ (Holds' <=> Holds)
  BY DEF Underway, SameReading, Holds
<1>3. Tokens'
  BY <1>2 DEF Tokens, SameReading
<1>4. Memory'
  BY <1>2 DEF Memory, SameReading
<1>5. Agreed'
  BY DEF Agreed, SameReading
<1>6. OnePublication'
  BY DEF OnePublication
<1> QED BY <1>1, <1>3, <1>4, <1>5, <1>6

\* A lane that does anything is of an attempt that reads.
LEMMA BusyIsUnderway ==
    ASSUME ReadingInv, NEW l \in Lane, lanes[l].at # "idle"
    PROVE  Underway
  BY IdleLaneIsIdle DEF ReadingInv, Memory

LEMMA OneLane ==
    ASSUME ReadingInv, ReadingFrame, Underway, SameReading, NEW l \in Lane,
           lanes' \in [Lane -> LaneRow], \A o \in Lane \ {l} : lanes'[o] = lanes[o],
           lanes'[l].at = "save" => PageOf(lanes'[l].page, run.roster),
           lanes'[l].direct => lanes[l].direct,
           run.matched => run'.matched,
           run'.direct = "enabled" => run'.matched,
           run'.phase = "http" => run'.differed = run.differed
    PROVE  ReadingInv'
<1>1. \A o \in Lane : /\ lanes'[o].at = "save" => PageOf(lanes'[o].page, run.roster)
                      /\ lanes'[o].direct => run'.matched
  BY DEF ReadingInv, Memory, Agreed
<1> QED BY <1>1, ReadingKeepsInv

LEMMA SameRun == ASSUME ReadingInv, UNCHANGED run
                 PROVE  SameReading /\ (run'.direct = "enabled" => run'.matched)
  BY DEF ReadingInv, ReadingType, SameReading, Agreed

LEMMA RenderKeepsInv == ASSUME ReadingInv, NEW l \in Lane, Render(l) PROVE ReadingInv'
<1>1. Underway /\ run.phase = "reading" /\ ReadingType /\ run \in RunRow /\ run.matched \in BOOLEAN
  BY DEF Render, Underway, ReadingInv, ReadingType, RunRow
<1>2. CASE /\ run' = [run EXCEPT !.direct = "verifying"]
           /\ lanes' = [lanes EXCEPT ![l].at = "verify"]
  <2>1. SameReading /\ run'.matched = run.matched /\ run'.direct = "verifying"
    BY <1>1, <1>2 DEF RunRow, SameReading
  <2> QED BY <1>1, <1>2, <2>1, LaneMoves, OneLane DEF Render, SameReading
<1>3. CASE With(l, PageBy("page", run.matched)) /\ UNCHANGED run
  BY <1>1, <1>3, PageByIsOf, LaneSaves, OneLane, SameRun DEF Render
<1> QED BY <1>2, <1>3 DEF Render

LEMMA VerifyKeepsInv == ASSUME ReadingInv, NEW l \in Lane, Verify(l) PROVE ReadingInv'
<1>1. Underway /\ ReadingType /\ run \in RunRow /\ run.matched \in BOOLEAN /\ ReadingFrame
  BY BusyIsUnderway DEF Verify, ReadingInv, ReadingType, RunRow
<1>2. PICK agrees \in BOOLEAN :
          run' = [run EXCEPT !.direct = IF agrees THEN "enabled" ELSE "disabled",
                             !.matched = run.matched \/ agrees]
  BY DEF Verify
<1>3. /\ SameReading /\ run'.differed = run.differed
      /\ run.matched => run'.matched
      /\ run'.direct = "enabled" => run'.matched
  <2> DEFINE matched == run.matched \/ agrees
             direct == IF agrees THEN "enabled" ELSE "disabled"
  <2>1. run' = [run EXCEPT !.direct = direct, !.matched = matched]
    BY <1>2
  <2>2. matched \in BOOLEAN /\ direct \in {"enabled", "disabled"} /\ (direct = "enabled" => matched)
        /\ (run.matched => matched)
    BY <1>1
  <2> HIDE DEF matched, direct
  <2> QED BY <1>1, <2>1, <2>2 DEF RunRow, SameReading
<1>4. With(l, PageBy("page", run.matched))
  BY DEF Verify
<1> QED BY <1>1, <1>3, <1>4, PageByIsOf, LaneSaves, OneLane

LEMMA ReadResponseKeepsInv == ASSUME ReadingInv, NEW l \in Lane, ReadResponse(l) PROVE ReadingInv'
<1>1. /\ Underway /\ ReadingType /\ ReadingFrame /\ UNCHANGED run /\ lanes[l].direct /\ lanes[l].at = "read"
      /\ run.matched = TRUE
  BY DEF ReadResponse, Underway, ReadingInv, ReadingType, RunRow, Agreed
<1>2. SameReading /\ (run'.direct = "enabled" => run'.matched)
  BY <1>1, SameRun
<1>3. CASE lanes' = [lanes EXCEPT ![l].direct = FALSE]
  BY <1>1, <1>2, <1>3, LaneRenders, OneLane
<1>4. CASE With(l, PageBy("response", run.matched))
  BY <1>1, <1>2, <1>4, PageByIsOf, LaneSaves, OneLane
<1>5. CASE lanes' = [lanes EXCEPT ![l].at = "spot"]
  BY <1>1, <1>2, <1>5, LaneMoves, OneLane
<1> QED BY <1>3, <1>4, <1>5 DEF ReadResponse

LEMMA SpotCheckKeepsInv == ASSUME ReadingInv, NEW l \in Lane, SpotCheck(l) PROVE ReadingInv'
<1>1. Underway /\ ReadingType /\ run \in RunRow /\ run.matched \in BOOLEAN /\ ReadingFrame
  BY BusyIsUnderway DEF SpotCheck, ReadingInv, ReadingType, RunRow
<1>2. CASE Fails(l, "provider_response_mismatch") /\ run' = [run EXCEPT !.stopped = TRUE]
  <2>1. SameReading /\ run'.matched = run.matched /\ run'.direct = run.direct /\ run'.differed = run.differed
    BY <1>1, <1>2 DEF RunRow, SameReading
  <2>2. run'.direct = "enabled" => run'.matched
    BY <2>1 DEF ReadingInv, Agreed
  <2>3. "provider_response_mismatch" \in Codes
    BY DEF Codes
  <2> QED BY <1>1, <1>2, <2>1, <2>2, <2>3, LaneFails, OneLane
<1>3. CASE With(l, PageBy("page", run.matched)) /\ UNCHANGED run
  BY <1>1, <1>3, PageByIsOf, LaneSaves, OneLane, SameRun
<1> QED BY <1>2, <1>3 DEF SpotCheck

LEMMA ProveKeepsInv == ASSUME ReadingInv, NEW l \in Lane, Prove(l) PROVE ReadingInv'
<1>1. Underway /\ ReadingType /\ run \in RunRow /\ run.matched \in BOOLEAN /\ ReadingFrame
      /\ run.phase = "proving" /\ (run.direct = "enabled" => run.matched)
  BY DEF Prove, Underway, ReadingInv, ReadingType, RunRow, Agreed
<1>2. /\ SameReading /\ run'.direct = run.direct /\ (run.matched => run'.matched)
  <2>1. CASE run' = [run EXCEPT !.differed = TRUE]
    BY <1>1, <2>1 DEF RunRow, SameReading
  <2>2. CASE run' = [run EXCEPT !.matched = run.matched \/ lanes[l].e \in worked]
    <3> DEFINE matched == run.matched \/ lanes[l].e \in worked
    <3>1. matched \in BOOLEAN /\ (run.matched => matched)
      BY <1>1
    <3> HIDE DEF matched
    <3> QED BY <1>1, <2>2, <3>1 DEF RunRow, SameReading, matched
  <2> QED BY <2>1, <2>2 DEF Prove
<1>3. With(l, PageBy("page", FALSE))
  BY DEF Prove
<1> QED BY <1>1, <1>2, <1>3, PageByIsOf, LaneSaves, OneLane DEF SameReading

LEMMA ReadHttpKeepsInv == ASSUME ReadingInv, NEW l \in Lane, ReadHttp(l) PROVE ReadingInv'
<1>1. Underway /\ ReadingType /\ ReadingFrame /\ UNCHANGED run /\ run.matched /\ ~run.differed
  BY DEF ReadHttp, Underway, ReadingInv, Agreed
<1>2. With(l, PageBy("response", run.matched /\ ~run.differed)) /\ (run.matched /\ ~run.differed) \in BOOLEAN
  BY DEF ReadHttp
<1> QED BY <1>1, <1>2, PageByIsOf, LaneSaves, OneLane, SameRun

LEMMA FailReadKeepsInv == ASSUME ReadingInv, NEW l \in Lane, FailRead(l) PROVE ReadingInv'
<1>1. Underway /\ ReadingType /\ run \in RunRow /\ ReadingFrame
  BY BusyIsUnderway DEF FailRead, ReadingInv, ReadingType
<1>2. PICK code \in Codes : Fails(l, code)
  BY DEF FailRead, Codes
<1>3. /\ SameReading /\ run'.matched = run.matched /\ run'.differed = run.differed
      /\ run'.direct \in {"disabled", run.direct}
  <2> DEFINE direct == IF lanes[l].at = "verify" THEN "disabled" ELSE run.direct
  <2>1. run' = [run EXCEPT !.stopped = TRUE, !.direct = direct]
    BY DEF FailRead
  <2>2. direct \in {"disabled", run.direct}
    OBVIOUS
  <2> HIDE DEF direct
  <2> QED BY <1>1, <2>1, <2>2 DEF RunRow, SameReading
<1>4. run'.direct = "enabled" => run'.matched
  BY <1>3 DEF ReadingInv, Agreed
<1> QED BY <1>1, <1>2, <1>3, <1>4, LaneFails, OneLane

LEMMA TakeNextKeepsInv == ASSUME ReadingInv, NEW l \in Lane, TakeNext(l) PROVE ReadingInv'
<1> DEFINE e == CHOOSE x \in Open : \A o \in Open : x <= o
           direct == run.direct = "enabled"
           lane == [IdleLane EXCEPT !.at = "read", !.e = e, !.direct = direct]
           todo == run.todo \ {e}
<1>1. Underway /\ ReadingType /\ run \in RunRow /\ ReadingFrame /\ run.todo \subseteq Employee
  BY DEF TakeNext, Underway, ReadingInv, ReadingType, RunRow, ReadingFrame
<1>2. e \in Nat
  <2>1. Open \subseteq Nat /\ Open # {}
    BY <1>1 DEF TakeNext, Open, Employee
  <2> QED BY <2>1, LeastIsThere
<1>3. lanes' = [lanes EXCEPT ![l] = lane] /\ run' = [run EXCEPT !.todo = todo]
  BY DEF TakeNext
<1>4. direct => run.matched
  BY DEF ReadingInv, Agreed
<1>5. direct \in BOOLEAN /\ todo \subseteq Employee
  BY <1>1
<1> HIDE DEF e, todo, direct
<1>6. lane \in LaneRow /\ lane.at = "read" /\ lane.direct = direct
  BY <1>2, <1>5, IdleLaneIsIdle DEF LaneRow
<1> HIDE DEF lane
<1>7. SameReading /\ run'.matched = run.matched /\ run'.direct = run.direct /\ run'.differed = run.differed
  BY <1>1, <1>3, <1>5 DEF RunRow, SameReading
<1>8. lanes' \in [Lane -> LaneRow] /\ lanes'[l] = lane /\ \A o \in Lane \ {l} : lanes'[o] = lanes[o]
  BY <1>1, <1>3, <1>6 DEF ReadingType
<1>9. \A o \in Lane : /\ lanes'[o].at = "save" => PageOf(lanes'[o].page, run.roster)
                      /\ lanes'[o].direct => run'.matched
  BY <1>4, <1>6, <1>7, <1>8 DEF ReadingInv, Memory, Agreed
<1>10. run'.direct = "enabled" => run'.matched
  BY <1>7 DEF ReadingInv, Agreed
<1> QED BY <1>1, <1>7, <1>8, <1>9, <1>10, ReadingKeepsInv

-----------------------------------------------------------------------------
\* A page that is written is put with pages of its roster.
LEMMA WrittenIsOf ==
    ASSUME ReadingInv, Holds, NEW token \in Nat, token # 0, NEW e, NEW page \in PageRow,
           Written(token, e, page),
           token = row.token => PageOf(page, row.print),
           Underway /\ token = run.token => PageOf(page, run.roster)
    PROVE  /\ saved' \in EmployeePages /\ live' \in [token : Nat, pages : EmployeePages]
           /\ row.token = 0 => saved' = NoPages
           /\ row.token # 0 => PagesOf(saved', row.print)
           /\ Underway => live'.token = run.token /\ PagesOf(live'.pages, run.roster)
<1>1. /\ saved \in EmployeePages /\ live \in [token : Nat, pages : EmployeePages] /\ live.pages \in EmployeePages
      /\ row.token = 0 => saved = NoPages
      /\ row.token # 0 => PagesOf(saved, row.print)
      /\ Underway => live.token = run.token /\ PagesOf(live.pages, run.roster)
  BY DEF ReadingInv, ReadingType, Tokens, Memory
<1>2. saved' \in EmployeePages /\ (row.token = 0 => saved' = NoPages) /\ (row.token # 0 => PagesOf(saved', row.print))
  BY <1>1, OneMorePage DEF Written
<1>3. live' \in [token : Nat, pages : EmployeePages]
      /\ (Underway => live'.token = run.token /\ PagesOf(live'.pages, run.roster))
  <2>1. CASE token = live.token
    <3> DEFINE pages == [live.pages EXCEPT ![e] = page]
    <3>1. live' = [live EXCEPT !.pages = pages]
      BY <2>1 DEF Written, Staged
    <3>2. CASE Underway
      BY <1>1, <2>1, <3>1, <3>2, OneMorePage
    <3>3. CASE ~Underway
      BY <1>1, <3>1, <3>3 DEF EmployeePages
    <3> QED BY <3>2, <3>3
  <2>2. CASE token # live.token
    BY <1>1, <2>2 DEF Written, Staged
  <2> QED BY <2>1, <2>2
<1> QED BY <1>2, <1>3

LEMMA SavePageKeepsInv == ASSUME ReadingInv, NEW l \in Lane, SavePage(l) PROVE ReadingInv'
<1>1. /\ Underway /\ ReadingType /\ run \in RunRow /\ lanes \in [Lane -> LaneRow] /\ lanes[l] \in LaneRow
      /\ run.pages \in EmployeePages /\ run.token \in Nat /\ run.token # 0 /\ lanes[l].page \in PageRow
      /\ PageOf(lanes[l].page, run.roster) /\ PagesOf(run.pages, run.roster)
  <2>1. Underway /\ ReadingType /\ run \in RunRow /\ lanes \in [Lane -> LaneRow] /\ lanes[l] \in LaneRow
    BY BusyIsUnderway DEF SavePage, ReadingInv, ReadingType
  <2>2. run.pages \in EmployeePages /\ run.token \in Nat /\ lanes[l].page \in PageRow
    BY <2>1 DEF RunRow, LaneRow
  <2>3. run.token # 0 /\ PageOf(lanes[l].page, run.roster) /\ PagesOf(run.pages, run.roster)
    BY <2>1 DEF SavePage, ReadingInv, Memory
  <2> QED BY <2>1, <2>2, <2>3
<1>2. CASE Holds
  <2> DEFINE e == lanes[l].e
             page == lanes[l].page
             pages == [run.pages EXCEPT ![e] = page]
  <2>1. Written(run.token, e, page) /\ run' = [run EXCEPT !.pages[e] = page] /\ lanes' = [lanes EXCEPT ![l] = IdleLane]
    BY <1>2 DEF SavePage
  <2>2. run' = [run EXCEPT !.pages = pages]
    BY <2>1
  <2>3. page \in PageRow /\ PageOf(page, run.roster) /\ pages \in EmployeePages /\ PagesOf(pages, run.roster)
    BY <1>1, OneMorePage
  <2>4. run.token = row.token => PageOf(page, row.print)
    BY <1>1, <2>3 DEF ReadingInv, Tokens
  <2> HIDE DEF e, page, pages
  <2>5. /\ saved' \in EmployeePages /\ live' \in [token : Nat, pages : EmployeePages]
        /\ row.token = 0 => saved' = NoPages
        /\ row.token # 0 => PagesOf(saved', row.print)
        /\ live'.token = run.token /\ PagesOf(live'.pages, run.roster)
    BY <1>1, <1>2, <2>1, <2>3, <2>4, WrittenIsOf
  <2>6. /\ run' \in RunRow /\ run'.phase = run.phase /\ run'.roster = run.roster /\ run'.token = run.token
        /\ run'.pages = pages /\ run'.direct = run.direct /\ run'.matched = run.matched
        /\ run'.differed = run.differed
    BY <1>1, <2>2, <2>3 DEF RunRow
  <2>7. /\ lanes' \in [Lane -> LaneRow] /\ lanes'[l] = IdleLane /\ \A o \in Lane \ {l} : lanes'[o] = lanes[o]
    BY <1>1, <2>1, IdleLaneIsIdle
  <2>8. Underway' /\ (Holds' <=> Holds)
    BY <1>1, <2>6 DEF Underway, Holds, SavePage
  <2>9. ReadingType'
    BY <1>1, <2>5, <2>6, <2>7 DEF ReadingType, SavePage
  <2>10. Tokens'
    BY <1>1, <2>5, <2>6 DEF ReadingInv, Tokens, SavePage, Underway
  <2>11. Memory'
    BY <1>1, <2>3, <2>5, <2>6, <2>7, <2>8, IdleLaneIsIdle DEF ReadingInv, Memory, Underway
  <2>12. Agreed'
    BY <2>6, <2>7, IdleLaneIsIdle DEF ReadingInv, Agreed
  <2>13. OnePublication'
    BY DEF ReadingInv, OnePublication, SavePage
  <2> QED BY <2>9, <2>10, <2>11, <2>12, <2>13 DEF ReadingInv
<1>3. CASE ~Holds
  <2>1. /\ Fails(l, "job_cancelled") /\ run' = [run EXCEPT !.stopped = TRUE]
        /\ UNCHANGED <<saved, live, roster, odd, worked, job, attempt, row, late, published, differed, tokens>>
    BY <1>3 DEF SavePage
  <2>2. "job_cancelled" \in Codes
    BY DEF Codes
  <2>3. /\ SameReading /\ run'.matched = run.matched /\ run'.direct = run.direct
        /\ run'.differed = run.differed
    BY <1>1, <2>1 DEF RunRow, SameReading
  <2>4. run'.direct = "enabled" => run'.matched
    BY <2>3 DEF ReadingInv, Agreed
  <2>5. ReadingFrame
    BY <2>1 DEF ReadingFrame
  <2> QED BY <1>1, <2>1, <2>2, <2>3, <2>4, <2>5, LaneFails, OneLane
<1> QED BY <1>2, <1>3

LEMMA SaveLateKeepsInv == ASSUME ReadingInv, SaveLate PROVE ReadingInv'
<1>1. PICK w \in late : /\ late' = late \ {w}
                        /\ IF Holds THEN Written(w.token, w.e, w.page) ELSE UNCHANGED <<saved, live>>
  BY DEF SaveLate
<1>2. UNCHANGED <<roster, odd, worked, job, attempt, row, run, lanes, published, differed, tokens>>
  BY DEF SaveLate
<1>3. /\ w.token \in Nat /\ w.page \in PageRow /\ w.token # 0
      /\ w.token = row.token => PageOf(w.page, row.print)
      /\ Underway /\ w.token = run.token => PageOf(w.page, run.roster)
  BY DEF ReadingInv, ReadingType, Writes, Tokens
<1>4. /\ saved' \in EmployeePages /\ live' \in [token : Nat, pages : EmployeePages]
      /\ row.token = 0 => saved' = NoPages
      /\ row.token # 0 => PagesOf(saved', row.print)
      /\ Holds /\ Underway => live'.token = run.token /\ PagesOf(live'.pages, run.roster)
  <2>1. CASE Holds
    BY <1>1, <1>3, <2>1, WrittenIsOf
  <2>2. CASE ~Holds
    BY <1>1, <2>2 DEF ReadingInv, ReadingType, Tokens
  <2> QED BY <2>1, <2>2
<1>5. ReadingType'
  BY <1>1, <1>2, <1>4 DEF ReadingInv, ReadingType
<1>6. Tokens'
  BY <1>1, <1>2, <1>4 DEF ReadingInv, Tokens, Underway
<1>7. Memory'
  BY <1>2, <1>4 DEF ReadingInv, Memory, Underway, Holds
<1>8. Agreed' /\ OnePublication'
  BY <1>2 DEF ReadingInv, Agreed, OnePublication
<1> QED BY <1>5, <1>6, <1>7, <1>8 DEF ReadingInv

-----------------------------------------------------------------------------
\* The checkpoint is left, or dropped with its pages.
LEMMA RowLeftOrDropped ==
    ASSUME ReadingInv, tokens' = tokens,
           UNCHANGED <<row, saved>> \/ (row' = NoRow /\ saved' = NoPages)
    PROVE  /\ row' \in [token : Nat, print : Nat, fresh : BOOLEAN] /\ saved' \in EmployeePages
           /\ row'.token <= tokens' /\ row'.token \in {0, row.token}
           /\ row'.token = 0 => saved' = NoPages
           /\ row'.token # 0 => row'.token = row.token /\ row'.print = row.print /\ PagesOf(saved', row'.print)
  BY NoRowNoLive, NoPageIsNone DEF ReadingInv, ReadingType, Tokens

\* An attempt that is over has nothing left in memory, and nothing holds the job for it.
LEMMA EndKeepsInv ==
    ASSUME ReadingInv, run' = NoRun, lanes' = [l \in Lane |-> IdleLane], job' # "running",
           roster' = roster, tokens' = tokens,
           job' \in {"queued", "running", "succeeded", "failed", "cancelled"},
           UNCHANGED <<row, saved>> \/ (row' = NoRow /\ saved' = NoPages),
           live' \in {live, NoLive}, late' \subseteq Writes,
           \A w \in late' : /\ w.token # 0 /\ w.token <= tokens
                            /\ w.token = row.token => PageOf(w.page, row.print),
           published' = published \/ (Underway /\ published' = run.pages)
    PROVE  ReadingInv'
<1>1. ~Holds' /\ ~Underway' /\ run' \in RunRow /\ run'.pages = NoPages /\ run'.token = 0
      /\ run'.direct = "disabled" /\ run'.phase = "none"
  BY NoRunIsNone DEF Holds, Underway
<1>2. lanes' \in [Lane -> LaneRow] /\ \A l \in Lane : lanes'[l] = IdleLane
  BY IdleLaneIsIdle
<1>3. OnePublication'
  <2>1. CASE published' = published
    BY <2>1 DEF ReadingInv, OnePublication
  <2>2. CASE Underway /\ published' = run.pages
    <3>1. PagesOf(published', run.roster) /\ run.roster \in Nat
      BY <2>2 DEF ReadingInv, Memory, ReadingType, RunRow
    <3> QED BY <3>1 DEF OnePublication
  <2> QED BY <2>1, <2>2
<1>4. published' \in EmployeePages /\ live' \in [token : Nat, pages : EmployeePages]
  BY NoRowNoLive DEF ReadingInv, ReadingType, RunRow
<1>5. ReadingType'
  BY <1>1, <1>2, <1>4, RowLeftOrDropped DEF ReadingInv, ReadingType
<1>6. Tokens'
  BY <1>1, RowLeftOrDropped DEF Tokens, ReadingInv, ReadingType
<1>7. Memory'
  BY <1>1, <1>2, IdleLaneIsIdle DEF Memory
<1>8. Agreed'
  BY <1>1, <1>2, IdleLaneIsIdle DEF Agreed
<1> QED BY <1>3, <1>5, <1>6, <1>7, <1>8 DEF ReadingInv

LEMMA LateStaysOf ==
    ASSUME ReadingInv
    PROVE  late \subseteq Writes /\ \A w \in late : /\ w.token # 0 /\ w.token <= tokens
                                                    /\ w.token = row.token => PageOf(w.page, row.print)
  BY DEF ReadingInv, ReadingType, Tokens

LEMMA FailAttemptKeepsInv == ASSUME ReadingInv, FailAttempt PROVE ReadingInv'
<1>1. /\ run' = NoRun /\ lanes' = [l \in Lane |-> IdleLane] /\ late' = late
      /\ UNCHANGED <<roster, tokens, published>>
      /\ job' # "running" /\ job' \in {"queued", "running", "succeeded", "failed", "cancelled"}
      /\ (UNCHANGED <<row, saved>> \/ (row' = NoRow /\ saved' = NoPages)) /\ live' \in {live, NoLive}
  <2>1. PICK again \in BOOLEAN :
             IF Holds THEN AttemptEnds(again)
             ELSE run' = NoRun /\ lanes' = [l \in Lane |-> IdleLane] /\ UNCHANGED <<job, row, saved, live>>
    BY DEF FailAttempt
  <2> QED BY <2>1 DEF FailAttempt, AttemptEnds, Holds, ReadingInv, ReadingType
<1>2. \A w \in late' : /\ w.token # 0 /\ w.token <= tokens
                       /\ w.token = row.token => PageOf(w.page, row.print)
  BY <1>1, LateStaysOf
<1> QED BY <1>1, <1>2, LateStaysOf, EndKeepsInv

LEMMA PublishKeepsInv == ASSUME ReadingInv, Publish PROVE ReadingInv'
<1>1. Underway
  BY DEF Publish, Underway
<1>2. /\ run' = NoRun /\ lanes' = [l \in Lane |-> IdleLane] /\ late' = late
      /\ UNCHANGED <<roster, tokens>> /\ published' \in {published, run.pages}
      /\ job' # "running" /\ job' \in {"queued", "running", "succeeded", "failed", "cancelled"}
      /\ (UNCHANGED <<row, saved>> \/ (row' = NoRow /\ saved' = NoPages)) /\ live' \in {live, NoLive}
  BY DEF Publish, Holds, ReadingInv, ReadingType
<1> QED BY <1>1, <1>2, LateStaysOf, EndKeepsInv

LEMMA LoseLeaseKeepsInv == ASSUME ReadingInv, LoseLease PROVE ReadingInv'
<1> DEFINE left == {[token |-> run.token, e |-> lanes[l].e, page |-> lanes[l].page]
                    : l \in {x \in Lane : lanes[x].at = "save"}}
<1>1. \A w \in left : /\ w \in Writes /\ w.token # 0 /\ w.token <= tokens
                      /\ w.token = row.token => PageOf(w.page, row.print)
  <2> SUFFICES ASSUME NEW l \in Lane, lanes[l].at = "save", NEW w,
                      w = [token |-> run.token, e |-> lanes[l].e, page |-> lanes[l].page]
               PROVE  /\ w \in Writes /\ w.token # 0 /\ w.token <= tokens
                      /\ w.token = row.token => PageOf(w.page, row.print)
    OBVIOUS
  <2>1. Underway
    BY BusyIsUnderway
  <2>2. run.token \in Nat /\ lanes[l].e \in Nat /\ lanes[l].page \in PageRow
    BY DEF ReadingInv, ReadingType, RunRow, LaneRow
  <2>3. run.token # 0 /\ PageOf(lanes[l].page, run.roster)
    BY <2>1 DEF ReadingInv, Memory
  <2> QED BY <2>1, <2>2, <2>3 DEF Writes, ReadingInv, Tokens
<1>2. late' = late \union left
  BY DEF LoseLease
<1> HIDE DEF left
<1>3. late' \subseteq Writes /\ \A w \in late' : /\ w.token # 0 /\ w.token <= tokens
                                                 /\ w.token = row.token => PageOf(w.page, row.print)
  BY <1>1, <1>2, LateStaysOf
<1>4. /\ job' # "running" /\ run' = NoRun /\ lanes' = [l \in Lane |-> IdleLane]
      /\ job' \in {"queued", "running", "succeeded", "failed", "cancelled"}
      /\ UNCHANGED <<row, saved>> /\ roster' = roster /\ tokens' = tokens
      /\ live' \in {live, NoLive} /\ published' = published
  BY DEF LoseLease
<1>5. UNCHANGED <<row, saved>> \/ (row' = NoRow /\ saved' = NoPages)
  BY <1>4
<1>6. published' = published \/ (Underway /\ published' = run.pages)
  BY <1>4
<1> QED BY <1>3, <1>4, <1>5, <1>6, EndKeepsInv

LEMMA RestartKeepsInv == ASSUME ReadingInv, Restart PROVE ReadingInv'
  BY EndKeepsInv DEF Restart

LEMMA CancelKeepsInv == ASSUME ReadingInv, Cancel PROVE ReadingInv'
<1>1. ~Holds' /\ (Underway' <=> Underway)
  BY DEF Cancel, Holds, Underway
<1>2. ReadingType'
  BY NoRowNoLive, NoPageIsNone DEF ReadingInv, ReadingType, Cancel
<1>3. Tokens'
  BY <1>1, NoRowNoLive DEF ReadingInv, ReadingType, Tokens, Memory, Cancel
<1>4. Memory'
  BY <1>1 DEF ReadingInv, Memory, Cancel
<1>5. Agreed' /\ OnePublication'
  BY DEF ReadingInv, Agreed, OnePublication, Cancel
<1> QED BY <1>2, <1>3, <1>4, <1>5 DEF ReadingInv

LEMMA ExpireKeepsInv == ASSUME ReadingInv, Expire PROVE ReadingInv'
<1>1. /\ row' \in [token : Nat, print : Nat, fresh : BOOLEAN]
      /\ row'.token = row.token /\ row'.print = row.print
  BY DEF ReadingInv, ReadingType, Expire
<1>2. ReadingType'
  BY <1>1 DEF ReadingInv, ReadingType, Expire
<1>3. Tokens'
  BY <1>1 DEF ReadingInv, Tokens, Expire, Underway
<1>4. Memory' /\ Agreed' /\ OnePublication'
  BY DEF ReadingInv, Memory, Agreed, OnePublication, Expire, Underway, Holds
<1> QED BY <1>2, <1>3, <1>4 DEF ReadingInv

LEMMA PruneKeepsInv == ASSUME ReadingInv, Prune PROVE ReadingInv'
<1>1. ReadingType'
  BY NoRowNoLive, NoPageIsNone DEF ReadingInv, ReadingType, Prune
<1>2. Tokens'
  BY NoRowNoLive DEF ReadingInv, ReadingType, Tokens, Memory, Prune, Underway
<1>3. Memory' /\ Agreed' /\ OnePublication'
  BY DEF ReadingInv, Memory, Agreed, OnePublication, Prune, Underway, Holds
<1> QED BY <1>1, <1>2, <1>3 DEF ReadingInv

LEMMA RosterChangesKeepsInv == ASSUME ReadingInv, RosterChanges PROVE ReadingInv'
<1>1. ReadingType'
  BY DEF ReadingInv, ReadingType, RosterChanges
<1>2. Tokens' /\ Memory' /\ Agreed' /\ OnePublication'
  BY DEF ReadingInv, Tokens, Memory, Agreed, OnePublication, RosterChanges, Underway, Holds
<1> QED BY <1>1, <1>2 DEF ReadingInv

LEMMA DecideKeepsInv == ASSUME ReadingInv, Decide PROVE ReadingInv'
<1> DEFINE phase == IF Proven THEN "http" ELSE "reading"
<1>1. Underway /\ run \in RunRow /\ lanes' \in [Lane -> LaneRow] /\ \A l \in Lane : lanes'[l] = IdleLane
  BY IdleLaneIsIdle DEF Decide, Underway, ReadingInv, ReadingType
<1>2. run' = [run EXCEPT !.phase = phase, !.sample = {}]
  BY DEF Decide
<1>3. phase \in {"http", "reading"} /\ (phase = "http" => run.matched /\ ~run.differed)
  BY DEF Proven
<1> HIDE DEF phase
<1>4. /\ run' \in RunRow /\ run'.phase = phase /\ run'.roster = run.roster /\ run'.token = run.token
      /\ run'.pages = run.pages /\ run'.direct = run.direct /\ run'.matched = run.matched
      /\ run'.differed = run.differed
  BY <1>1, <1>2, <1>3 DEF RunRow, Phases
<1>5. Underway' /\ (Holds' <=> Holds) /\ run'.phase # "none"
  BY <1>3, <1>4 DEF Underway, Holds, Decide
<1>6. ReadingType'
  BY <1>1, <1>4 DEF ReadingInv, ReadingType, Decide
<1>7. Tokens'
  BY <1>1, <1>4 DEF ReadingInv, Tokens, Decide
<1>8. Memory'
  BY <1>1, <1>4, <1>5, IdleLaneIsIdle DEF ReadingInv, Memory, Decide
<1>9. Agreed' /\ OnePublication'
  BY <1>1, <1>3, <1>4, IdleLaneIsIdle DEF ReadingInv, Agreed, OnePublication, Decide
<1> QED BY <1>6, <1>7, <1>8, <1>9 DEF ReadingInv

LEMMA StartAttemptKeepsInv == ASSUME ReadingInv, StartAttempt PROVE ReadingInv'
<1>1. /\ run' \in RunRow /\ run'.phase = "roster" /\ run'.pages = NoPages /\ run'.token = 0
      /\ run'.direct = "disabled"
  BY NoRunIsNone DEF StartAttempt, RunRow, Phases
<1>2. ~Underway' /\ lanes' \in [Lane -> LaneRow] /\ \A l \in Lane : lanes'[l] = IdleLane
  BY <1>1, IdleLaneIsIdle DEF StartAttempt, Underway
<1>3. ReadingType'
  BY <1>1, <1>2 DEF ReadingInv, ReadingType, StartAttempt
<1>4. Tokens'
  BY <1>1, <1>2 DEF ReadingInv, ReadingType, Tokens, StartAttempt
<1>5. Memory' /\ Agreed' /\ OnePublication'
  BY <1>1, <1>2, IdleLaneIsIdle DEF ReadingInv, Memory, Agreed, OnePublication, StartAttempt
<1> QED BY <1>3, <1>4, <1>5 DEF ReadingInv

-----------------------------------------------------------------------------
LEMMA EmployeesAreNaturals == Employee \subseteq Nat
  BY ReadingAssumption DEF Employee

\* Some are read both ways: employees that are still to be read.
LEMMA SamplesAreTodo ==
    ASSUME NEW todo \in SUBSET Employee
    PROVE  /\ \A x \in SpotSamples(todo) : x \subseteq todo
           /\ Cardinality(todo) >= SampledRoster => \A x \in ProofSamples(todo) : x \subseteq todo
<1>1. \A x \in SpotSamples(todo) : x \subseteq todo
  BY DEF SpotSamples
<1>2. ASSUME Cardinality(todo) >= SampledRoster, NEW x \in ProofSamples(todo) PROVE x \subseteq todo
  <2> DEFINE occupied == worked \cap todo
             first == IF occupied # {} THEN CHOOSE e \in occupied : \A o \in occupied : e <= o
                      ELSE CHOOSE e \in todo : \A o \in todo : e <= o
  <2>1. todo \subseteq Nat /\ occupied \subseteq Nat
    BY EmployeesAreNaturals
  <2>2. todo # {}
    <3>1. Cardinality({}) = 0
      BY FS_EmptySet
    <3>2. CASE todo = {}
      <4>1. Cardinality(todo) = 0
        BY <3>1, <3>2
      <4> QED BY <1>2, <4>1, ReadingAssumption
    <3> QED BY <3>2
  <2>3. first \in todo
    BY <2>1, <2>2, LeastIsThere
  <2>4. \E some \in SUBSET (todo \ {first}) : x = {first} \union some
    BY <1>2 DEF ProofSamples
  <2> HIDE DEF first
  <2> QED BY <2>3, <2>4
<1> QED BY <1>1, <1>2

\* What is planned: the pages that are there, and the others to be read, unproven as yet.
LEMMA PlanIsOf ==
    ASSUME NEW token \in Nat, NEW pages \in EmployeePages, roster \in Nat, NEW plan \in Plan(token, pages)
    PROVE  /\ plan \in RunRow /\ plan.phase \in {"proving", "reading"} /\ plan.roster = roster
           /\ plan.token = token /\ plan.pages = pages /\ plan.direct # "enabled"
<1> DEFINE todo == Employee \ Got(pages)
           base == [NoRun EXCEPT !.roster = roster, !.token = token, !.pages = pages, !.todo = todo]
<1>1. todo \subseteq Employee
  OBVIOUS
<1>2. \/ \E x \in SpotSamples(todo) : plan = [base EXCEPT !.phase = "reading", !.direct = "unknown", !.sample = x]
      \/ /\ Cardinality(todo) >= SampledRoster
         /\ \E x \in ProofSamples(todo) : plan = [base EXCEPT !.phase = "proving", !.sample = x]
  BY DEF Plan
<1> HIDE DEF todo
<1>3. /\ base \in RunRow /\ base.roster = roster /\ base.token = token /\ base.pages = pages
      /\ base.direct = "disabled"
  BY <1>1, NoRunIsNone DEF RunRow
<1> HIDE DEF base
<1>4. CASE \E x \in SpotSamples(todo) : plan = [base EXCEPT !.phase = "reading", !.direct = "unknown", !.sample = x]
  BY <1>1, <1>3, <1>4, SamplesAreTodo DEF RunRow, Phases
<1>5. CASE /\ Cardinality(todo) >= SampledRoster
           /\ \E x \in ProofSamples(todo) : plan = [base EXCEPT !.phase = "proving", !.sample = x]
  BY <1>1, <1>3, <1>5, SamplesAreTodo DEF RunRow, Phases
<1> QED BY <1>2, <1>4, <1>5

LEMMA PrepareKeepsInv == ASSUME ReadingInv, Prepare PROVE ReadingInv'
<1> DEFINE pages == IF Resumes THEN saved ELSE NoPages
           token == IF Resumes THEN row.token ELSE tokens + 1
<1>1. /\ ReadingType /\ roster \in Nat /\ saved \in EmployeePages /\ row.token \in Nat /\ tokens \in Nat
      /\ row \in [token : Nat, print : Nat, fresh : BOOLEAN] /\ row.token <= tokens
      /\ row.token # 0 => PagesOf(saved, row.print)
      /\ ~Underway /\ \A l \in Lane : lanes[l] = IdleLane
  BY DEF Prepare, Underway, ReadingInv, ReadingType, Tokens, Memory
<1>2. /\ IF Resumes THEN UNCHANGED <<row, tokens>>
         ELSE row' = [token |-> token, print |-> roster, fresh |-> TRUE] /\ tokens' = token
      /\ saved' = pages /\ live' = [token |-> token, pages |-> pages] /\ run' \in Plan(token, pages)
      /\ UNCHANGED <<roster, odd, worked, job, attempt, lanes, late, published, differed>>
  BY DEF Prepare, StartLive
<1>3. token \in Nat /\ token # 0 /\ pages \in EmployeePages /\ PagesOf(pages, roster)
  BY <1>1, NoPageIsNone DEF Resumes
<1>4. /\ row' \in [token : Nat, print : Nat, fresh : BOOLEAN] /\ row'.token = token
      /\ row'.print = roster /\ tokens' \in Nat /\ token <= tokens' /\ tokens <= tokens'
  <2>1. CASE Resumes
    BY <1>1, <1>2, <2>1 DEF Resumes
  <2>2. CASE ~Resumes
    <3>1. token = tokens + 1 /\ token \in Nat /\ tokens <= token
      BY <1>1, <2>2
    <3>2. row' = [token |-> token, print |-> roster, fresh |-> TRUE] /\ tokens' = token
      BY <1>2, <2>2
    <3> HIDE DEF token, pages
    <3> QED BY <1>1, <3>1, <3>2
  <2> QED BY <2>1, <2>2
<1>5. \A w \in late : w.token # 0 /\ w.token <= tokens' /\ (w.token = token => PageOf(w.page, roster))
  <2> SUFFICES ASSUME NEW w \in late
               PROVE  w.token # 0 /\ w.token <= tokens' /\ (w.token = token => PageOf(w.page, roster))
    OBVIOUS
  <2>1. w.token \in Nat /\ w.token # 0 /\ w.token <= tokens /\ (w.token = row.token => PageOf(w.page, row.print))
    BY DEF ReadingInv, ReadingType, Writes, Tokens
  <2> QED BY <1>1, <1>4, <2>1 DEF Resumes
<1> HIDE DEF token, pages
<1>6. /\ run' \in RunRow /\ run'.phase \in {"proving", "reading"} /\ run'.roster = roster
      /\ run'.token = token /\ run'.pages = pages /\ run'.direct # "enabled"
  BY <1>1, <1>2, <1>3, PlanIsOf
<1>7. ReadingType'
  BY <1>1, <1>2, <1>3, <1>4, <1>6 DEF ReadingType
<1>8. Tokens'
  BY <1>2, <1>3, <1>4, <1>5, <1>6 DEF Tokens
<1>9. Memory'
  BY <1>1, <1>2, <1>3, <1>6, IdleLaneIsIdle DEF Memory, Underway
<1>10. Agreed' /\ OnePublication'
  BY <1>1, <1>2, <1>6, IdleLaneIsIdle DEF ReadingInv, Agreed, OnePublication
<1> QED BY <1>7, <1>8, <1>9, <1>10 DEF ReadingInv

-----------------------------------------------------------------------------
LEMMA InitReadingInv == ASSUME ReadingInit PROVE ReadingInv
<1>1. lanes \in [Lane -> LaneRow] /\ \A l \in Lane : lanes[l] = IdleLane
  BY IdleLaneIsIdle DEF ReadingInit
<1>2. ReadingType
  BY <1>1, NoRunIsNone, NoRowNoLive, NoPageIsNone DEF ReadingInit, ReadingType
<1>3. ~Underway /\ ~Holds
  BY NoRunIsNone DEF ReadingInit, Underway, Holds
<1>4. Tokens /\ Memory /\ Agreed /\ OnePublication
  BY <1>1, <1>3, NoRunIsNone, NoRowNoLive, NoPageIsNone, IdleLaneIsIdle
     DEF ReadingInit, Tokens, Memory, Agreed, OnePublication
<1> QED BY <1>2, <1>4 DEF ReadingInv

LEMMA ReadingNextKeepsInv == ASSUME ReadingInv, [ReadingNext]_readingVars PROVE ReadingInv'
<1>1. CASE UNCHANGED readingVars
  <2>1. ReadingType'
    BY <1>1 DEF ReadingInv, ReadingType, readingVars
  <2>2. Tokens' /\ Memory' /\ Agreed' /\ OnePublication'
    BY <1>1 DEF ReadingInv, Tokens, Memory, Agreed, OnePublication, Underway, Holds, readingVars
  <2> QED BY <2>1, <2>2 DEF ReadingInv
<1>2. ASSUME NEW l \in Lane,
             \/ TakeNext(l) \/ Render(l) \/ Verify(l) \/ ReadResponse(l)
             \/ SpotCheck(l) \/ Prove(l) \/ ReadHttp(l) \/ FailRead(l) \/ SavePage(l)
      PROVE  ReadingInv'
  BY <1>2, TakeNextKeepsInv, RenderKeepsInv, VerifyKeepsInv, ReadResponseKeepsInv, SpotCheckKeepsInv,
     ProveKeepsInv, ReadHttpKeepsInv, FailReadKeepsInv, SavePageKeepsInv
<1> QED BY <1>1, <1>2, StartAttemptKeepsInv, PrepareKeepsInv, SaveLateKeepsInv, DecideKeepsInv,
           FailAttemptKeepsInv, PublishKeepsInv, CancelKeepsInv, LoseLeaseKeepsInv, RestartKeepsInv,
           ExpireKeepsInv, PruneKeepsInv, RosterChangesKeepsInv DEF ReadingNext

\* Every state of the reading satisfies the invariant.
THEOREM ReadingInvHolds == ReadingSpec => []ReadingInv
<1>1. ReadingInit => ReadingInv
  BY InitReadingInv
<1>2. ReadingInv /\ [ReadingNext]_readingVars => ReadingInv'
  BY ReadingNextKeepsInv
<1> QED BY <1>1, <1>2, PTL DEF ReadingSpec

\* A publication is of one roster, and so is what the attempt has in memory and what is shown of
\* it, however many attempts read it and whatever was still being written for those that are gone.
THEOREM OneRosterHolds == ReadingSpec => []OneRoster
<1>1. ReadingInv => OneRoster
  <2> SUFFICES ASSUME ReadingInv PROVE OneRoster
    OBVIOUS
  <2>1. \A d, e \in Got(published) : published[d].of = published[e].of
    BY DEF ReadingInv, OnePublication, PagesOf, PageOf, Got
  <2>2. \A e \in Got(run.pages) : run.pages[e].of = run.roster
    <3>1. CASE Underway
      BY <3>1 DEF ReadingInv, Memory, PagesOf, PageOf, Got
    <3>2. CASE ~Underway
      BY <3>2 DEF ReadingInv, Memory, NoPages, Got
    <3> QED BY <3>1, <3>2
  <2>3. Holds /\ run.phase # "roster" => \A e \in Got(LiveRows) : LiveRows[e].of = run.roster
    <3> SUFFICES ASSUME Holds, run.phase # "roster", NEW e \in Got(live.pages)
                 PROVE  live.pages[e].of = run.roster
      BY DEF LiveRows
    <3>1. Underway
      BY DEF ReadingInv, ReadingType, RunRow, Phases, Memory, Underway
    <3> QED BY <3>1 DEF ReadingInv, Memory, PagesOf, PageOf, Got
  <2> QED BY <2>1, <2>2, <2>3 DEF OneRoster
<1> QED BY <1>1, ReadingInvHolds, PTL

\* What is published from a response was read by an attempt that had seen a response equal a
\* rendered page, through resumed checkpoints and late writes.
THEOREM ProvenFirstHolds == ReadingSpec => []ProvenFirst
<1>1. ReadingInv => ProvenFirst
  BY DEF ReadingInv, OnePublication, PagesOf, PageOf, Got, ProvenFirst
<1> QED BY <1>1, ReadingInvHolds, PTL
=============================================================================
