---- MODULE MailOutbox ----
(***************************************************************************)
(* The mail outbox (mail/mod.rs, mail/delivery.rs, Store::queue_mail).     *)
(* One task looks at the outbox every few seconds: in one transaction it   *)
(* drops what must not be sent any more and reads a few messages that are  *)
(* due, then it delivers them one after the other outside the database and *)
(* records each result.  Whatever a message carries may end at any time.   *)
(***************************************************************************)
EXTENDS Naturals, FiniteSets

CONSTANTS
    Invitations, \* the messages that carry an invitation
    Resets,      \* the messages that carry a reset link
    Batch,       \* how many are read at a time
    Room,        \* mail_kind_pending
    Attempts,    \* how often a message is tried
    MaxMailStops,\* bounds how often the process stops
    MaxMailRetries \* bounds how often a failed message is retried by hand

Message == Invitations \union Resets
ASSUME MailAssumption ==
    /\ Batch \in Nat \ {0} /\ Attempts \in Nat \ {0} /\ Room \in Nat
    /\ MaxMailStops \in Nat /\ MaxMailRetries \in Nat
    /\ Invitations \intersect Resets = {}

VARIABLES
    outbox,   \* the row of each message
    grant,    \* what it carries: not issued, open, or ended
    hand,     \* the mailer: the messages read, not yet delivered
    result,   \* the mailer: the one just delivered, and how that went
    delivered,\* the messages that reached their recipient since they were queued
    mailStops, mailRetries

mailVars == <<outbox, grant, hand, result, delivered, mailStops, mailRetries>>

NoMail == [status |-> "none", attempts |-> 0, due |-> FALSE, old |-> FALSE]
NoResult == [of |-> "none", tried |-> 0, ok |-> FALSE]
PendingMail == {m \in Message : outbox[m].status = "pending"}
Unsent == {m \in Message : outbox[m].status \in {"pending", "failed"}}
KindOf(m) == IF m \in Resets THEN Resets ELSE Invitations

\* invite and recovery, with queue_mail: the grant and its message are one transaction, and a
\* new reset link replaces the message of the one before.
Queue(m) ==
    /\ grant[m] = "none" /\ Cardinality(PendingMail \intersect KindOf(m)) < Room
    /\ grant' = [n \in Message |->
           IF n = m THEN "open" ELSE IF {m, n} \subseteq Resets /\ grant[n] = "open" THEN "ended"
           ELSE grant[n]]
    /\ outbox' = [n \in Message |->
           IF n = m THEN [NoMail EXCEPT !.status = "pending", !.due = TRUE]
           ELSE IF {m, n} \subseteq Resets /\ n \in Unsent THEN NoMail ELSE outbox[n]]
    /\ UNCHANGED <<hand, result, delivered, mailStops, mailRetries>>
\* An invitation is revoked, used or expires, its inviter loses the authority for it; a link is
\* used or expires, its account changes.
GrantEnds(m) ==
    /\ grant[m] = "open" /\ grant' = [grant EXCEPT ![m] = "ended"]
    /\ UNCHANGED <<outbox, hand, result, delivered, mailStops, mailRetries>>
\* available_at passes; a message gets too old to keep.
BecomesDue(m) ==
    /\ m \in PendingMail /\ outbox' = [outbox EXCEPT ![m].due = TRUE]
    /\ UNCHANGED <<grant, hand, result, delivered, mailStops, mailRetries>>
GetsOld(m) ==
    /\ outbox[m].status # "none" /\ outbox' = [outbox EXCEPT ![m].old = TRUE]
    /\ UNCHANGED <<grant, hand, result, delivered, mailStops, mailRetries>>

\* discard_stale
Stale == {m \in Message : outbox[m].old \/ (m \in Unsent /\ grant[m] # "open")}
Kept == [m \in Message |-> IF m \in Stale THEN NoMail ELSE outbox[m]]
\* The batch: what is due, reset links first.
IsBatch(batch) ==
    LET ready == {m \in PendingMail \ Stale : outbox[m].due} IN
    /\ batch \subseteq ready
    /\ Cardinality(batch) = IF Cardinality(ready) < Batch THEN Cardinality(ready) ELSE Batch
    /\ batch \intersect Invitations # {} => ready \intersect Resets \subseteq batch
Pick(batch) ==
    /\ hand = {} /\ result = NoResult /\ IsBatch(batch)
    /\ outbox' = Kept /\ hand' = batch
    /\ UNCHANGED <<grant, result, delivered, mailStops, mailRetries>>

\* deliver: the message may arrive although the answer is an error, and only a kept message
\* has its content.
Deliver(m, arrives, ok) ==
    /\ m \in hand /\ result = NoResult
    /\ m \in Invitations => hand \intersect Resets = {}
    /\ ok => arrives
    /\ result' = [of |-> m, tried |-> outbox[m].attempts, ok |-> ok]
    /\ hand' = hand \ {m}
    /\ delivered' = IF arrives THEN delivered \union {m} ELSE delivered
    /\ UNCHANGED <<outbox, grant, mailStops, mailRetries>>
\* record_delivery: a row that is no longer pending is left alone.
EndlessRecorded(row) ==
    IF result.ok THEN [row EXCEPT !.status = "sent", !.due = FALSE]
    ELSE [row EXCEPT !.attempts = IF @ < Attempts THEN @ + 1 ELSE @, !.due = FALSE]
Recorded(row) ==
    IF result.ok THEN [row EXCEPT !.status = "sent", !.due = FALSE]
    ELSE [row EXCEPT !.attempts = @ + 1, !.due = FALSE,
                     !.status = IF result.tried + 1 >= Attempts THEN "failed" ELSE "pending"]
RecordMail ==
    /\ result # NoResult /\ result' = NoResult
    /\ outbox' = IF result.of \in PendingMail
                 THEN [outbox EXCEPT ![result.of] = Recorded(@)] ELSE outbox
    /\ UNCHANGED <<grant, hand, delivered, mailStops, mailRetries>>
\* mailer: it stops between two messages, or the process is gone.
StopMailer ==
    /\ mailStops < MaxMailStops /\ mailStops' = mailStops + 1
    /\ hand' = {} /\ result' = NoResult
    /\ UNCHANGED <<outbox, grant, delivered, mailRetries>>

\* retry and discard: a message that ran out of attempts, by the platform owner.
RetryMail(m) ==
    /\ outbox[m].status = "failed" /\ mailRetries < MaxMailRetries /\ mailRetries' = mailRetries + 1
    /\ outbox' = [outbox EXCEPT ![m].status = "pending", ![m].attempts = 0, ![m].due = TRUE]
    /\ UNCHANGED <<grant, hand, result, delivered, mailStops>>
DiscardFailed(m) ==
    /\ outbox[m].status = "failed" /\ outbox' = [outbox EXCEPT ![m] = NoMail]
    /\ UNCHANGED <<grant, hand, result, delivered, mailStops, mailRetries>>

MailInit ==
    /\ outbox = [m \in Message |-> NoMail] /\ grant = [m \in Message |-> "none"]
    /\ hand = {} /\ result = NoResult /\ delivered = {} /\ mailStops = 0 /\ mailRetries = 0
Mailer ==
    \/ \E batch \in SUBSET Message : Pick(batch)
    \/ \E m \in Message, arrives \in BOOLEAN, ok \in BOOLEAN : Deliver(m, arrives, ok)
    \/ RecordMail
MailNext ==
    \/ Mailer \/ StopMailer
    \/ \E m \in Message :
           \/ Queue(m) \/ GrantEnds(m) \/ BecomesDue(m) \/ GetsOld(m)
           \/ RetryMail(m) \/ DiscardFailed(m)
MailSpec == MailInit /\ [][MailNext]_mailVars
\* The timer of the mailer and the clock go on.
MailFairSpec ==
    /\ MailSpec /\ WF_mailVars(Mailer)
    /\ \A m \in Message : WF_mailVars(BecomesDue(m))

\* A message ends: it is sent, it fails after its attempts or it is dropped.  None waits
\* behind the others or is tried for ever.
MailSettles == \A m \in Message : m \in PendingMail ~> m \notin PendingMail
=============================================================================
