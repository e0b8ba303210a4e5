------------------------------ MODULE Shipping ------------------------------
(***************************************************************************)
(* `pr:ship`: one pull request brought through GitHub's merge queue by a   *)
(* command that sees it only by looking, now and then, while its author,   *)
(* the checks, CodeRabbit and the queue change it                          *)
(* (backend/ci/src/ship.rs).                                               *)
(***************************************************************************)
EXTENDS Integers

CONSTANTS
  MaxHeads,     \* bound: commits pushed to the pull request
  MaxEvents,     \* bound: what people and the queue do besides
  Attempts,     \* failed calls, or refused additions, in a row (ATTEMPTS)
  Limits        \* looks spent waiting: review, unstarted, answer, limited

ASSUME ShippingAssumption ==
  /\ MaxHeads \in Nat \ {0} /\ MaxEvents \in Nat /\ Attempts \in Nat \ {0}
  /\ Limits \in [review : Nat, unstarted : Nat, answer : Nat, limited : Nat]

NoHead == 0

VARIABLES
  pr,       \* the pull request as it is; `lag`: GitHub shows neither its queue entry
            \* nor its merge; `fresh`: the queue has only just taken it
  look,     \* the command's last look at it, or one it has not made
  ship,     \* what the command remembers, and how it ended; `first`, which it does
            \* not, is the head of the first of the looks that `outside` counts
  events     \* moves so far

shippingVars == <<pr, look, ship, events>>

Reviews == {"unstarted", "running", "done", "failed", "limited"}
\* "ours": waiting for our answer; "its": for CodeRabbit's; "answered": it
\* answered our reply and has left the thread open.
Threads == {"none", "ours", "its", "answered"}

Unlooked == [made |-> FALSE]
\* Just queued or just merged, GitHub can briefly show neither the entry nor the merge.
Shown == [made |-> TRUE, head |-> pr.head, draft |-> pr.draft, state |-> IF pr.lag THEN "open" ELSE pr.state,
          queued |-> IF pr.lag THEN FALSE ELSE pr.queued, merges |-> pr.merges,
          admission |-> pr.admission, labelled |-> pr.labelled, review |-> pr.review,
          threads |-> pr.threads]

Pause == look' = Unlooked
ShipEnds(how) == ship' = [ship EXCEPT !.result = how] /\ Pause /\ UNCHANGED <<pr, events>>
Waits(memory) == ship' = memory /\ Pause /\ UNCHANGED <<pr, events>>
Deciding == ship.result = "none" /\ look.made

-----------------------------------------------------------------------------
\* A look that fails is made again; on the first look, or after Attempts in a
\* row, it ends the command.
Look ==
  /\ ship.result = "none" /\ ~look.made
  /\ \/ /\ look' = Shown /\ ship' = [ship EXCEPT !.seen = TRUE, !.unanswered = 0]
        /\ pr' = [pr EXCEPT !.lag = FALSE, !.fresh = pr.lag]
     \/ /\ ship' = [ship EXCEPT !.unanswered = @ + 1,
                    !.result = IF ship.unanswered + 1 >= Attempts \/ ~ship.seen THEN "unanswered" ELSE "none"]
        /\ UNCHANGED <<look, pr>>
  /\ UNCHANGED events

PullFinished ==
  /\ Deciding
  /\ \/ look.state = "merged" /\ ShipEnds("merged")
     \/ look.state = "closed" /\ ShipEnds("closed")
     \/ look.state = "open" /\ look.draft /\ ShipEnds("draft")

Ready == Deciding /\ look.state = "open" /\ ~look.draft

InQueue ==
  /\ Ready /\ look.queued
  /\ Waits([ship EXCEPT !.queued = look.head, !.outside = 0, !.first = NoHead])

\* Twice seen outside the queue at a head it queued, with no look that shows the
\* entry between, the pull request has left it.  Another head may have been queued
\* between the two looks: only the entry starts the count anew.
LeftAtOnce ==
  /\ Ready /\ ~look.queued /\ ship.queued = look.head
  /\ Waits([ship EXCEPT !.first = look.head, !.result = "left"])
LeftQueue ==
  /\ Ready /\ ~look.queued /\ ship.queued = look.head
  /\ \/ ship.outside >= 1 /\ ShipEnds("left")
     \/ ship.outside = 0 /\ Waits([ship EXCEPT !.outside = 1, !.first = look.head])

Outside == Ready /\ ~look.queued /\ ship.queued # look.head

\* The head must merge cleanly and have passed the admission check.
Admission ==
  /\ Outside
  /\ \/ look.merges = "conflict" /\ ShipEnds("conflict")
     \/ look.merges # "conflict" /\ look.admission = "failed" /\ ShipEnds("not admitted")
     \/ /\ look.merges # "conflict" /\ look.admission # "failed"
        /\ ~(look.merges = "cleanly" /\ look.admission = "passed")
        /\ Waits(ship)

Admitted == Outside /\ look.merges = "cleanly" /\ look.admission = "passed"
Calm(memory) == IF look.review = "limited" THEN memory ELSE [memory EXCEPT !.limited = 0]

\* A labelled pull request waits for CodeRabbit to review it, for so long.
AwaitReview ==
  /\ Admitted /\ look.labelled /\ look.review # "done"
  /\ LET counted == [Calm(ship) EXCEPT
           !.unstarted = IF look.review = "running" THEN 0
                         ELSE IF look.review = "unstarted" THEN @ + 1 ELSE @,
           !.limited = IF look.review = "limited" THEN @ + 1 ELSE @,
           !.waited = @ + 1]
     IN IF \/ look.review = "failed"
           \/ look.review = "limited" /\ counted.limited >= Limits.limited
           \/ look.review = "unstarted" /\ counted.unstarted > Limits.unstarted
           \/ counted.waited > Limits.review
        THEN ShipEnds("unreviewed") ELSE Waits(counted)

\* Its threads must be answered and resolved.  CodeRabbit answers a moment before
\* it resolves, so a thread it answered is ours only at the next look.
AwaitAnswers ==
  /\ Admitted /\ look.labelled /\ look.review = "done" /\ look.threads # "none"
  /\ LET memory == [Calm(ship) EXCEPT !.settling = look.threads = "answered",
                                      !.answering = IF look.threads = "its" THEN @ + 1 ELSE @]
     IN IF \/ look.threads = "ours"
           \/ look.threads = "answered" /\ ship.settling
           \/ look.threads = "its" /\ memory.answering > Limits.answer
        THEN ShipEnds("to answer") ELSE Waits(memory)

MayQueue == Admitted /\ (look.labelled => look.review = "done" /\ look.threads = "none")

\* The head that was looked at is added to the queue; GitHub refuses another one,
\* and one it does not admit.  The threads it had answered are those of the last
\* look at a labelled pull request, of which there are none now.
Accepts(head) == pr.state = "open" /\ ~pr.draft /\ head = pr.head /\ pr.merges = "cleanly"
                 /\ pr.admission = "passed" /\ pr.threads = "none"
Add ==
  /\ MayQueue
  /\ \/ /\ Accepts(look.head)
        /\ \E lag \in BOOLEAN : pr' = [pr EXCEPT !.queued = TRUE, !.lag = lag, !.fresh = lag]
        /\ ship' = [Calm(ship) EXCEPT !.refused = 0, !.queued = look.head,
                                      !.settling = @ /\ ~look.labelled]
     \/ /\ ship' = [Calm(ship) EXCEPT !.refused = @ + 1, !.settling = @ /\ ~look.labelled,
                    !.result = IF ship.refused + 1 >= Attempts THEN "refused" ELSE "none"]
        /\ UNCHANGED pr
  /\ Pause /\ UNCHANGED events

\* Ninety minutes of looks are up.
GiveUpShipping == ship.result = "none" /\ ~look.made /\ ship.seen /\ ShipEnds("gave up")

-----------------------------------------------------------------------------
(* GitHub, CodeRabbit and the people at it.                                 *)
Unqueued == [pr EXCEPT !.queued = FALSE, !.lag = FALSE, !.fresh = FALSE]
HubMoved == events < MaxEvents /\ events' = events + 1 /\ UNCHANGED <<look, ship>>

PushHead ==
  /\ HubMoved /\ pr.state = "open" /\ pr.head < MaxHeads
  /\ \E review \in {pr.review, "unstarted"}, merges \in {"unknown", "conflict"} :
       pr' = [Unqueued EXCEPT !.head = @ + 1, !.admission = "pending",
                              !.merges = merges, !.review = review]

CheckEnds ==
  /\ pr.admission = "pending" \/ pr.merges = "unknown"
  /\ \E a \in {"passed", "failed"} : pr' = [pr EXCEPT !.admission = a, !.merges = "cleanly"]
  /\ UNCHANGED <<look, ship, events>>

ReviewMoves ==
  /\ HubMoved /\ pr.review # "done"
  /\ \E r \in Reviews, t \in {"none", "ours"} :
       /\ t = "ours" => r = "done"
       /\ pr' = [pr EXCEPT !.review = r, !.threads = IF r = "done" THEN t ELSE @]

\* We reply, CodeRabbit answers, it resolves.
ThreadMoves ==
  /\ pr.threads # "none"
  /\ pr' = [pr EXCEPT !.threads = CASE pr.threads = "ours" -> "its"
                                    [] pr.threads = "its" -> "answered"
                                    [] OTHER -> "none"]
  /\ UNCHANGED <<look, ship, events>>

Label == HubMoved /\ pr' = [pr EXCEPT !.labelled = ~@]
ClosePull == HubMoved /\ pr.state = "open" /\ pr' = [Unqueued EXCEPT !.state = "closed"]

\* The queue merges the head or removes it.  It checks the squash commit first, which
\* takes minutes: an entry that was shown late is not merged before the second look.
QueueMerges ==
  /\ pr.queued /\ pr.state = "open" /\ ~pr.fresh
  /\ \E lag \in BOOLEAN : pr' = [pr EXCEPT !.queued = FALSE, !.state = "merged", !.lag = lag]
  /\ UNCHANGED <<look, ship, events>>
QueueRemoves == HubMoved /\ pr.queued /\ pr' = Unqueued

-----------------------------------------------------------------------------
ShippingInit ==
  /\ pr \in [head : {1}, state : {"open"}, draft : BOOLEAN, queued : {FALSE},
             merges : {"unknown"}, admission : {"pending"}, labelled : BOOLEAN,
             review : {"unstarted"}, threads : {"none"}, lag : {FALSE}, fresh : {FALSE}]
  /\ look = Unlooked /\ events = 0
  /\ ship = [seen |-> FALSE, unanswered |-> 0, refused |-> 0, queued |-> NoHead, outside |-> 0, first |-> NoHead,
             waited |-> 0, unstarted |-> 0, answering |-> 0, limited |-> 0,
             settling |-> FALSE, result |-> "none"]

ShippingNext ==
  \/ Look \/ PullFinished \/ InQueue \/ LeftQueue \/ Admission \/ AwaitReview \/ AwaitAnswers \/ Add
  \/ GiveUpShipping \/ PushHead \/ CheckEnds \/ ReviewMoves \/ ThreadMoves \/ Label \/ ClosePull
  \/ QueueMerges \/ QueueRemoves

ShippingSpec == ShippingInit /\ [][ShippingNext]_shippingVars

-----------------------------------------------------------------------------
\* When both looks that found the pull request outside the queue were at its head, the
\* command does not say that it left unmerged what is merged or still in the queue
\* (ship.rs:354).  It may when the first was at a head that a push and a second addition
\* replaced: then one look is all that head gets.
LeftMeansUnmerged ==
  ship.result = "left" /\ ship.first = pr.head => ~pr.queued /\ pr.state # "merged"
=============================================================================
