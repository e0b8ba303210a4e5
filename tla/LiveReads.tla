------------------------------ MODULE LiveReads ------------------------------
(* What a dashboard shows while collections run.  Writes take the transition *)
(* lock and advance the data revision (lib.rs); reads share the lock and may *)
(* be answered from the read cache (read_cache.rs); a change is announced    *)
(* afterwards, if somebody still awaits it, in a bounded history             *)
(* (live_updates.rs); an open dashboard polls that history and reads again   *)
(* the pages a change affects (live.rs, live-collection.ts,                  *)
(* response-cache.ts).                                                       *)
EXTENDS Naturals, Sequences, FiniteSets

CONSTANTS
    Page,           \* the pages an open dashboard shows, one per cached answer
    History,        \* announcements kept: 128 in the code
    CacheRoom,      \* answers kept: 64 in the code
    MaxWrites,      \* bound on the collections' writes
    MaxUpsets       \* bound on failed polls, restarts of the process and times
                    \* the dashboard is hidden

ASSUME LiveReadsAssumption ==
    /\ IsFiniteSet(Page)
    /\ History \in Nat \ {0} /\ CacheRoom \in Nat \ {0}
    /\ MaxWrites \in Nat /\ MaxUpsets \in Nat

VARIABLES
    data,           \* the version of what each page would show now
    revision,       \* State.data_revision
    writer,         \* the pages the holder of the write lock will change
    loads,          \* the answers being computed under the read lock
    entries,        \* ReadCache.entries
    epoch,          \* Updates.epoch, one per process
    known,          \* the DSP has an entry in Updates.tenants
    sent,           \* the value its watch channel holds
    changes,        \* the history: the pages each of the last revisions affects
    unannounced,    \* announcements still to come
    announced,      \* history: the version of each page when it was announced last
    request,        \* per page, how far the dashboard's read has got
    shown,          \* per page, the version shown and whether it was answered
                    \* after the dashboard had observed a first revision
    poll,           \* how far the dashboard's long poll has got
    after,          \* the revision it polls from
    version,        \* the revision its cache has observed
    pending,        \* what its timer holds back: the revision and the pages
    failing,        \* the last poll failed
    hidden,
    writes, upsets

lockVars == <<data, revision, writer, loads, entries>>
updateVars == <<epoch, known, sent, changes, unannounced, announced>>
pollVars == <<poll, after, version, pending, failing, hidden>>
boundVars == <<writes, upsets>>
readsVars == <<lockVars, updateVars, request, shown, pollVars, boundVars>>

NoRevision == [epoch |-> 0, revision |-> 0]   \* no revision yet
NotPolling == [at |-> "idle"]
Sent == [at |-> "sent"]
Token == [epoch |-> epoch, revision |-> sent]
Still == [armed |-> FALSE, version |-> NoRevision, pages |-> {}]

ReadsInit ==
    /\ data = [p \in Page |-> 0] /\ revision = 0 /\ writer = {} /\ loads = {}
    /\ entries = <<>>
    /\ epoch = 1 /\ known = FALSE /\ sent = 0 /\ changes = <<>> /\ unannounced = {}
    /\ announced = data
    /\ request = [p \in Page |-> Sent]
    /\ shown = [p \in Page |-> [value |-> 0, observed |-> FALSE]]
    /\ poll = NotPolling /\ after = NoRevision /\ version = NoRevision /\ pending = Still
    /\ failing = FALSE /\ hidden = FALSE
    /\ writes = 0 /\ upsets = 0

-----------------------------------------------------------------------------
(* The state's lock: one writer, or any number of readers.                  *)

\* The revision advances before the work, even if the work then fails.
StartWrite ==
    /\ writer = {} /\ loads = {} /\ writes < MaxWrites
    /\ writer' \in SUBSET Page \ {{}}
    /\ revision' = revision + 1
    /\ writes' = writes + 1
    /\ UNCHANGED <<data, loads, entries, updateVars, request, shown, pollVars, upsets>>

\* Whoever awaited the work announces its pages once the lock is free.  Nobody
\* does if it was detached, or starts a run of live results; and the end of an
\* attempt does even when its last closure was refused.
EndWrite ==
    /\ writer' = {}
    /\ unannounced' \in {unannounced, unannounced \cup {[pages |-> writer, write |-> writes]}}
    /\ UNCHANGED <<revision, loads, entries, epoch, known, sent, changes, announced, request,
                   shown, pollVars, boundVars>>

\* A page is staged or a collection published.
CommitWrite ==
    /\ writer # {}
    /\ data' = [p \in Page |-> IF p \in writer THEN data[p] + 1 ELSE data[p]]
    /\ EndWrite

FailWrite == writer # {} /\ EndWrite /\ UNCHANGED data

\* Updates::changed: nobody has subscribed yet, or one more entry and the
\* oldest beyond the bound dropped.
Announce ==
    \E change \in unannounced :
        /\ unannounced' = unannounced \ {change}
        /\ sent' = IF known THEN sent + 1 ELSE sent
        /\ LET kept == Append(changes, change.pages)
               first == IF Len(kept) > History THEN 2 ELSE 1
           IN  changes' = IF known THEN SubSeq(kept, first, Len(kept)) ELSE changes
        /\ announced' = [p \in Page |-> IF p \in change.pages THEN data[p] ELSE announced[p]]
        /\ UNCHANGED <<lockVars, epoch, known, request, shown, pollVars, boundVars>>

-----------------------------------------------------------------------------
(* ReadCache::read_sized, under the read lock.                              *)
\* VecDeque::retain: the entries at these places, in their order.
Retained(list, places) ==
    LET upto[n \in 0..Len(list)] ==
            IF n = 0 THEN <<>>
            ELSE IF n \in places THEN Append(upto[n - 1], list[n]) ELSE upto[n - 1]
    IN  upto[Len(list)]

AnyRevision(n) == TRUE
Usable(n) == entries[n].revision = revision
Current == Retained(entries, {n \in DOMAIN entries : Usable(n)})
Of(p, kept) == Retained(kept, {n \in DOMAIN kept : kept[n].page = p})
OfOthers(p, kept) == Retained(kept, {n \in DOMAIN kept : kept[n].page # p})
Answered(p, value) ==
    request' = [request EXCEPT ![p] =
        [at |-> "answered", value |-> value, observed |-> version # NoRevision]]

\* The first pass keeps the current entries and moves the one it returns last.
ReadFromCache(p) ==
    /\ request[p] = Sent /\ writer = {}
    /\ Of(p, Current) # <<>>
    /\ Answered(p, Of(p, Current)[1].value)
    /\ entries' = OfOthers(p, Current) \o Of(p, Current)
    /\ UNCHANGED <<data, revision, writer, loads, updateVars, shown, pollVars, boundVars>>

\* Nothing current, or nothing of the last thirty seconds: the answer is
\* computed while other readers go on.
StartLoad(p) ==
    /\ request[p] = Sent /\ writer = {}
    /\ entries' = OfOthers(p, Current)
    /\ loads' = loads \cup {[page |-> p, revision |-> revision]}
    /\ request' = [request EXCEPT ![p] = [at |-> "loading"]]
    /\ UNCHANGED <<data, revision, writer, updateVars, shown, pollVars, boundVars>>

\* The answer replaces one of its key; the oldest entries make room.  The
\* dashboard may have given the request up.
FinishLoad ==
    \E load \in loads :
        /\ loads' = loads \ {load}
        /\ LET kept == Retained(entries, {n \in DOMAIN entries :
                           entries[n].page # load.page /\ entries[n].revision = load.revision})
               first == IF Len(kept) >= CacheRoom THEN Len(kept) - CacheRoom + 2 ELSE 1
           IN  entries' = Append(SubSeq(kept, first, Len(kept)),
                    [page |-> load.page, revision |-> load.revision, value |-> data[load.page]])
        /\ IF request[load.page].at = "loading"
           THEN Answered(load.page, data[load.page])
           ELSE UNCHANGED request
        /\ UNCHANGED <<data, revision, writer, updateVars, shown, pollVars, boundVars>>

-----------------------------------------------------------------------------
(* The dashboard's cached answers.                                          *)

\* ResponseCache.invalidate: a read in flight is aborted, and whoever shows
\* the page reads it again.
Reread(pages) == [p \in Page |-> IF p \in pages THEN Sent ELSE request[p]]

\* observeVersion: a first revision only becomes the baseline.
Observe(token, pages) ==
    /\ version' = token
    /\ request' = IF version \notin {NoRevision, token} THEN Reread(pages) ELSE request

SaveEntry(p) ==
    /\ request[p].at = "answered"
    /\ shown' = [shown EXCEPT ![p] = [value |-> request[p].value, observed |-> request[p].observed]]
    /\ request' = [request EXCEPT ![p] = NotPolling]
    /\ UNCHANGED <<lockVars, updateVars, pollVars, boundVars>>

-----------------------------------------------------------------------------
(* The long poll.                                                           *)
Listen ==
    /\ poll = NotPolling /\ ~hidden
    /\ poll' = [at |-> "waiting"]
    /\ known' = TRUE
    /\ UNCHANGED <<lockVars, epoch, sent, changes, unannounced, announced, request, shown,
                   after, version, pending, failing, hidden, boundVars>>

\* The revision moved on, or twenty seconds passed.
Wake ==
    /\ poll.at = "waiting"
    /\ poll' = [at |-> "woken", through |-> Token]
    /\ UNCHANGED <<lockVars, updateVars, request, shown, after, version, pending, failing,
                   hidden, boundVars>>

SinceHeld(through) ==
    IF after.epoch # epoch \/ after.revision > through.revision THEN Page
    ELSE UNION {changes[n] : n \in {k \in DOMAIN changes :
                    k + sent - Len(changes) \in (after.revision + 1)..through.revision}}

\* Updates::changes: everything, unless the history still holds each change
\* since the revision asked from.
Since(through) ==
    IF after = through THEN {}
    ELSE IF \/ after.epoch # epoch
            \/ after.revision > through.revision
            \/ changes = <<>>
            \/ after.revision < sent - Len(changes)
    THEN Page
    ELSE UNION {changes[n - (sent - Len(changes))] :
                n \in (after.revision + 1)..through.revision}

Reply ==
    /\ poll.at = "woken"
    /\ poll' = [at |-> "replied", through |-> poll.through, pages |-> Since(poll.through)]
    /\ UNCHANGED <<lockVars, updateVars, request, shown, after, version, pending, failing,
                   hidden, boundVars>>

\* The first reply is the baseline; a later one is held back by the timer.
Receive ==
    /\ poll.at = "replied"
    /\ IF after = NoRevision
       THEN Observe(poll.through, Page) /\ UNCHANGED pending
       ELSE /\ pending' = IF poll.through = after THEN pending
                          ELSE [armed |-> TRUE, version |-> poll.through,
                                pages |-> pending.pages \cup poll.pages]
            /\ UNCHANGED <<version, request>>
    /\ after' = poll.through
    /\ failing' = FALSE
    /\ poll' = NotPolling
    /\ UNCHANGED <<lockVars, updateVars, shown, hidden, boundVars>>

RefreshPages ==
    /\ pending.armed
    /\ Observe(pending.version, pending.pages)
    /\ pending' = Still
    /\ UNCHANGED <<lockVars, updateVars, shown, poll, after, failing, hidden, boundVars>>

\* The first failure in a row reads everything again.
PollFails ==
    /\ poll # NotPolling
    /\ poll.at = "lost" \/ upsets < MaxUpsets
    /\ upsets' = IF poll.at = "lost" THEN upsets ELSE upsets + 1
    /\ poll' = NotPolling
    /\ failing' = TRUE
    /\ request' = IF failing THEN request ELSE Reread(Page)
    /\ UNCHANGED <<lockVars, updateVars, shown, after, version, pending, hidden, writes>>

Hide ==
    /\ ~hidden /\ upsets < MaxUpsets
    /\ hidden' = TRUE
    /\ upsets' = upsets + 1
    /\ poll' = NotPolling
    /\ pending' = Still
    /\ UNCHANGED <<lockVars, updateVars, request, shown, after, version, failing, writes>>

Show ==
    /\ hidden
    /\ hidden' = FALSE
    /\ after' = NoRevision
    /\ UNCHANGED <<lockVars, updateVars, request, shown, poll, version, pending, failing, boundVars>>

\* The databases survive; the history, the cache and what was being answered
\* or announced do not.  A dashboard that returns is told that everything may
\* have changed.
RestartProcess ==
    /\ upsets < MaxUpsets
    /\ upsets' = upsets + 1
    /\ epoch' = epoch + 1 /\ known' = FALSE /\ sent' = 0 /\ changes' = <<>> /\ unannounced' = {}
    /\ announced' = data
    /\ revision' = 0 /\ writer' = {} /\ loads' = {} /\ entries' = <<>>
    /\ request' = [p \in Page |-> IF request[p].at = "loading" THEN NotPolling ELSE request[p]]
    /\ poll' = IF poll.at \in {"waiting", "woken"} THEN [at |-> "lost"] ELSE poll
    /\ UNCHANGED <<data, shown, after, version, pending, failing, hidden, writes>>

ReadsNext ==
    \/ StartWrite \/ CommitWrite \/ FailWrite \/ Announce
    \/ \E p \in Page : ReadFromCache(p) \/ StartLoad(p) \/ SaveEntry(p)
    \/ FinishLoad
    \/ Listen \/ Wake \/ Reply \/ Receive \/ RefreshPages \/ PollFails
    \/ Hide \/ Show \/ RestartProcess

ReadsSpec == ReadsInit /\ [][ReadsNext]_readsVars

-----------------------------------------------------------------------------
(* Every answer, cached or computed, is what the database held when the     *)
(* request was answered: no entry outlives a write (read_cache.rs:1-2).     *)
AnswersAreCurrent ==
    [][\A p \in Page : request'[p].at = "answered" /\ request[p].at # "answered"
                          => request'[p].value = data[p]]_readsVars

\* The dashboard has nothing left to read, and its poll waits at the last revision.
Quiet ==
    /\ \A p \in Page : request[p] = NotPolling
    /\ poll.at = "waiting" /\ after = Token /\ ~pending.armed

(* A dashboard with nothing left to read shows each page at least as it was *)
(* when it was announced last, whatever was coalesced, dropped from the     *)
(* history, lost with the process or missed while hidden                    *)
(* (live_updates.rs:54-84, live-collection.ts).  A page answered before the *)
(* first revision was observed is not promised this, and nobody is told of  *)
(* what nobody announced.                                                   *)
QuietPagesAreAnnounced ==
    Quiet => \A p \in Page : shown[p].observed => shown[p].value >= announced[p]
=============================================================================
