----------------------------- MODULE DecodeQuota -----------------------------
(***************************************************************************)
(* The daily decode quota of one user: services/permission.py              *)
(* (check_decode_permission and refund_user_quota, called by idx_bot for   *)
(* every code a user sends) over the user_quota row of SQLite, with the    *)
(* Redis read cache of CacheStoreRouter.get_user_quota and the routing of  *)
(* writes: a charge (try_consume_quota) and a refund go straight to the    *)
(* row, while the daily reset, the level change and the first copy of a    *)
(* user are whole-row upserts that db_writer applies later.                *)
(*                                                                         *)
(* This is the production setting WRITER_MODE=redis.  What the queue does  *)
(* to a write is WritePipeline's; here a pending upsert is applied at some *)
(* time, in the order of the calls or, when dead letters may return, not.  *)
(* idx_bot handles one update at a time, so one request ends before the    *)
(* next begins; db_writer, the expiry of the cache, the calendar and the   *)
(* administrators run beside it.                                           *)
(*                                                                         *)
(* A charge or a refund that raises leaves the transaction of idx_bot's    *)
(* connection open: idx_bot sees what it did, db_writer cannot write, and  *)
(* whatever else idx_bot does next commits it or rolls it back.            *)
(*                                                                         *)
(* One of the two counters of the row is modelled, used_today, and the     *)
(* daily quota of a level is fixed.                                        *)
(***************************************************************************)
EXTENDS Naturals, FiniteSets, SequencesExt

CONSTANTS
    Requests,   \* decode commands of the user, each handled once
    FreeQuota,  \* FREE_DAILY_QUOTA
    ReadErrors, \* whether the SELECT of user_quota may fail
    Reordered,  \* whether dead letters return, behind younger upserts
    MaxErrors,  \* bound: charges and refunds that raise, within their three attempts
    MaxDay      \* bound: calendar days 1..MaxDay

ASSUME QuotaAssumption ==
    /\ IsFiniteSet(Requests)
    /\ FreeQuota \in Nat \ {0}
    /\ ReadErrors \in BOOLEAN
    /\ Reordered \in BOOLEAN
    /\ MaxErrors \in Nat
    /\ MaxDay \in Nat \ {0}

Levels == {"free", "premium"}

\* A row of user_quota (quota_date 0: no date), and the absence of one.
Rows  == [level: Levels \cup {"none"}, used: Nat, day: 0..MaxDay]
NoRow == [level |-> "none", used |-> 0, day |-> 0]

\* A copy of the row as somebody holds it.  "at" is history: how many charges
\* and refunds the row had seen, or lost, when the copy was taken.
Copies == [row: Rows, at: Nat]
NoCopy == [row |-> NoRow, at |-> 0]

VARIABLES
    day,      \* today, in China time
    level,    \* the membership level get_user_cached returns
    row,      \* the user_quota row of SQLite, as idx_bot sees it
    open,     \* idx_bot's connection is in a transaction
    kept,     \* the row a rollback returns to
    moves,    \* history: charges and refunds the row has seen or lost
    cache,    \* cache:user_quota:<id> in Redis
    pending,  \* queue of upserts of the row that db_writer has not applied
    pc,       \* [Requests -> where the request is]
    today,    \* [Requests -> the day it took for today]
    asked,    \* [Requests -> the level it read]
    copy,     \* [Requests -> q, its copy of the row]
    paid,     \* requests whose charge moved the counter and was not to be refunded
    raced,    \* history: days on which the count was raced (see below)
    leaked,   \* history: days on which a charge or a refund raised
    errors    \* how many did

reqVars == <<pc, today, asked, copy>>
txVars == <<open, kept, leaked, errors>>
vars == <<day, level, row, moves, cache, pending, reqVars, paid, raced, txVars>>

Steps == {"new", "read", "fill", "level", "reset", "charge", "again", "select",
          "uncache", "granted", "refunding", "delivered", "refunded", "denied", "exhausted", "crashed"}
Over == {"delivered", "refunded", "denied", "exhausted", "crashed"}

TypeOK ==
    /\ day \in 1..MaxDay
    /\ level \in Levels
    /\ row \in Rows /\ kept \in Rows
    /\ open \in BOOLEAN
    /\ moves \in Nat
    /\ cache \in Copies
    /\ pending \in Seq(Copies)
    /\ pc \in [Requests -> Steps]
    /\ today \in [Requests -> 0..MaxDay]
    /\ asked \in [Requests -> Levels]
    /\ copy \in [Requests -> Copies]
    /\ paid \subseteq Requests
    /\ raced \subseteq 0..MaxDay /\ leaked \subseteq 0..MaxDay
    /\ errors \in 0..MaxErrors

Init ==
    /\ day = 1
    /\ level = "free"
    /\ row = NoRow /\ kept = NoRow /\ open = FALSE
    /\ moves = 0
    /\ cache = NoCopy
    /\ pending = <<>>
    /\ pc = [r \in Requests |-> "new"]
    /\ today = [r \in Requests |-> 0]
    /\ asked = [r \in Requests |-> "free"]
    /\ copy = [r \in Requests |-> NoCopy]
    /\ paid = {}
    /\ raced = {} /\ leaked = {}
    /\ errors = 0

-----------------------------------------------------------------------------
(* check_decode_permission, up to the decision.                            *)

Goto(r, step) == pc' = [pc EXCEPT ![r] = step]

\* get_user_cached, and the date of today.
Begin(r) ==
    /\ pc[r] = "new"
    /\ \A q \in Requests : pc[q] \in Over \cup {"new"}
    /\ Goto(r, "read")
    /\ today' = [today EXCEPT ![r] = day]
    /\ asked' = [asked EXCEPT ![r] = level]
    /\ UNCHANGED <<day, level, row, moves, cache, pending, copy, paid, raced, txVars>>

\* The router finds the row in Redis.
ReadCache(r) ==
    /\ pc[r] = "read"
    /\ cache # NoCopy
    /\ copy' = [copy EXCEPT ![r] = cache]
    /\ Goto(r, "level")
    /\ UNCHANGED <<day, level, row, moves, cache, pending, today, asked, paid, raced, txVars>>

\* Redis has nothing; the router selects the row and will fill the cache.
ReadRow(r) ==
    /\ pc[r] = "read"
    /\ cache = NoCopy
    /\ row # NoRow
    /\ copy' = [copy EXCEPT ![r] = [row |-> row, at |-> moves]]
    /\ Goto(r, "fill")
    /\ UNCHANGED <<day, level, row, moves, cache, pending, today, asked, paid, raced, txVars>>

\* The SELECT raises: CacheStore.get_user_quota answers with a row of zeros.
ReadFails(r) ==
    /\ ReadErrors
    /\ pc[r] = "read"
    /\ cache = NoCopy
    /\ copy' = [copy EXCEPT ![r] =
                    [row |-> [level |-> "free", used |-> 0, day |-> 0], at |-> moves]]
    /\ Goto(r, "fill")
    /\ raced' = raced \cup {day}
    /\ UNCHANGED <<day, level, row, moves, cache, pending, today, asked, paid, txVars>>

\* The cache is set to what was selected before, whatever happened since.
Fill(r) ==
    /\ pc[r] = "fill"
    /\ cache' = copy[r]
    /\ Goto(r, "level")
    /\ UNCHANGED <<day, level, row, moves, pending, today, asked, copy, paid, raced, txVars>>

\* upsert_user_quota: the whole row goes to the queue.
Upsert(c) == pending' = Append(pending, c)

\* No row yet: _init_quota_from_crdb makes one from the user record.
InitRow(r) ==
    /\ pc[r] = "read"
    /\ cache = NoCopy
    /\ row = NoRow
    /\ LET c == [row |-> [level |-> level, used |-> 0, day |-> 0], at |-> moves]
       IN  /\ copy' = [copy EXCEPT ![r] = c]
           /\ Upsert(c)
    /\ Goto(r, "level")
    /\ UNCHANGED <<day, level, row, moves, cache, today, asked, paid, raced, txVars>>

\* The level of the copy follows the level of the user.
SyncLevel(r) ==
    /\ pc[r] = "level"
    /\ IF copy[r].row.level = asked[r]
       THEN UNCHANGED <<copy, pending>>
       ELSE LET c == [copy[r] EXCEPT !.row.level = asked[r]]
            IN  copy' = [copy EXCEPT ![r] = c] /\ Upsert(c)
    /\ Goto(r, "reset")
    /\ UNCHANGED <<day, level, row, moves, cache, today, asked, paid, raced, txVars>>

\* A copy of another day starts at zero, with the date of now.
Outdated(r) == copy[r].row.day # today[r]
\* Mutant: the date moves and the counter does not.
ResetOf_KeepsCount(r, c) ==
    IF Outdated(r) THEN [c EXCEPT !.row.day = day] ELSE c
ResetOf(r, c) ==
    IF Outdated(r) THEN [c EXCEPT !.row.used = 0, !.row.day = day] ELSE c

\* A user whose copy has no quota left is refused; premium has no limit.
Refused(r, c) == asked[r] # "premium" /\ c.row.used >= FreeQuota

\* _reset_quota_if_needed and the decision on the copy.
ResetAndDecide(r) ==
    /\ pc[r] = "reset"
    /\ LET c == ResetOf(r, copy[r])
       IN  /\ copy' = [copy EXCEPT ![r] = c]
           /\ IF Outdated(r) THEN Upsert(c) ELSE UNCHANGED pending
           /\ Goto(r, IF Refused(r, c) THEN "denied" ELSE "charge")
    /\ raced' = IF Outdated(r) /\ today[r] # day THEN raced \cup {day} ELSE raced
    /\ UNCHANGED <<day, level, row, moves, cache, today, asked, paid, txVars>>

\* The code is unknown, offline, expired or used up.
RefuseCode(r) ==
    /\ pc[r] = "charge"
    /\ Goto(r, "denied")
    /\ UNCHANGED <<day, level, row, moves, cache, pending, today, asked, copy, paid, raced, txVars>>

-----------------------------------------------------------------------------
(* Charge and refund, on the row itself.                                   *)

\* The commit() of idx_bot's connection; and the end of its transaction without one.
Committed  == open' = FALSE /\ kept' = row'
RolledBack ==
    /\ open' = FALSE /\ row' = kept /\ UNCHANGED kept
    /\ moves' = IF row = kept THEN moves ELSE moves + 1

\* A statement or its commit() raises, and the transaction is left open.
Raises == errors < MaxErrors /\ errors' = errors + 1 /\ open' = TRUE /\ UNCHANGED kept

Charging(r) == pc[r] \in {"charge", "again"}

\* Mutants: a charge without the comparison, and one that stops before the last unit.
CanCharge_Always == row.level = "premium" \/ row.level = "free"

\* The WHERE clause of try_consume_quota, and its SET: a premium row is matched and its
\* counter stays.
CanCharge == row.level = "premium" \/ (row.level = "free" /\ row.used < FreeQuota)
AddOne    == row' = [row EXCEPT !.used = @ + 1] /\ moves' = moves + 1

\* try_consume_quota: one conditional UPDATE.
Charge(r) ==
    /\ Charging(r)
    /\ CanCharge
    /\ Goto(r, "uncache")
    /\ IF row.level = "premium"
       THEN UNCHANGED <<row, moves, paid, raced>>
       ELSE /\ AddOne
            /\ paid' = paid \cup {r}
            /\ raced' = IF row.day = today[r] THEN raced ELSE raced \cup {row.day, today[r]}
    /\ Committed
    /\ UNCHANGED <<day, level, cache, pending, today, asked, copy, leaked, errors>>

\* No row, or none left.
ChargeFails(r) ==
    /\ Charging(r)
    /\ ~CanCharge
    /\ Goto(r, "select")
    /\ UNCHANGED <<day, level, row, moves, cache, pending, today, asked, copy, paid, raced,
                   leaked, errors>>
    /\ Committed

\* The UPDATE or the commit() after it raises, and the charge is tried again (the
\* database is locked) or refused.  The increment of an UPDATE that went well stays in
\* the open transaction.
ChargeRaises(r) ==
    /\ Charging(r)
    /\ Raises
    /\ \E step \in {"again", "exhausted"} : Goto(r, step)
    /\ \/ UNCHANGED <<row, moves, leaked>>
       \/ /\ CanCharge /\ row.level = "free"
          /\ AddOne
          /\ leaked' = leaked \cup {row.day}
    /\ UNCHANGED <<day, level, cache, pending, today, asked, copy, paid, raced>>

\* The row is read again: premium is granted, anybody else refused, "used up by
\* concurrent requests since the check".
Recheck(r) ==
    /\ pc[r] = "select"
    /\ Goto(r, IF row.level = "premium" THEN "uncache" ELSE "exhausted")
    /\ UNCHANGED <<day, level, row, moves, cache, pending, today, asked, copy, paid, raced, txVars>>

\* The SELECT raises, like a charge; no transaction is begun for it.
RecheckRaises(r) ==
    /\ pc[r] = "select"
    /\ errors < MaxErrors /\ errors' = errors + 1
    /\ \E step \in {"again", "exhausted"} : Goto(r, step)
    /\ UNCHANGED <<day, level, row, moves, cache, pending, today, asked, copy, paid, raced,
                   open, kept, leaked>>

\* After a successful charge the router drops the cached copy; the DEL may fail.
Uncache(r) ==
    /\ pc[r] = "uncache"
    /\ cache' \in {NoCopy, cache}
    /\ Goto(r, "granted")
    /\ UNCHANGED <<day, level, row, moves, pending, today, asked, copy, paid, raced, txVars>>

\* The code is dispatched.
Deliver(r) ==
    /\ pc[r] = "granted"
    /\ Goto(r, "delivered")
    /\ UNCHANGED <<day, level, row, moves, cache, pending, today, asked, copy, paid, raced, txVars>>

\* Mutant: the level is not looked at, and the counter has no floor.
RefundOf_NoFloor(w) == [w EXCEPT !.used = @ - 1]

\* A row of a premium user has no count to take from.
RefundOf(w) == IF w.level = "free" /\ w.used > 0 THEN [w EXCEPT !.used = @ - 1] ELSE w

\* The refund is the charge of this request taken back.
Returns(r) == r \in paid /\ row.level = "free" /\ row.day = today[r]

Refunding(r) == pc[r] \in {"granted", "refunding"}

\* The UPDATE of refund_quota.
TakeBack(r) ==
    /\ row' = RefundOf(row)
    /\ moves' = IF row.level = "free" THEN moves + 1 ELSE moves
    /\ paid' = paid \ {r}
    /\ raced' = IF Returns(r) \/ (r \notin paid /\ row.level # "free")
                THEN raced ELSE raced \cup {row.day, today[r]}

\* The dispatch failed or was refused: refund_user_quota.  The cached copy stays.
Refund(r) ==
    /\ Refunding(r)
    /\ Goto(r, "refunded")
    /\ TakeBack(r)
    /\ Committed
    /\ UNCHANGED <<day, level, cache, pending, today, asked, copy, leaked, errors>>

\* The UPDATE raises, and the refund is tried again or dropped without a word; or the
\* commit() after it does, and the refund, tried again, may take back twice.
RefundRaises(r) ==
    /\ Refunding(r)
    /\ Raises
    /\ \/ Goto(r, "refunding") /\ UNCHANGED <<row, moves, paid, raced, leaked>>
       \/ /\ Goto(r, "refunded")
          /\ paid' = paid \ {r}
          /\ leaked' = IF r \in paid THEN leaked \cup {today[r]} ELSE leaked
          /\ UNCHANGED <<row, moves, raced>>
       \/ /\ \E step \in {"refunding", "refunded"} : Goto(r, step)
          /\ TakeBack(r)
          /\ leaked' = leaked \cup {row.day, today[r]}
    /\ UNCHANGED <<day, level, cache, pending, today, asked, copy>>

\* idx_bot restarts; the request it was handling is gone.
Crash(r) ==
    /\ pc[r] \notin Over \cup {"new"}
    /\ Goto(r, "crashed")
    /\ RolledBack
    /\ UNCHANGED <<day, level, cache, pending, today, asked, copy, paid, raced, leaked, errors>>

\* Another method of idx_bot commits what is open, or rolls it back.
OthersCommit ==
    /\ open
    /\ UNCHANGED <<day, level, row, moves, cache, pending, reqVars, paid, raced, leaked, errors>>
    /\ Committed

OthersRollBack ==
    /\ open /\ RolledBack
    /\ UNCHANGED <<day, level, cache, pending, reqVars, paid, raced, leaked, errors>>

-----------------------------------------------------------------------------
(* Writer, cache, calendar, and the level an administrator sets.           *)

\* The copy an upsert carries has missed a charge or a refund.
Stale(c) == c.at # moves

\* db_writer replaces the row, when no other transaction holds the database, then
\* deletes the cached copy; the DEL may fail, and is not repeated.
Apply(i) ==
    /\ Reordered \/ i = 1
    /\ ~open
    /\ row' = pending[i].row
    /\ kept' = row'
    /\ cache' \in {NoCopy, cache}
    /\ pending' = RemoveAt(pending, i)
    /\ raced' = IF Stale(pending[i]) THEN raced \cup {row.day, pending[i].row.day} ELSE raced
    /\ UNCHANGED <<day, level, moves, reqVars, paid, open, leaked, errors>>

\* WRITER_CACHE_TTL_QUOTA has passed.
Expire ==
    /\ cache # NoCopy
    /\ cache' = NoCopy
    /\ UNCHANGED <<day, level, row, moves, pending, reqVars, paid, raced, txVars>>

Midnight ==
    /\ day < MaxDay
    /\ day' = day + 1
    /\ UNCHANGED <<level, row, moves, cache, pending, reqVars, paid, raced, txVars>>

ChangeLevel ==
    /\ level' \in Levels \ {level}
    /\ UNCHANGED <<day, row, moves, cache, pending, reqVars, paid, raced, txVars>>

Check(r) ==
    \/ Begin(r) \/ ReadCache(r) \/ ReadRow(r) \/ ReadFails(r) \/ Fill(r)
    \/ InitRow(r) \/ SyncLevel(r) \/ ResetAndDecide(r) \/ RefuseCode(r)

Settle(r) ==
    \/ Charge(r) \/ ChargeFails(r) \/ ChargeRaises(r) \/ Recheck(r) \/ RecheckRaises(r)
    \/ Uncache(r) \/ Deliver(r) \/ Refund(r) \/ RefundRaises(r) \/ Crash(r)

Next ==
    \/ \E r \in Requests: Check(r) \/ Settle(r)
    \/ \E i \in 1..Len(pending): Apply(i)
    \/ OthersCommit \/ OthersRollBack
    \/ Expire \/ Midnight \/ ChangeLevel

Spec == Init /\ [][Next]_vars

-----------------------------------------------------------------------------
(* Properties.                                                             *)
(*                                                                         *)
(* "raced" names the days on which the counter may have gone wrong, and it *)
(* grows only in these six cases: an upsert whose copy missed a charge or  *)
(* a refund replaces the row; a charge or a refund lands on a row of       *)
(* another day; a refund finds a row whose level is not the one that was   *)
(* charged; a refund takes its charge back twice, because the first        *)
(* commit() raised; a request that began before midnight resets the row    *)
(* after it; a SELECT fails.  "leaked" names those on which it may only be *)
(* too high: a charge that raised left its increment behind, or a refund   *)
(* that raised was dropped or is rolled back.  The invariants say that     *)
(* there is nothing else.                                                  *)

\* Charges of the requests of day d that were not to be refunded.
Charged(d) == {r \in Requests : r \in paid /\ today[r] = d}

\* The counter of the row is the number of charges of its day that stand, on every day
\* without a race and without a charge or a refund that raised (try_consume_quota,
\* refund_quota and _reset_quota_if_needed against each other).
CountExactUnlessRaced ==
    row.day > 0 /\ row.day \notin raced \cup leaked
        => row.used = Cardinality(Charged(row.day))

\* Nobody is charged more often than the daily quota on a day without a race, whatever
\* raised: the conditional UPDATE of try_consume_quota closes the gap between the check
\* of a copy and the charge, and an error only leaves the counter too high.
QuotaHeldUnlessRaced ==
    \A d \in 1..MaxDay : d \notin raced => Cardinality(Charged(d)) <= FreeQuota

\* A request that passed its check and is then told that the quota is used up finds a
\* full day, one whose count went wrong, or a row that an upsert still waiting in the
\* queue has not created or moved to its day; or its charge raised.
DenialExplained ==
    [][\A r \in Requests : Charging(r) /\ pc'[r] \in {"select", "exhausted"} =>
          \/ errors' > errors
          \/ row.day # today[r]
          \/ today[r] \in raced \cup leaked
          \/ Cardinality(Charged(today[r])) >= FreeQuota]_vars

=============================================================================
