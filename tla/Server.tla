-------------------------------- MODULE Server --------------------------------
(***************************************************************************)
(* zilli/server/app.py: RateLimiter.check before every request, and the     *)
(* industry endpoint, whose workflow (zilli/industry/workflows.py) audits   *)
(* every answered request with AuditLogger (zilli/audit/logger.py), from    *)
(* whose files ComplianceReporter (zilli/audit/compliance.py) counts.       *)
(* Writes fail and the process crashes; the audit files outlive it.         *)
(* PrivateInference_proofs extends this module too: the names the two would *)
(* share begin with Server here.                                            *)
(***************************************************************************)
EXTENDS Integers, Sequences, FiniteSets, Functions

CONSTANTS
    Client,          \* client addresses, the keys of the limiter
    Tenant,          \* tenants of the industry endpoint
    MaxRequests,     \* RateLimiter.max_requests
    Window,          \* window_seconds
    Capacity,        \* maxlen of the times kept for a key
    CleanupInterval, \* _cleanup_interval
    MaxTime,         \* bound: the clock
    MaxEvents,       \* bound: audit events
    MaxFailures      \* bound: write errors and crashes

\* create_app builds the limiter with its defaults, 60 requests and 100 times.
ASSUME LimitAssumption ==
    /\ {MaxRequests, Window, Capacity, CleanupInterval} \subseteq Nat \ {0}
    /\ MaxRequests <= Capacity
ASSUME BoundAssumption == {MaxTime, MaxEvents, MaxFailures} \subseteq Nat

NoTail == "empty"
Torn == "torn"
ASSUME TenantAssumption == IsFiniteSet(Tenant) /\ {NoTail, Torn} \intersect Tenant = {}

VARIABLES
    now,         \* time.time()
    times,       \* requests: the deque of each key
    lastCleanup, \* _last_cleanup
    admitted,    \* history: the times of the requests let through, by client
    serving,     \* whether the process runs
    working,     \* industry requests waiting for the router, by tenant
    audit,       \* the audit files: whole lines by tenant, what the last file holds
                 \* after its last newline, and whether some file has a line cut
                 \* inside a character; history: events logged by tenant
    failures     \* errors and crashes so far

limiterVars == <<times, lastCleanup, admitted>>
serverVars == <<now, times, lastCleanup, admitted, serving, working, audit, failures>>

SumOver(f, S) == FoldFunctionOnSet(+, 0, f, S)

ServerInit ==
    /\ now = 0
    /\ times = [c \in Client |-> <<>>]
    /\ lastCleanup = 0
    /\ admitted = [c \in Client |-> <<>>]
    /\ serving = TRUE
    /\ working = [t \in Tenant |-> 0]
    /\ audit = [lines |-> [t \in Tenant |-> 0], tail |-> NoTail, cut |-> FALSE,
                logged |-> [t \in Tenant |-> 0]]
    /\ failures = 0

Tick ==
    /\ now < MaxTime
    /\ now' = now + 1
    /\ UNCHANGED <<limiterVars, serving, working, audit, failures>>

-----------------------------------------------------------------------------
(* RateLimiter *)

\* The times that left the window are taken from the front, up to the first
\* that did not.
FirstRecent(dq) ==
    CHOOSE i \in 1..(Len(dq) + 1) :
        /\ \A j \in 1..(i - 1) : dq[j] <= now - Window
        /\ i <= Len(dq) => dq[i] > now - Window

Recent(dq) == SubSeq(dq, FirstRecent(dq), Len(dq))

\* _periodic_cleanup deletes the keys whose last time left the window; a
\* deleted key starts again with an empty deque.
Cleaned_ByFirst ==
    IF now - lastCleanup < CleanupInterval THEN times
    ELSE [c \in Client |-> IF times[c] # <<>> /\ times[c][1] <= now - Window THEN <<>> ELSE times[c]]

Cleaned ==
    IF now - lastCleanup < CleanupInterval THEN times
    ELSE [c \in Client |->
            IF times[c] # <<>> /\ times[c][Len(times[c])] <= now - Window THEN <<>> ELSE times[c]]

\* A full deque of a key drops its first time.
Kept(dq) == IF Len(dq) = Capacity THEN Append(Tail(dq), now) ELSE Append(dq, now)

\* check for a request of client c; TRUE where it is let through.
Admits(c) == Len(Recent(Cleaned[c])) < MaxRequests

Check(c) ==
    LET recent == Recent(Cleaned[c])
    IN  /\ lastCleanup' = IF now - lastCleanup < CleanupInterval THEN lastCleanup ELSE now
        /\ times' = [Cleaned EXCEPT ![c] = IF Admits(c) THEN Kept(recent) ELSE recent]
        /\ admitted' = IF Admits(c) THEN [admitted EXCEPT ![c] = Append(@, now)] ELSE admitted

\* A request that is refused, too large, or answered without an audit event.
Request(c) ==
    /\ serving
    /\ Check(c)
    /\ UNCHANGED <<now, serving, working, audit, failures>>

IndustryRequest(c, t) ==
    /\ serving
    /\ Admits(c)
    /\ Check(c)
    /\ SumOver(audit.logged, Tenant) + 2 * SumOver(working, Tenant) + 2 <= MaxEvents
    /\ working' = [working EXCEPT ![t] = @ + 1]
    /\ UNCHANGED <<now, serving, audit, failures>>

-----------------------------------------------------------------------------
(* AuditLogger *)

\* An event after a torn line ends that line, which then is no JSON.
Log_NoNewline(a, t) ==
    [a EXCEPT !.logged[t] = @ + 1, !.tail = IF @ = NoTail THEN t ELSE Torn]

Log(a, t) ==
    [lines |-> IF a.tail = NoTail THEN [a.lines EXCEPT ![t] = @ + 1] ELSE a.lines,
     tail |-> NoTail,
     cut |-> a.cut,
     logged |-> [a.logged EXCEPT ![t] = @ + 1]]

\* An OSError, which log() swallows, or a crash while it writes: the whole line,
\* nothing, all of it but the newline, or a part of it is in the file.  The lines
\* are not escaped to ASCII, and a part may end inside a character.
Unwritten(a, t) ==
    {Log(a, t)}
    \union {[a EXCEPT !.logged[t] = @ + 1, !.tail = end] :
               end \in {a.tail, Torn, IF a.tail = NoTail THEN t ELSE Torn}}
    \union {[a EXCEPT !.logged[t] = @ + 1, !.tail = Torn, !.cut = TRUE]}

Outcomes(a, t) == {[files |-> Log(a, t), failed |-> 0]} \union [files : Unwritten(a, t), failed : {1}]

\* The router has answered: audit_call logs the route and an error, if the
\* answer carries one.
Answer(t) ==
    /\ serving
    /\ working[t] > 0
    /\ working' = [working EXCEPT ![t] = @ - 1]
    /\ \E route \in Outcomes(audit, t) :
         \E error \in {[files |-> route.files, failed |-> 0]} \union Outcomes(route.files, t) :
           /\ failures + route.failed + error.failed <= MaxFailures
           /\ failures' = failures + route.failed + error.failed
           /\ audit' = error.files
    /\ UNCHANGED <<now, limiterVars, serving>>

\* The router raised: the endpoint answers 500 and no event is written.
AnswerFails(t) ==
    /\ serving
    /\ working[t] > 0
    /\ working' = [working EXCEPT ![t] = @ - 1]
    /\ UNCHANGED <<now, limiterVars, serving, audit, failures>>

\* Events of another day go to another file: what the old one ends with is a line.
Closed(a) ==
    [lines |-> IF a.tail \in Tenant THEN [a.lines EXCEPT ![a.tail] = @ + 1] ELSE a.lines,
     tail |-> NoTail,
     cut |-> a.cut,
     logged |-> a.logged]

NewDay ==
    /\ audit.tail # NoTail
    /\ audit' = Closed(audit)
    /\ UNCHANGED <<now, limiterVars, serving, working, failures>>

Stopped ==
    /\ serving' = FALSE
    /\ working' = [t \in Tenant |-> 0]
    /\ times' = [c \in Client |-> <<>>]
    /\ lastCleanup' = 0
    /\ admitted' = [c \in Client |-> <<>>]
    /\ UNCHANGED now

ServerCrash ==
    /\ serving
    /\ failures < MaxFailures
    /\ failures' = failures + 1
    /\ \/ UNCHANGED audit
       \/ \E t \in Tenant : working[t] > 0 /\ audit' \in Unwritten(audit, t)
    /\ Stopped

\* The lifespan of the application initialises every part before a request.
ServerRestart ==
    /\ ~serving
    /\ serving' = TRUE
    /\ UNCHANGED <<now, limiterVars, working, audit, failures>>

-----------------------------------------------------------------------------
(* ComplianceReporter.generate over all files: lines that are no JSON are skipped, *)
(* but a file that does not decode raises, then and ever after.                     *)
Counted(a, t) == a.lines[t] + (IF a.tail = t THEN 1 ELSE 0)

\* The report generate returns, total_requests by tenant: none where it raises.
Report(a) == IF a.cut THEN {} ELSE {[t \in Tenant |-> Counted(a, t)]}

ServerNext ==
    \/ Tick
    \/ \E c \in Client : Request(c)
    \/ \E c \in Client, t \in Tenant : IndustryRequest(c, t)
    \/ \E t \in Tenant : Answer(t) \/ AnswerFails(t)
    \/ NewDay
    \/ ServerCrash
    \/ ServerRestart

ServerSpec == ServerInit /\ [][ServerNext]_serverVars

-----------------------------------------------------------------------------
(* Properties *)

AuditFiles ==
    [lines : [Tenant -> Nat], tail : Tenant \union {NoTail, Torn}, cut : BOOLEAN,
     logged : [Tenant -> Nat]]

ServerTypeOK ==
    /\ now \in Nat /\ lastCleanup \in Nat
    /\ times \in [Client -> Seq(Nat)] /\ admitted \in [Client -> Seq(Nat)]
    /\ serving \in BOOLEAN
    /\ working \in [Tenant -> Nat]
    /\ audit \in AuditFiles
    /\ failures \in Nat

\* The times the limiter keeps of a client are the last ones at which it let the
\* client through; the ones it dropped have left the window.
Latest(dq, adm, time) ==
    LET dropped == Len(adm) - Len(dq)
    IN  /\ Len(dq) <= Len(adm) /\ Len(dq) <= MaxRequests
        /\ \A i \in 1..Len(dq) : dq[i] = adm[dropped + i]
        /\ \A i \in 1..dropped : adm[i] + Window <= time
        /\ \A i \in 1..Len(adm) : adm[i] <= time /\ \A j \in i..Len(adm) : adm[i] <= adm[j]

TimesAreLatest == \A c \in Client : Latest(times[c], admitted[c], now)

\* What the tail of a file may still cost the report: a line without its newline
\* is lost with the next event, which alone is lost after a torn one.
AtStake(a) == CASE a.tail = NoTail -> 0 [] a.tail = Torn -> 1 [] OTHER -> 2

Missed(a) == [t \in Tenant |-> a.logged[t] - Counted(a, t)]

Accounted(a, failed) ==
    /\ \A t \in Tenant : Counted(a, t) <= a.logged[t]
    /\ SumOver(Missed(a), Tenant) + AtStake(a) <= 2 * failed
    /\ a.cut => failed > 0

MissesAccounted == Accounted(audit, failures)

\* Any MaxRequests + 1 of these times do not fit into one window.
Spread(adm) ==
    \A i \in 1..Len(adm) : i > MaxRequests => adm[i] >= adm[i - MaxRequests] + Window

\* No client gets more than max_requests requests through in any window,
\* whenever the periodic cleanup runs and whoever's request triggers it
\* (RateLimiter.check, _periodic_cleanup).
RateBound == \A c \in Client : Spread(admitted[c])

\* A compliance report counts no event that was not logged, and misses at most
\* two events per failed write: the one that failed and the one that is
\* appended to its torn line.  No report at all comes only after a failed write,
\* the one that cut a character (log, generate).
ReportMissesFew ==
    /\ \A total \in Report(audit) :
         /\ \A t \in Tenant : total[t] <= audit.logged[t]
         /\ SumOver([t \in Tenant |-> audit.logged[t] - total[t]], Tenant) <= 2 * failures
    /\ Report(audit) = {} => failures > 0

=============================================================================
