-------------------------- MODULE LogPatternMonitor --------------------------
(***************************************************************************)
(* The log pattern monitor (pkg/monitors/custom/logpattern.go): one error  *)
(* pattern and the log it is looked for in, which is a unit's journal, the *)
(* kernel journal or /dev/kmsg.  Every line of the log matches; the clock  *)
(* counts seconds.  Reading takes time, and lines are logged meanwhile.    *)
(***************************************************************************)
EXTENDS Integers, Sequences, FiniteSets, SequencesExt

CONSTANTS
    MaxTime,              \* bound on the clock
    MaxLines,             \* bound on the lines logged
    MaxLag,               \* how long a read may take
    MaxEventsPerPattern,
    DedupWindow,
    LastLines,            \* lines of a first read (100 in the code)
    CleanupInterval       \* 10 minutes in the code

ASSUME LogPatternAssumption ==
    /\ MaxLag \in Nat /\ LastLines \in Nat
    /\ MaxEventsPerPattern \in Nat \ {0} /\ DedupWindow \in Nat \ {0}

VARIABLES
    source,       \* configuration: which log
    log,          \* the time of each line
    now,
    reading,      \* lines of the read under way, Idle if there is none
    lastCheck,    \* lastJournalCheck of the unit, lastKernelJournalCheck; Never at first
    lastEvent,    \* patternLastEvent; Never if there is none
    eventCount,   \* patternEventCount
    lastCleanup,
    condition,    \* the last reported value of the pattern's condition
    first,        \* history: the first line of the first read, or the next one; 0 before it
    readUpTo,     \* history: the lines that were there when the last finished read began
    examined,     \* history: lines matched against the pattern
    events,       \* history: times of the events reported
    forgotten     \* history: the cleanup forgot when the journal was read

trackVars == <<lastEvent, eventCount>>
logVars == <<source, log, now, reading, lastCheck, trackVars, lastCleanup, condition, first,
             readUpTo, examined, events, forgotten>>

Never == -1
Idle == [at |-> Never, lines |-> <<>>, size |-> 0]
LinesAt(from, to) == [i \in 1 .. to - from + 1 |-> from + i - 1]
Later(a, b) == IF a > b THEN a ELSE b

LogPatternInit ==
    /\ source \in {"unit journal", "kernel journal", "kmsg"}
    /\ log = <<>> /\ now = 0 /\ reading = Idle
    /\ lastCheck = Never /\ lastEvent = Never /\ eventCount = 0
    /\ lastCleanup = 0 /\ condition = "none"
    /\ first = 0 /\ readUpTo = 0 /\ examined = {} /\ events = <<>> /\ forgotten = FALSE

----------------------------------------------------------------------------
(* The node logs a line; time passes. *)
LogLine ==
    /\ Len(log) < MaxLines
    /\ log' = Append(log, now)
    /\ UNCHANGED <<source, now, reading, lastCheck, trackVars, lastCleanup, condition, first,
                   readUpTo, examined, events, forgotten>>

Tick ==
    /\ now < MaxTime
    /\ reading # Idle => now < reading.at + MaxLag
    /\ now' = now + 1
    /\ UNCHANGED <<source, log, reading, lastCheck, trackVars, lastCleanup, condition, first,
                   readUpTo, examined, events, forgotten>>

----------------------------------------------------------------------------
(* cleanupExpiredEntries: at most every ten minutes, entries older than    *)
(* twice the window go, the last read of a unit's journal among them.      *)
Expired(t) == t # Never /\ t < now - 2 * DedupWindow
CleanupExpiredEntries ==
    IF now - lastCleanup < CleanupInterval THEN UNCHANGED <<lastCheck, trackVars, lastCleanup, forgotten>>
    ELSE /\ lastCleanup' = now
         /\ lastEvent' = IF Expired(lastEvent) THEN Never ELSE lastEvent
         /\ eventCount' = IF Expired(lastEvent) THEN 0 ELSE eventCount
         /\ lastCheck' = IF source = "unit journal" /\ Expired(lastCheck) THEN Never ELSE lastCheck
         /\ forgotten' = (forgotten \/ lastCheck' # lastCheck)

MutNoOverlap(since) ==
    LET recent == {i \in DOMAIN log : log[i] >= since}
        start == IF since = Never THEN Later(1, Len(log) - LastLines + 1)
                 ELSE Len(log) - Cardinality(recent) + 1
    IN  LinesAt(start, Len(log))

(* checkKernelJournal, checkJournalUnit: what journalctl prints, the lines *)
(* since one second before the last read or, at first, the last ones.      *)
JournalLines(since) ==
    LET recent == {i \in DOMAIN log : log[i] >= since - 1}
        start == IF since = Never THEN Later(1, Len(log) - LastLines + 1)
                 ELSE Len(log) - Cardinality(recent) + 1
    IN  LinesAt(start, Len(log))

(* checkLogPatterns starts: the cleanup, then the log is opened.  ReadKmsg *)
(* seeks to the end of the log, so nothing logged so far is read.          *)
BeginCheck ==
    /\ reading = Idle
    /\ CleanupExpiredEntries
    /\ reading' = [at |-> now, size |-> Len(log),
                   lines |-> IF source = "kmsg" THEN <<>> ELSE JournalLines(lastCheck')]
    /\ UNCHANGED <<source, log, now, condition, first, readUpTo, examined, events>>

MutWindowEdge(s) ==
    IF s.last = Never \/ now - s.last >= DedupWindow
    THEN [last |-> now, count |-> 1, reported |-> s.reported + 1]
    ELSE IF s.count >= MaxEventsPerPattern THEN s
    ELSE [last |-> now, count |-> s.count + 1, reported |-> s.reported + 1]

(* shouldReportEvent: a line is reported, and counted, or suppressed. *)
ShouldReportEvent(s) ==
    IF s.last = Never \/ now - s.last > DedupWindow
    THEN [last |-> now, count |-> 1, reported |-> s.reported + 1]
    ELSE IF s.count >= MaxEventsPerPattern THEN s
    ELSE [last |-> now, count |-> s.count + 1, reported |-> s.reported + 1]

(* matchPatterns on each line; after[k] is what was tracked and reported   *)
(* after k of them.                                                        *)
MatchPatterns(lines) ==
    LET after[k \in 0 .. Len(lines)] ==
            IF k = 0 THEN [last |-> lastEvent, count |-> eventCount, reported |-> 0]
            ELSE ShouldReportEvent(after[k - 1])
    IN  after[Len(lines)]

(* The end of checkLogPatterns: the condition of an error pattern, which   *)
(* is not reported when every match was suppressed.                        *)
ReportedCondition(lines, reported) ==
    IF reported > 0 THEN "True" ELSE IF lines = <<>> THEN "False" ELSE condition

(* The read ends: the lines are matched.  Only a journal keeps the time;   *)
(* from /dev/kmsg come the lines logged since the log was opened.          *)
EndCheck ==
    LET lines == IF source = "kmsg" THEN LinesAt(reading.size + 1, Len(log)) ELSE reading.lines
        result == MatchPatterns(lines)
    IN  /\ reading # Idle
        /\ lastCheck' = IF source = "kmsg" THEN lastCheck ELSE now
        /\ lastEvent' = result.last /\ eventCount' = result.count
        /\ events' = events \o [i \in 1 .. result.reported |-> now]
        /\ condition' = ReportedCondition(lines, result.reported)
        /\ examined' = examined \cup ToSet(lines)
        /\ readUpTo' = reading.size
        /\ first' = IF first = 0 THEN reading.size - Len(reading.lines) + 1 ELSE first
        /\ reading' = Idle
        /\ UNCHANGED <<source, log, now, lastCleanup, forgotten>>

(* The read fails: nothing is matched and the time of the last one stays. *)
FailCheck ==
    /\ reading # Idle
    /\ reading' = Idle
    /\ condition' = ReportedCondition(<<>>, 0)
    /\ UNCHANGED <<source, log, now, lastCheck, trackVars, lastCleanup, first, readUpTo,
                   examined, events, forgotten>>

LogPatternNext == LogLine \/ Tick \/ BeginCheck \/ EndCheck \/ FailCheck

LogPatternSpec == LogPatternInit /\ [][LogPatternNext]_logVars

----------------------------------------------------------------------------
(* At most maxEventsPerPattern events of a pattern in any stretch of time  *)
(* as long as the window, whenever the checks run and whatever the cleanup *)
(* forgets (shouldReportEvent, cleanupExpiredEntries).                     *)
EventRate ==
    \A i \in DOMAIN events :
        i + MaxEventsPerPattern \in DOMAIN events
        => events[i + MaxEventsPerPattern] - events[i] > DedupWindow

(* Why: eventCount is the number of events since the last time the window  *)
(* had passed, and those before are further away from each of them.        *)
Grouped ==
    /\ eventCount \in 0 .. MaxEventsPerPattern /\ eventCount <= Len(events)
    /\ \A i \in 1 .. Len(events) - eventCount :
         \A j \in Len(events) - eventCount + 1 .. Len(events) : events[j] - events[i] > DedupWindow
LastIsKnown ==
    IF lastEvent = Never
    THEN eventCount = 0 /\ \A i \in DOMAIN events : now - events[i] > DedupWindow
    ELSE eventCount > 0 /\ lastEvent = events[Len(events)]
EventsSpaced ==
    /\ now \in Nat /\ lastEvent \in Nat \cup {Never}
    /\ events \in Seq(Nat) /\ \A i \in DOMAIN events : events[i] <= now
    /\ \A i, j \in DOMAIN events : i <= j => events[i] <= events[j]
    /\ Grouped /\ LastIsKnown /\ EventRate

(* No line of a journal falls between two reads: every line that was there *)
(* when the last finished read began has been matched, from the first one  *)
(* the monitor read on, also across failed reads and lines logged during a *)
(* read.  The exception is a unit's journal that went unread so long that  *)
(* the cleanup forgot when it was read last.  It holds where a read takes  *)
(* at most the second by which two reads overlap (QuickReads, MaxLag = 1): *)
(* a line logged during a longer read may be missed.                       *)
NoLineMissed ==
    (source # "kmsg" /\ ~forgotten /\ first > 0) => first .. readUpTo \subseteq examined

(* The second of overlap between two reads covers what is logged during    *)
(* one, if a read takes no longer than that.                               *)
QuickReads == MaxLag <= 1

(* What makes it so: the lines a finished read had not seen are younger    *)
(* than the time the next one goes back to, and the lines of a read under  *)
(* way go on from the last one to the end of the log as it was opened.     *)
LogTypeOK ==
    /\ now \in Nat /\ log \in Seq(Nat) /\ readUpTo \in Nat /\ first \in Int
    /\ lastCheck \in Nat \cup {Never} /\ lastCheck <= now
UnreadIsRecent ==
    (source # "kmsg" /\ ~forgotten /\ first > 0) =>
        /\ lastCheck # Never
        /\ \A k \in DOMAIN log : k > readUpTo => log[k] >= lastCheck - 1
ReadGoesOn ==
    reading # Idle =>
        /\ reading.at \in Nat /\ reading.at <= now /\ now <= reading.at + MaxLag
        /\ reading.size \in 0 .. Len(log) /\ reading.lines \in Seq(Nat)
        /\ \A k \in DOMAIN log : k > reading.size => log[k] >= reading.at
        /\ source # "kmsg" =>
             \E s \in 1 .. reading.size + 1 :
                 /\ reading.lines = LinesAt(s, reading.size)
                 /\ (~forgotten /\ first > 0) => s <= readUpTo + 1
=============================================================================
