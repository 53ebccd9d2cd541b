--------------------------- MODULE EventDelivery ---------------------------
(***************************************************************************)
(* Kubernetes events: the exporter's ExportStatus hands the events of a    *)
(* status to the event manager (pkg/exporters/kubernetes/event_manager.go),*)
(* which drops duplicates, counts what is left against the limit of the    *)
(* minute and creates them through the client (client.go).                 *)
(*                                                                         *)
(* One goroutine exports statuses.  A reload puts a new manager in place,  *)
(* with an empty cache and an unused limit, while a call may still be      *)
(* under way in the old one, which also takes the rest of that status.     *)
(* Time is in half minutes, so that two events can share a minute without  *)
(* sharing the second that is part of an event's name.                     *)
(***************************************************************************)
EXTENDS Integers, Sequences, FiniteSets

CONSTANTS
    EventReasons, EventMessages,
    MaxEventsPerMin,    \* config.Events.MaxEventsPerMinute
    DeduplicationTTL,   \* config.Events.DeduplicationWindow, in minutes
    MaxHalves,          \* bound on time
    MaxManagers,        \* bound on event managers: 1 + reloads
    MaxLostCalls,       \* bound on API calls that fail
    MaxExports          \* bound on statuses with events

ASSUME EventsAssumption ==
    /\ {MaxEventsPerMin, DeduplicationTTL, MaxHalves, MaxManagers, MaxLostCalls, MaxExports}
          \subseteq Nat
    /\ MaxManagers > 0

Halves == 0 .. MaxHalves
Minute(t) == t \div 2
Minutes == {Minute(t) : t \in Halves}
Managers == 1 .. MaxManagers
Happenings == [reason : EventReasons, message : EventMessages, time : Halves]

VARIABLES
    clock,
    current,      \* the manager of the exporter
    exporting,    \* the manager CreateEventsFromStatus works for
    eventQueue,   \* the events of the status that are still to be created
    calling,      \* client.CreateEvent is under way for the first of them
    eventCache,   \* per manager: the signatures it has recorded
    rateLimiter,  \* per manager and minute: the events let through
    objects,      \* the Event objects of the API server
    lostCalls, exports

eventVars == <<clock, current, exporting, eventQueue, calling, eventCache, rateLimiter,
               objects, lostCalls, exports>>

EventsInit ==
    /\ clock = 0 /\ current = 1 /\ exporting = 1 /\ eventQueue = <<>> /\ calling = FALSE
    /\ eventCache = [m \in Managers |-> {}]
    /\ rateLimiter = [m \in Managers |-> [t \in Minutes |-> 0]]
    /\ objects = {} /\ lostCalls = 0 /\ exports = 0

MutBySecond(e) == [reason |-> e.reason, message |-> e.message, minute |-> e.time]

(* CreateEventSignature: the minute of the event is part of it. *)
CreateEventSignature(e) ==
    [reason |-> e.reason, message |-> e.message, minute |-> Minute(e.time)]

(* generateEventNameFromEvent: the second is part of it, the message is not.*)
EventName(e) == <<e.reason, e.time>>

(* Time since the beginning of a signature's minute, in half minutes. *)
Since(sig) == clock - 2 * sig.minute

(* isDuplicate *)
IsDuplicate(m, sig) == sig \in eventCache[m] /\ Since(sig) < 2 * DeduplicationTTL

(* ExportStatus of a status with one or two events of a check made now or    *)
(* just before: the status may have waited in the detector's channel.      *)
ExportEvents(es) ==
    /\ eventQueue = <<>>
    /\ exports < MaxExports /\ exports' = exports + 1
    /\ exporting' = current /\ eventQueue' = es
    /\ UNCHANGED <<clock, current, calling, eventCache, rateLimiter, objects, lostCalls>>

DropEvent == eventQueue' = Tail(eventQueue)

(* CreateEvent up to the call: a duplicate uses none of the minute's limit.*)
AdmitEvent ==
    /\ eventQueue # <<>> /\ ~calling
    /\ LET m == exporting
           sig == CreateEventSignature(Head(eventQueue))
           full == rateLimiter[m][Minute(clock)] >= MaxEventsPerMin
       IN  IF IsDuplicate(m, sig) \/ full
           THEN DropEvent /\ UNCHANGED <<calling, rateLimiter>>
           ELSE /\ rateLimiter' = [rateLimiter EXCEPT ![m][Minute(clock)] = @ + 1]
                /\ calling' = TRUE /\ UNCHANGED eventQueue
    /\ UNCHANGED <<clock, current, exporting, eventCache, objects, lostCalls, exports>>

(* K8sClient.CreateEvent with its retries: it succeeds, an object of that  *)
(* name being there already included; fails; or fails although one of its  *)
(* attempts has created the object.                                        *)
CreateObject(e, result) ==
    IF result = "error" \/ \E o \in objects : o.name = EventName(e) THEN UNCHANGED objects
    ELSE objects' = objects \cup {[name |-> EventName(e), event |-> e,
                                   at |-> clock, by |-> exporting, sure |-> result = "ok"]}

(* The call returns; recordEvent when it succeeded.  A failed call is not  *)
(* repeated and has used up its share of the minute.                       *)
CreateEvent(result) ==
    /\ calling /\ calling' = FALSE /\ DropEvent
    /\ result = "ok" \/ lostCalls < MaxLostCalls
    /\ lostCalls' = IF result = "ok" THEN lostCalls ELSE lostCalls + 1
    /\ CreateObject(Head(eventQueue), result)
    /\ eventCache' = IF result = "ok"
                     THEN [eventCache EXCEPT ![exporting] = @ \cup {CreateEventSignature(Head(eventQueue))}]
                     ELSE eventCache
    /\ UNCHANGED <<clock, current, exporting, rateLimiter, exports>>

(* cleanup: signatures older than the window and minutes older than two    *)
(* are forgotten.                                                          *)
CleanupEvents ==
    /\ eventCache' = [eventCache EXCEPT ![current] =
                        {sig \in @ : Since(sig) <= 2 * DeduplicationTTL}]
    /\ rateLimiter' = [rateLimiter EXCEPT ![current] =
                        [t \in Minutes |-> IF clock - 2 * t > 4 THEN 0 ELSE @[t]]]
    /\ UNCHANGED <<clock, current, exporting, eventQueue, calling, objects, lostCalls, exports>>

(* KubernetesExporter.Reload with new limits. *)
ReplaceManager ==
    /\ current < MaxManagers /\ current' = current + 1
    /\ UNCHANGED <<clock, exporting, eventQueue, calling, eventCache, rateLimiter, objects,
                   lostCalls, exports>>

EventClock ==
    /\ clock < MaxHalves /\ clock' = clock + 1
    /\ UNCHANGED <<current, exporting, eventQueue, calling, eventCache, rateLimiter, objects,
                   lostCalls, exports>>

Recent == {e \in Happenings : e.time \in {clock - 1, clock}}

EventsNext ==
    \/ \E e \in Recent : ExportEvents(<<e>>) \/ \E f \in Recent \ {e} : f.time = e.time /\ ExportEvents(<<e, f>>)
    \/ AdmitEvent
    \/ \E result \in {"ok", "error", "lost"} : CreateEvent(result)
    \/ CleanupEvents \/ ReplaceManager \/ EventClock

EventsSpec == EventsInit /\ [][EventsNext]_eventVars

----------------------------------------------------------------------------
(* An event that happens again within its minute is created once, until    *)
(* the window has passed: a second object from the same manager means that *)
(* the first one's answer was lost or that the window was over             *)
(* (isDuplicate before the call against recordEvent after it, cleanup in   *)
(* between).                                                               *)
CreatedOnce ==
    \A o, p \in objects :
        (/\ o # p /\ o.by = p.by /\ o.at <= p.at /\ o.sure /\ (o.at < p.at \/ p.sure)
         /\ o.event.reason = p.event.reason /\ o.event.message = p.event.message
         /\ Minute(o.event.time) = Minute(p.event.time))
            => p.at - 2 * Minute(p.event.time) >= 2 * DeduplicationTTL

(* What makes it so: a signature whose object is known to exist is in the  *)
(* cache of its manager until its window has passed; and while a call is   *)
(* under way for an event, no object of the same signature is known whose  *)
(* window has not passed.                                                  *)
EventObject == [name : EventReasons \X Halves, event : Happenings, at : Halves, by : Managers,
                sure : BOOLEAN]
EventTypeOK ==
    /\ clock \in Halves /\ {current, exporting} \subseteq Managers
    /\ eventQueue \in Seq(Happenings)
    /\ calling \in BOOLEAN /\ (calling => eventQueue # <<>>)
    /\ DOMAIN eventCache = Managers
    /\ objects \subseteq EventObject
WindowOver(e) == Since(CreateEventSignature(e)) >= 2 * DeduplicationTTL
SureAreCached ==
    \A o \in objects :
        /\ o.at <= clock
        /\ o.sure => CreateEventSignature(o.event) \in eventCache[o.by] \/ WindowOver(o.event)
CallIsNews ==
    calling =>
        \A o \in objects :
            (/\ o.sure /\ o.by = exporting
             /\ CreateEventSignature(o.event) = CreateEventSignature(Head(eventQueue)))
                => WindowOver(o.event)
=============================================================================
