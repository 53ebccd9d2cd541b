--------------------------- MODULE Reports_proofs ---------------------------
(* Proofs about what leaves the agent: the Kubernetes events made of       *)
(* statuses, the series a scrape shows, the requests to webhooks, and the  *)
(* reports the controller makes correlations of.                           *)
EXTENDS EventDelivery, PrometheusMetrics, WebhookPool, ClusterView, SequenceTheorems, TLAPS

----------------------------------------------------------------------------
(* Kubernetes events.                                                      *)

(* An event's signature, and when its window is over (CreateEventSignature,*)
(* isDuplicate).                                                           *)
LEMMA SignatureFacts ==
    ASSUME NEW e \in Happenings
    PROVE  /\ Minute(e.time) \in Nat /\ e.time \in Nat
           /\ WindowOver(e) <=> clock - 2 * Minute(e.time) >= 2 * DeduplicationTTL
           /\ WindowOver(e)' <=> clock' - 2 * Minute(e.time) >= 2 * DeduplicationTTL
           /\ \A f \in Happenings :
                CreateEventSignature(e) = CreateEventSignature(f)
                    <=> /\ e.reason = f.reason /\ e.message = f.message
                        /\ Minute(e.time) = Minute(f.time)
<1>1. e.time \in Nat
  BY EventsAssumption DEF Happenings, Halves
<1>2. Minute(e.time) \in Nat
  BY <1>1 DEF Minute
<1>3. /\ WindowOver(e) <=> clock - 2 * Minute(e.time) >= 2 * DeduplicationTTL
      /\ WindowOver(e)' <=> clock' - 2 * Minute(e.time) >= 2 * DeduplicationTTL
  BY DEF WindowOver, Since, CreateEventSignature
<1>4. ASSUME NEW f \in Happenings
      PROVE  CreateEventSignature(e) = CreateEventSignature(f)
                 <=> /\ e.reason = f.reason /\ e.message = f.message
                     /\ Minute(e.time) = Minute(f.time)
  BY DEF CreateEventSignature
<1> QED
  BY <1>1, <1>2, <1>3, <1>4

(* The invariant of event delivery. *)
EventsSound == EventTypeOK /\ SureAreCached /\ CallIsNews /\ CreatedOnce

(* Time only widens the gap to an event's minute.                          *)
LEMMA WindowStaysOver ==
    ASSUME EventTypeOK, NEW e \in Happenings, WindowOver(e), clock' \in Int, clock' >= clock
    PROVE  WindowOver(e)'
<1>1. clock \in Int /\ DeduplicationTTL \in Int
  BY EventsAssumption DEF EventTypeOK, Halves
<1> QED
  BY <1>1, SignatureFacts

(* Steps that create no object keep what is known of the objects, if they  *)
(* forget no signature whose window lasts and start no call (time, a       *)
(* reload, cleanup, the end of a call that failed).                        *)
LEMMA NothingCreated ==
    ASSUME EventsSound, EventTypeOK', UNCHANGED objects, clock' >= clock,
           \A m \in Managers : \A e \in Happenings :
               CreateEventSignature(e) \in eventCache[m]
                   => CreateEventSignature(e) \in eventCache'[m] \/ WindowOver(e),
           calling' => calling /\ UNCHANGED <<exporting, eventQueue>>
    PROVE  EventsSound'
<1>1. clock \in Int /\ clock' \in Int /\ DeduplicationTTL \in Int
  BY EventsAssumption DEF EventTypeOK, EventsSound, Halves
<1>2. ASSUME NEW o \in objects
      PROVE  o.event \in Happenings /\ o.by \in Managers /\ o.at \in Int /\ o.sure \in BOOLEAN
  BY <1>1 DEF EventsSound, EventTypeOK, EventObject, Halves
<1>3. SureAreCached'
  <2> SUFFICES ASSUME NEW o \in objects
               PROVE  /\ o.at <= clock'
                      /\ o.sure => CreateEventSignature(o.event) \in eventCache'[o.by]
                                      \/ WindowOver(o.event)'
    BY DEF SureAreCached, CreateEventSignature
  <2>1. o.at <= clock'
    BY <1>1, <1>2 DEF EventsSound, SureAreCached
  <2>2. ASSUME o.sure
        PROVE  CreateEventSignature(o.event) \in eventCache'[o.by] \/ WindowOver(o.event)
    BY <1>2, <2>2 DEF EventsSound, SureAreCached
  <2> QED
    BY <1>1, <1>2, <2>1, <2>2, WindowStaysOver DEF EventsSound
<1>4. CallIsNews'
  <2> SUFFICES ASSUME calling', NEW o \in objects, o.sure, o.by = exporting',
                      CreateEventSignature(o.event) = CreateEventSignature(Head(eventQueue'))
               PROVE  WindowOver(o.event)'
    BY DEF CallIsNews, CreateEventSignature
  <2>1. WindowOver(o.event)
    BY DEF EventsSound, CallIsNews
  <2> QED
    BY <1>1, <1>2, <2>1, WindowStaysOver DEF EventsSound
<1>5. CreatedOnce'
  BY DEF EventsSound, CreatedOnce, Minute
<1> QED
  BY <1>3, <1>4, <1>5 DEF EventsSound

(* Every step of the exporter keeps the invariant: the check for a         *)
(* duplicate comes before the call and the record after it, but one        *)
(* goroutine makes the calls (CreateEvent, recordEvent, cleanup).          *)
LEMMA EventsSoundStep ==
    ASSUME EventsSound, [EventsNext]_eventVars
    PROVE  EventsSound'
<1>0. /\ clock \in Int /\ DeduplicationTTL \in Int /\ MaxHalves \in Int
      /\ exporting \in Managers /\ current \in Managers /\ DOMAIN eventCache = Managers
      /\ eventQueue \in Seq(Happenings) /\ calling \in BOOLEAN
      /\ calling => eventQueue # <<>>
      /\ objects \subseteq EventObject
  BY EventsAssumption DEF EventsSound, EventTypeOK, Halves
<1>1. CASE UNCHANGED eventVars
  <2>1. EventTypeOK'
    BY <1>1 DEF EventsSound, EventTypeOK, eventVars
  <2> QED
    BY <1>0, <1>1, <2>1, NothingCreated DEF eventVars
<1>2. ASSUME NEW es \in Seq(Happenings), ExportEvents(es)
      PROVE  EventsSound'
  <2>1. EventTypeOK'
    BY <1>0, <1>2 DEF EventsSound, EventTypeOK, ExportEvents
  <2>2. calling' = FALSE
    BY <1>0, <1>2 DEF ExportEvents
  <2> QED
    BY <1>0, <1>2, <2>1, <2>2, NothingCreated DEF ExportEvents
<1>3. CASE AdmitEvent
  <2> DEFINE e == Head(eventQueue)
             sig == CreateEventSignature(e)
             full == rateLimiter[exporting][Minute(clock)] >= MaxEventsPerMin
  <2>0. e \in Happenings /\ Tail(eventQueue) \in Seq(Happenings) /\ ~calling
    BY <1>0, <1>3, HeadTailProperties DEF AdmitEvent
  <2>1. UNCHANGED <<clock, current, exporting, eventCache, objects>>
    BY <1>3 DEF AdmitEvent
  <2>2. CASE IsDuplicate(exporting, sig) \/ full
    <3>1. eventQueue' = Tail(eventQueue) /\ UNCHANGED calling
      BY <1>3, <2>2 DEF AdmitEvent, DropEvent
    <3>2. EventTypeOK'
      BY <2>0, <2>1, <3>1 DEF EventsSound, EventTypeOK
    <3> QED
      BY <1>0, <2>0, <2>1, <3>1, <3>2, NothingCreated
  <2>3. CASE ~(IsDuplicate(exporting, sig) \/ full)
    <3>1. calling' = TRUE /\ UNCHANGED eventQueue /\ eventQueue # <<>>
      BY <1>3, <2>3 DEF AdmitEvent
    <3>2. EventTypeOK'
      BY <2>1, <3>1 DEF EventsSound, EventTypeOK
    <3>3. SureAreCached'
      BY <2>1 DEF EventsSound, SureAreCached, WindowOver, Since, CreateEventSignature
    <3>4. CreatedOnce'
      BY <2>1 DEF EventsSound, CreatedOnce, Minute
    <3>5. CallIsNews'
      <4> SUFFICES ASSUME NEW o \in objects, o.sure, o.by = exporting,
                          CreateEventSignature(o.event) = sig
                   PROVE  WindowOver(o.event)
        BY <2>1, <3>1 DEF CallIsNews, WindowOver, Since, CreateEventSignature
      <4>1. sig \in eventCache[exporting] \/ WindowOver(o.event)
        BY DEF EventsSound, SureAreCached
      <4>2. sig \in eventCache[exporting] => ~(Since(sig) < 2 * DeduplicationTTL)
        BY <2>3 DEF IsDuplicate
      <4>3. o.event \in Happenings
        BY <1>0 DEF EventObject
      <4>4. Minute(o.event.time) \in Nat
        BY <4>3, SignatureFacts
      <4>5. Since(sig) = clock - 2 * Minute(o.event.time)
        BY DEF Since, CreateEventSignature
      <4> QED
        BY <1>0, <4>1, <4>2, <4>3, <4>4, <4>5, SignatureFacts
    <3> QED
      BY <3>2, <3>3, <3>4, <3>5 DEF EventsSound
  <2> QED
    BY <2>2, <2>3
<1>4. ASSUME NEW result \in {"ok", "error", "lost"}, CreateEvent(result)
      PROVE  EventsSound'
  <2> DEFINE e == Head(eventQueue)
             obj == [name |-> EventName(e), event |-> e, at |-> clock, by |-> exporting,
                     sure |-> result = "ok"]
  <2>0. e \in Happenings /\ Tail(eventQueue) \in Seq(Happenings)
    BY <1>0, <1>4, HeadTailProperties DEF CreateEvent
  <2>1. /\ UNCHANGED <<clock, current, exporting>> /\ calling /\ calling' = FALSE
        /\ eventQueue' = Tail(eventQueue)
    BY <1>4 DEF CreateEvent, DropEvent
  <2>2. DOMAIN eventCache' = Managers /\ \A m \in Managers : eventCache[m] \subseteq eventCache'[m]
    BY <1>0, <1>4 DEF CreateEvent
  <2>3. result = "ok" => CreateEventSignature(e) \in eventCache'[exporting]
    BY <1>0, <1>4 DEF CreateEvent
  <2>4. objects' = objects \/ objects' = objects \cup {obj}
    BY <1>4 DEF CreateEvent, CreateObject
  <2>5. obj \in EventObject
    <3>1. EventName(e) \in EventReasons \X Halves
      BY <2>0 DEF EventName, Happenings
    <3>2. clock \in Halves
      BY DEF EventsSound, EventTypeOK
    <3> HIDE DEF e
    <3> QED
      BY <1>0, <2>0, <3>1, <3>2 DEF EventObject
  <2>6. EventTypeOK'
    BY <2>0, <2>1, <2>2, <2>4, <2>5 DEF EventsSound, EventTypeOK
  <2>7. CASE objects' = objects
    BY <1>0, <2>1, <2>2, <2>6, <2>7, NothingCreated
  <2>8. CASE objects' = objects \cup {obj}
    <3>1. CallIsNews'
      BY <2>1 DEF CallIsNews
    <3>2. SureAreCached'
      <4> SUFFICES ASSUME NEW o \in objects'
                   PROVE  /\ o.at <= clock
                          /\ o.sure => CreateEventSignature(o.event) \in eventCache'[o.by]
                                          \/ WindowOver(o.event)
        BY <2>1 DEF SureAreCached, WindowOver, Since, CreateEventSignature
      <4>1. CASE o \in objects
        <5>1. o.by \in Managers
          BY <1>0, <4>1 DEF EventObject
        <5> QED
          BY <2>2, <4>1, <5>1 DEF EventsSound, SureAreCached
      <4>2. CASE o = obj
        <5>1. o.event = e /\ o.at = clock /\ o.by = exporting /\ (o.sure <=> result = "ok")
          BY <4>2
        <5> HIDE DEF e, obj
        <5>2. o.at <= clock
          BY <1>0, <5>1
        <5> QED
          BY <2>3, <5>1, <5>2
      <4> QED
        BY <2>8, <4>1, <4>2
    <3>3. CreatedOnce'
      <4>1. ASSUME NEW o \in objects, o.sure, o.by = exporting, o.event.reason = e.reason,
                   o.event.message = e.message, Minute(o.event.time) = Minute(e.time)
            PROVE  clock - 2 * Minute(e.time) >= 2 * DeduplicationTTL
        <5>1. o.event \in Happenings
          BY <1>0 DEF EventObject
        <5>2. CreateEventSignature(o.event) = CreateEventSignature(e)
          BY <2>0, <4>1, <5>1, SignatureFacts
        <5>3. WindowOver(o.event)
          BY <2>1, <4>1, <5>2 DEF EventsSound, CallIsNews
        <5> HIDE DEF e
        <5> QED
          BY <4>1, <5>1, <5>3, SignatureFacts
      <4>2. \A o \in objects : o.at <= clock /\ o.at \in Int
        BY <1>0 DEF EventsSound, SureAreCached, EventObject, Halves
      <4>3. /\ obj.event = e /\ obj.at = clock /\ obj.by = exporting
            /\ obj.sure <=> result = "ok"
        OBVIOUS
      <4> SUFFICES ASSUME NEW o \in objects', NEW p \in objects', o # p, o.by = p.by,
                          o.at <= p.at, o.sure, o.at < p.at \/ p.sure,
                          o.event.reason = p.event.reason, o.event.message = p.event.message,
                          Minute(o.event.time) = Minute(p.event.time)
                   PROVE  p.at - 2 * Minute(p.event.time) >= 2 * DeduplicationTTL
        BY DEF CreatedOnce, Minute
      <4> HIDE DEF e, obj
      <4>4. CASE o \in objects /\ p \in objects
        BY <4>4 DEF EventsSound, CreatedOnce
      <4>5. CASE o \in objects /\ p = obj
        BY <4>1, <4>3, <4>5
      <4>6. CASE o = obj /\ p \in objects
        <5>1. p.at = clock /\ p.sure
          BY <1>0, <4>2, <4>3, <4>6
        <5> QED
          BY <4>1, <4>3, <4>6, <5>1
      <4> QED
        BY <2>8, <4>4, <4>5, <4>6
    <3> QED
      BY <2>6, <3>1, <3>2, <3>3 DEF EventsSound
  <2> QED
    BY <2>4, <2>7, <2>8
<1>5. CASE CleanupEvents
  <2>1. UNCHANGED <<clock, current, exporting, eventQueue, calling, objects>>
    BY <1>5 DEF CleanupEvents
  <2>2. eventCache' = [eventCache EXCEPT ![current] =
                         {s \in eventCache[current] : Since(s) <= 2 * DeduplicationTTL}]
    BY <1>5 DEF CleanupEvents
  <2>3. EventTypeOK'
    BY <2>1, <2>2 DEF EventsSound, EventTypeOK
  <2>4. ASSUME NEW m \in Managers, NEW e \in Happenings,
               CreateEventSignature(e) \in eventCache[m]
        PROVE  CreateEventSignature(e) \in eventCache'[m] \/ WindowOver(e)
    <3>1. Since(CreateEventSignature(e)) \in Int
      <4>1. Since(CreateEventSignature(e)) = clock - 2 * Minute(e.time)
        BY DEF Since, CreateEventSignature
      <4> QED
        BY <1>0, <4>1, SignatureFacts
    <3>2. Since(CreateEventSignature(e)) <= 2 * DeduplicationTTL \/ WindowOver(e)
      BY <1>0, <3>1 DEF WindowOver
    <3> QED
      BY <1>0, <2>2, <2>4, <3>2
  <2> QED
    BY <1>0, <2>1, <2>3, <2>4, NothingCreated
<1>6. CASE ReplaceManager
  <2>1. EventTypeOK'
    BY <1>6, EventsAssumption DEF EventsSound, EventTypeOK, ReplaceManager, Managers
  <2> QED
    BY <1>0, <1>6, <2>1, NothingCreated DEF ReplaceManager
<1>7. CASE EventClock
  <2>1. EventTypeOK'
    BY <1>7, EventsAssumption DEF EventsSound, EventTypeOK, EventClock, Halves
  <2>2. clock' >= clock
    BY <1>0, <1>7 DEF EventClock
  <2> QED
    BY <1>7, <2>1, <2>2, NothingCreated DEF EventClock
<1>8. Recent \subseteq Happenings
  BY DEF Recent
<1>9. \A e, f \in Happenings : <<e>> \in Seq(Happenings) /\ <<e, f>> \in Seq(Happenings)
  OBVIOUS
<1> QED
  BY <1>1, <1>2, <1>3, <1>4, <1>5, <1>6, <1>7, <1>8, <1>9 DEF EventsNext

(* An event that happens again within its minute makes no second object    *)
(* from the same manager, unless the deduplication window has passed or    *)
(* the answer of a call was lost, for every limit, window and number of    *)
(* reloads, however checks, calls, cleanups, reloads and time interleave   *)
(* (isDuplicate, recordEvent, cleanup).  The signature carries the minute, *)
(* so an event of the next minute is another one.                          *)
THEOREM EventsCreatedOnce == EventsSpec => []CreatedOnce
<1>1. EventsInit => EventsSound
  <2> SUFFICES ASSUME EventsInit
               PROVE  EventsSound
    OBVIOUS
  <2>1. EventTypeOK
    <3>1. 0 \in Halves /\ 1 \in Managers
      BY EventsAssumption DEF Halves, Managers
    <3>2. eventQueue \in Seq(Happenings) /\ calling = FALSE
      BY DEF EventsInit
    <3> QED
      BY <3>1, <3>2 DEF EventsInit, EventTypeOK
  <2> QED
    BY <2>1 DEF EventsInit, EventsSound, SureAreCached, CallIsNews, CreatedOnce
<1>2. EventsSound => CreatedOnce
  BY DEF EventsSound
<1> QED
  BY <1>1, <1>2, EventsSoundStep, PTL DEF EventsSpec

----------------------------------------------------------------------------
(* The Prometheus exporter.                                                *)

(* The nodes of series that are added, or deleted with the histograms of   *)
(* the nodes that are gone (reconcilePeerSeries).                          *)
LEMMA NodesAdded ==
    ASSUME NEW S, NEW k
    PROVE  NodesOf(S \cup {k}) = NodesOf(S) \cup {k.node}
BY DEF NodesOf

(* Deleting series takes away the nodes that have none left. *)
LEMMA NodesDeleted ==
    ASSUME NEW S, NEW gone, NEW now, gone \cap now = {},
           (now \subseteq S /\ S \subseteq gone \cup now) \/ S \subseteq now
    PROVE  NodesOf(S \ gone) = NodesOf(S) \ GoneNodes(gone, now)
<1>1. ASSUME NEW n \in NodesOf(S \ gone)
      PROVE  n \in NodesOf(S) \ GoneNodes(gone, now)
  <2>1. PICK k \in S \ gone : n = k.node
    BY <1>1 DEF NodesOf
  <2>2. k \in now
    BY <2>1
  <2> QED
    BY <2>1, <2>2 DEF NodesOf, GoneNodes
<1>2. ASSUME NEW n \in NodesOf(S) \ GoneNodes(gone, now)
      PROVE  n \in NodesOf(S \ gone)
  <2>1. PICK k \in S : n = k.node
    BY <1>2 DEF NodesOf
  <2>2. CASE k \notin gone
    BY <2>1, <2>2 DEF NodesOf
  <2>3. CASE k \in gone
    <3>1. PICK j \in now : n = j.node
      BY <1>2, <2>1, <2>3 DEF NodesOf, GoneNodes
    <3>2. j \in S \ gone
      BY <2>1, <2>3, <3>1
    <3> QED
      BY <3>1, <3>2 DEF NodesOf
  <2> QED
    BY <2>2, <2>3
<1> QED
  BY <1>1, <1>2

(* The invariant of the exporter. *)
MetricsSound == ExportTypeOK /\ SeriesTracked /\ ServedIsWritten

(* Every step of an export and of a reload keeps it, a reload between any  *)
(* two writes included (ExportStatus, reconcilePeerSeries, Reload).        *)
LEMMA MetricsSoundStep ==
    ASSUME MetricsSound, [MetricsNext]_metricsVars
    PROVE  MetricsSound'
<1> USE DEF MetricsSound
<1>1. CASE UNCHANGED metricsVars
  BY <1>1 DEF ExportTypeOK, SeriesTracked, ServedIsWritten, metricsVars, Written
<1>2. ASSUME NEW s \in LatencyStatuses, BeginExport(s)
      PROVE  MetricsSound'
  <2>1. s.peers \subseteq PeerKeys /\ s.scored \subseteq {"ns"}
    BY <1>2 DEF LatencyStatuses
  <2>2. UNCHANGED <<exporterVars, series, activeProblems, lastPeerSeries, lastReport, reloading>>
    BY <1>2 DEF BeginExport
  <2>3. /\ export = NoExport
        /\ export'.stage = "peers" /\ export'.peers = s.peers /\ export'.left = s.peers
        /\ export'.whole = TRUE
    BY <1>2 DEF BeginExport, ExportTypeOK
  <2>4. ExportTypeOK'
    BY <1>2, <2>1, <2>2 DEF BeginExport, ExportTypeOK, exporterVars
  <2>5. SeriesTracked'
    BY <2>2, <2>3 DEF SeriesTracked, Written, NoExport, series
  <2>6. ServedIsWritten'
    BY <2>2 DEF ServedIsWritten, exporterVars, series, reloading
  <2> QED
    BY <2>4, <2>5, <2>6
<1>3. ASSUME NEW k \in PeerKeys, WritePeer(k)
      PROVE  MetricsSound'
  <2>1. UNCHANGED <<exporterVars, scores, problemsActive, activeProblems, lastPeerSeries,
                    lastReport, reloading>>
    BY <1>3 DEF WritePeer
  <2>2. /\ export.stage = "peers" /\ k \in export.left
        /\ export' = [export EXCEPT !.left = export.left \ {k}]
        /\ peerSeries' = peerSeries \cup {k} /\ peerHistogram' = peerHistogram \cup {k.node}
    BY <1>3 DEF WritePeer
  <2>3. ExportTypeOK'
    BY <2>1, <2>2 DEF ExportTypeOK, exporterVars, NoExport
  <2>4. /\ export'.stage = "peers" /\ export'.left = export.left \ {k}
        /\ export'.peers = export.peers /\ export'.whole = export.whole
    BY <2>2 DEF ExportTypeOK
  <2>5. SeriesTracked'
    BY <2>1, <2>2, <2>4, NodesAdded DEF SeriesTracked, Written
  <2>6. ServedIsWritten'
    BY <2>1 DEF ServedIsWritten, exporterVars, reloading
  <2> QED
    BY <2>3, <2>5, <2>6
<1>4. CASE SwapPeerSeries
  <2>1. UNCHANGED <<exporterVars, series, activeProblems, lastReport, reloading>>
    BY <1>4 DEF SwapPeerSeries
  <2>2. /\ export.stage = "peers" /\ export.left = {} /\ export.peers # {}
        /\ export' = [export EXCEPT !.stage = "gone", !.left = lastPeerSeries \ export.peers]
        /\ lastPeerSeries' = export.peers
    BY <1>4 DEF SwapPeerSeries
  <2>3. /\ export'.stage = "gone" /\ export'.left = lastPeerSeries \ export.peers
        /\ export'.peers = export.peers /\ export'.whole = export.whole
    BY <2>2 DEF ExportTypeOK
  <2>4. ExportTypeOK'
    BY <2>1, <2>2 DEF ExportTypeOK, SeriesTracked, exporterVars
  <2>5. SeriesTracked'
    BY <2>1, <2>2, <2>3 DEF SeriesTracked, Written, series
  <2>6. ServedIsWritten'
    BY <2>1 DEF ServedIsWritten, exporterVars, reloading, series
  <2> QED
    BY <2>4, <2>5, <2>6
<1>5. CASE DeleteGone
  <2>1. UNCHANGED <<exporterVars, scores, problemsActive, activeProblems, lastPeerSeries,
                    lastReport, reloading>>
    BY <1>5 DEF DeleteGone
  <2>2. /\ export.stage = "gone" /\ export' = [export EXCEPT !.stage = "rest"]
        /\ peerSeries' = peerSeries \ export.left
        /\ peerHistogram' = peerHistogram \ GoneNodes(export.left, export.peers)
    BY <1>5 DEF DeleteGone
  <2>3. /\ export'.stage = "rest" /\ export'.left = export.left
        /\ export'.peers = export.peers /\ export'.whole = export.whole
    BY <2>2 DEF ExportTypeOK
  <2>4. ExportTypeOK'
    BY <2>1, <2>2 DEF ExportTypeOK, exporterVars
  <2>5. NodesOf(peerSeries') = peerHistogram'
    BY <2>2, NodesDeleted DEF SeriesTracked
  <2>6. SeriesTracked'
    BY <2>1, <2>2, <2>3, <2>5 DEF SeriesTracked
  <2>7. ServedIsWritten'
    BY <2>1 DEF ServedIsWritten, exporterVars, reloading
  <2> QED
    BY <2>4, <2>6, <2>7
<1>6. CASE EndExport
  <2>1. UNCHANGED <<exporterVars, peerSeries, peerHistogram, problemsActive, activeProblems,
                    lastPeerSeries, reloading>>
    BY <1>6 DEF EndExport
  <2>2. /\ export.stage = "rest" \/ (export.stage = "peers" /\ export.peers = {})
        /\ export' = NoExport
        /\ lastReport' = IF export.peers = {} THEN lastReport
                         ELSE IF export.whole THEN export.peers ELSE {}
    BY <1>6 DEF EndExport
  <2>3. ExportTypeOK'
    BY <2>1, <2>2 DEF ExportTypeOK, NoExport, exporterVars
  <2>4. SeriesTracked'
    BY <2>1, <2>2 DEF SeriesTracked, NoExport, Written
  <2>5. ServedIsWritten'
    BY <2>1 DEF ServedIsWritten, exporterVars, reloading
  <2> QED
    BY <2>3, <2>4, <2>5
<1>7. CASE ExportProblem("disk")
  <2>1. UNCHANGED <<exporterVars, peerSeries, peerHistogram, lastPeerSeries, export, lastReport,
                    reloading>>
    BY <1>7 DEF ExportProblem
  <2> QED
    BY <2>1 DEF ExportTypeOK, SeriesTracked, ServedIsWritten, exporterVars, reloading, Written
<1>8. ASSUME NEW c \in PromConfigs, ReloadInPlace(c) \/ ReloadCannotRegister(c)
      PROVE  MetricsSound'
  <2>1. UNCHANGED <<promStarted, metrics, series, activeProblems, lastPeerSeries, export,
                    lastReport>>
    BY <1>8 DEF ReloadInPlace, ReloadCannotRegister
  <2>2. \/ UNCHANGED <<promRegistry, promServer, reloadFault>>
        \/ reloadFault' = "register" /\ promServer' = 0
    BY <1>8 DEF ReloadInPlace, ReloadCannotRegister
  <2> QED
    BY <2>1, <2>2 DEF ExportTypeOK, SeriesTracked, ServedIsWritten, series, Written
<1>9. ASSUME NEW c \in PromConfigs, NEW binds \in BOOLEAN, ReloadRestarts(c, binds)
      PROVE  MetricsSound'
  <2>1. UNCHANGED <<promStarted, lastPeerSeries>>
    BY <1>9 DEF ReloadRestarts
  <2>2. reloadFault' # "register" => promRegistry' = metrics'
    BY <1>9 DEF ReloadRestarts, RegistryFor, ServedIsWritten
  <2>3. /\ promServer' = IF promStarted /\ binds THEN promRegistry' ELSE 0
        /\ promStarted /\ ~binds => reloadFault' # "none"
    BY <1>9 DEF ReloadRestarts, ServeOn
  <2>4. ServedIsWritten'
    BY <2>1, <2>2, <2>3 DEF ServedIsWritten
  <2>5. CASE ~NeedsMetricsRecreation(c)
    <3>1. UNCHANGED <<series, lastReport, export>>
      BY <1>9, <2>5 DEF ReloadRestarts
    <3> QED
      BY <2>1, <2>4, <3>1 DEF ExportTypeOK, SeriesTracked, series, Written
  <2>6. CASE NeedsMetricsRecreation(c)
    <3>1. /\ peerSeries' = {} /\ peerHistogram' = {} /\ lastReport' = {}
          /\ export' = IF export = NoExport THEN export ELSE [export EXCEPT !.whole = FALSE]
      BY <1>9, <2>6 DEF ReloadRestarts
    <3>2. NodesOf({}) = {}
      BY DEF NodesOf
    <3>3. ExportTypeOK'
      BY <2>1, <3>1 DEF ExportTypeOK
    <3>4. /\ export'.stage = export.stage /\ export'.left = export.left
          /\ export'.peers = export.peers
          /\ export.stage # "none" => export'.whole = FALSE
      BY <3>1 DEF ExportTypeOK, NoExport
    <3>5. SeriesTracked'
      BY <2>1, <3>1, <3>2, <3>4 DEF SeriesTracked, Written
    <3> QED
      BY <2>4, <3>3, <3>5
  <2> QED
    BY <2>5, <2>6
<1>10. CASE StopExporter
  <2>1. /\ promStarted' = FALSE /\ promServer' = 0
        /\ UNCHANGED <<promRegistry, metrics, series, activeProblems, lastPeerSeries, export,
                       lastReport, reloading>>
    BY <1>10 DEF StopExporter
  <2> QED
    BY <2>1 DEF ExportTypeOK, SeriesTracked, ServedIsWritten, series, reloading, Written
<1> QED
  BY <1>1, <1>2, <1>3, <1>4, <1>5, <1>6, <1>7, <1>8, <1>9, <1>10 DEF MetricsNext

(* What a scrape shows is what was exported, for every set of peers and    *)
(* every sequence of reloads between the writes of an export: the registry *)
(* served is the one written to unless a reload could not register its     *)
(* metrics, and between exports the peers shown are those last reported    *)
(* (ExportStatus, reconcilePeerSeries, Reload).                            *)
THEOREM ScrapesAreCurrent == MetricsSpec => []ScrapeIsCurrent
<1>1. MetricsInit => MetricsSound
  BY DEF MetricsInit, MetricsSound, ExportTypeOK, SeriesTracked, ServedIsWritten, NoExport, Written,
         NodesOf
<1>2. MetricsSound => ScrapeIsCurrent
  BY DEF MetricsSound, ExportTypeOK, SeriesTracked, ServedIsWritten, ScrapeIsCurrent, NoExport, Written
<1> QED
  BY <1>1, <1>2, MetricsSoundStep, PTL DEF MetricsSpec

----------------------------------------------------------------------------
(* The controller's correlations.                                          *)

(* A correlation is detected on agents of the cluster (detect...).         *)
LEMMA DetectedOnAgents ==
    ASSUME NEW reports, NEW id \in CorrelationIDs
    PROVE  Detect(reports, id) \in SUBSET Agents
<1>1. /\ \A p : DetectInfrastructure(reports, p) \subseteq Agents
      /\ \A ps : DetectCommonCause(reports, ps) \subseteq Agents
      /\ \A ps : DetectCascade(reports, ps) \subseteq Agents
  BY DEF DetectInfrastructure, DetectCommonCause, DetectCascade, Having
<1>2. id[1] \in {"infrastructure", "common-cause", "cascade"}
  BY DEF CorrelationIDs
<1>3. UNION {DetectInfrastructure(reports, p) : p \in id[2]} \subseteq Agents
  BY <1>1
<1> QED
  BY <1>1, <1>2, <1>3 DEF Detect

(* One evaluation over a database that works leaves the same correlations  *)
(* in it and in the correlator (evaluate, resolveStaleCorrelations).       *)
LEMMA EvaluationAgrees ==
    ASSUME CorrelationsTyped, storedActive = active,
           NEW detected \in [CorrelationIDs -> SUBSET Agents],
           NEW remaining \in [CorrelationIDs -> SUBSET Agents],
           \A id \in CorrelationIDs :
               remaining[id] \in {{}, IF detected[id] # {} THEN detected[id] ELSE active[id]}
    PROVE  SaveCorrelations(detected, remaining, TRUE) = remaining
<1>1. ASSUME NEW id \in CorrelationIDs
      PROVE  SaveCorrelations(detected, remaining, TRUE)[id] = remaining[id]
  BY DEF SaveCorrelations
<1> QED
  BY <1>1 DEF SaveCorrelations

(* Every step of agents, controller and database keeps the correlations    *)
(* typed and, while no operation of the database has failed, the same.     *)
LEMMA StoreAgreesStep ==
    ASSUME CorrelationsTyped, StoreAgrees, [ClusterNext]_clusterVars
    PROVE  CorrelationsTyped' /\ StoreAgrees'
<1>0. ASSUME NEW ok \in DbOutcomes, DbAnswers(ok)
      PROVE  ok \in BOOLEAN /\ dbFaults' \in Nat /\ (dbFaults' = 0 => ok = TRUE /\ dbFaults = 0)
  <2>1. ok \in BOOLEAN
    BY Zenon DEF DbOutcomes
  <2>2. CASE ok = TRUE
    BY <1>0, <2>2 DEF DbAnswers, CorrelationsTyped
  <2>3. CASE ok = FALSE
    <3>1. dbFaults' = dbFaults + 1 /\ dbFaults \in Nat
      BY <1>0, <2>3 DEF DbAnswers, CorrelationsTyped
    <3>2. dbFaults' \in Nat /\ dbFaults' # 0
      BY <3>1
    <3> QED
      BY <2>1, <3>2
  <2> QED
    BY <2>1, <2>2, <2>3
<1>1. CASE UNCHANGED clusterVars
  BY <1>1 DEF CorrelationsTyped, StoreAgrees, clusterVars
<1>2. CASE \/ \E n \in Agents : SendReport(n) \/ \E p \in Problems : ProblemChanges(n, p)
           \/ \E n \in Agents, ps \in SUBSET Problems : LoseReport(n, ps) \/ UpdateNodeReport(n, ps)
           \/ CopyReports \/ TickWhileStopping
  <2>1. UNCHANGED <<active, storedActive, dbFaults, server>>
    BY <1>2 DEF SendReport, ProblemChanges, LoseReport, UpdateNodeReport, CopyReports,
                TickWhileStopping
  <2> QED
    BY <2>1 DEF CorrelationsTyped, StoreAgrees
<1>3. ASSUME NEW n \in Agents, NEW ps \in SUBSET Problems, HandleReport(n, ps)
      PROVE  CorrelationsTyped' /\ StoreAgrees'
  <2>1. PICK ok \in DbOutcomes : DbAnswers(ok)
    BY <1>3 DEF HandleReport
  <2>2. UNCHANGED <<active, storedActive, server>>
    BY <1>3 DEF HandleReport
  <2> QED
    BY <1>0, <2>1, <2>2 DEF CorrelationsTyped, StoreAgrees
<1>4. CASE ApplyEvaluation
  <2> DEFINE detected == [id \in CorrelationIDs |-> Detect(evaluated, id)]
             entered == [id \in CorrelationIDs |->
                            IF detected[id] # {} THEN detected[id] ELSE active[id]]
             remaining == [id \in CorrelationIDs |->
                              IF StillActive(evaluated, id, entered[id]) THEN entered[id] ELSE {}]
  <2>1. PICK ok \in DbOutcomes : /\ DbAnswers(ok) /\ active' = remaining
                                 /\ storedActive' = SaveCorrelations(detected, remaining, ok)
    BY <1>4 DEF ApplyEvaluation
  <2>2. server = "up" /\ server' = "up"
    BY <1>4 DEF ApplyEvaluation
  <2>3. detected \in [CorrelationIDs -> SUBSET Agents]
    BY DetectedOnAgents
  <2>4. \A id \in CorrelationIDs :
           remaining[id] \in {{}, IF detected[id] # {} THEN detected[id] ELSE active[id]}
    OBVIOUS
  <2>5. remaining \in [CorrelationIDs -> SUBSET Agents]
    <3>1. \A id \in CorrelationIDs : detected[id] \subseteq Agents /\ active[id] \subseteq Agents
      BY <2>3 DEF CorrelationsTyped
    <3> HIDE DEF detected
    <3> QED
      BY <3>1
  <2> HIDE DEF detected, remaining
  <2>6. storedActive' \in [CorrelationIDs -> SUBSET Agents]
    BY <2>1, <2>3, <2>5 DEF SaveCorrelations, CorrelationsTyped
  <2>7. CorrelationsTyped'
    BY <1>0, <2>1, <2>5, <2>6 DEF CorrelationsTyped
  <2>8. ASSUME dbFaults' = 0
        PROVE  storedActive' = active'
    BY <1>0, <2>1, <2>2, <2>3, <2>4, <2>5, <2>8, EvaluationAgrees DEF StoreAgrees
  <2> QED
    BY <2>7, <2>8 DEF StoreAgrees
<1>5. NoneActive \in [CorrelationIDs -> SUBSET Agents]
  BY DEF NoneActive
<1>6. CASE StopController \/ ControllerStopped \/ ControllerCrash
  <2>1. /\ UNCHANGED <<storedActive, dbFaults>> /\ server' # "up"
        /\ active' = active \/ active' = NoneActive
    BY <1>6 DEF StopController, ControllerStopped, ControllerCrash, Forgotten
  <2> QED
    BY <1>5, <2>1 DEF CorrelationsTyped, StoreAgrees
<1>7. CASE StartController
  <2>1. PICK ok \in DbOutcomes : /\ DbAnswers(ok)
                                 /\ active' = IF ok THEN storedActive ELSE NoneActive
    BY <1>7 DEF StartController
  <2>2. UNCHANGED storedActive
    BY <1>7 DEF StartController
  <2> QED
    BY <1>0, <1>5, <2>1, <2>2 DEF CorrelationsTyped, StoreAgrees
<1> QED
  BY <1>1, <1>2, <1>3, <1>4, <1>6, <1>7 DEF ClusterNext

(* As long as no operation of the database has failed, its active          *)
(* correlations are those of a controller that is up, for any cluster, any *)
(* patterns and thresholds, and any number of crashes, stops and starts    *)
(* (evaluate and resolveStaleCorrelations against Start).                  *)
THEOREM StoreIsCurrent == ClusterSpec => []StoreAgrees
<1>1. ClusterInit => CorrelationsTyped /\ StoreAgrees
  BY DEF ClusterInit, CorrelationsTyped, StoreAgrees, NoneActive
<1> QED
  BY <1>1, StoreAgreesStep, PTL DEF ClusterSpec

----------------------------------------------------------------------------
(* The pool of webhook workers.                                            *)

(* A worker is idle, gone or carries a request. *)
LEMMA WorkerKinds ==
    /\ Idle # Gone /\ Idle \notin Busy /\ Gone \notin Busy
    /\ \A s \in Busy : /\ s.request \in Requests /\ s.left \in SUBSET Webhooks /\ s.left # {}
                       /\ s.at \in {"client", "sending"}
                       /\ s.at = "sending" => s.to \in Webhooks /\ s.tries \in Nat
                            /\ s \in [at : {"sending"}, request : Requests,
                                      left : (SUBSET Webhooks) \ {{}}, to : Webhooks, tries : Nat]
    /\ \A s \in {Idle, Gone} \cup Busy : s.at \in {"client", "sending"} => s \in Busy
<1>1. ASSUME NEW s \in Busy
      PROVE  /\ s.request \in Requests /\ s.left \in SUBSET Webhooks /\ s.left # {}
             /\ s.at \in {"client", "sending"}
             /\ s.at = "sending" => s.to \in Webhooks /\ s.tries \in Nat
                  /\ s \in [at : {"sending"}, request : Requests,
                            left : (SUBSET Webhooks) \ {{}}, to : Webhooks, tries : Nat]
  BY DEF Busy
<1>2. Idle.at = "idle" /\ Gone.at = "gone"
  BY DEF Idle, Gone
<1>3. Idle # Gone /\ Idle \notin Busy /\ Gone \notin Busy
  BY <1>1, <1>2
<1> QED
  BY <1>1, <1>2, <1>3

(* One worker changes, the others do not. *)
LEMMA WorkerSet ==
    ASSUME PoolTypeOK, NEW p \in Pools, NEW w \in PoolWorkers, NEW s \in {Idle, Gone} \cup Busy,
           Becomes(p, w, s)
    PROVE  /\ worker' \in [Pools -> [PoolWorkers -> {Idle, Gone} \cup Busy]]
           /\ \A q \in Pools, v \in PoolWorkers :
                worker'[q][v] = IF q = p /\ v = w THEN s ELSE worker[q][v]
<1> DEFINE S == {Idle, Gone} \cup Busy
<1>1. worker \in [Pools -> [PoolWorkers -> S]] /\ s \in S
  BY DEF PoolTypeOK
<1>2. worker' = [worker EXCEPT ![p][w] = s]
  BY DEF Becomes
<1> HIDE DEF S
<1>3. worker' \in [Pools -> [PoolWorkers -> S]]
  BY <1>1, <1>2
<1>4. \A q \in Pools, v \in PoolWorkers :
         worker'[q][v] = IF q = p /\ v = w THEN s ELSE worker[q][v]
  BY <1>1, <1>2
<1> QED
  BY <1>3, <1>4 DEF S

(* The invariant of the pools. *)
PoolSound == PoolTypeOK /\ PoolsInOrder /\ QueueIsServed /\ RequestsKept

(* It says what becomes of an accepted request. *)
LEMMA KeptMeansHandled ==
    ASSUME PoolSound
    PROVE  AcceptedHandled
<1> SUFFICES ASSUME NEW r \in Requests, NEW p \in Pools, <<r, p>> \in accepted, p \notin cancelled,
                    handled[r] # Webhooks
             PROVE  InHand(r)
  BY DEF AcceptedHandled
<1>1. Queued(r, p) \/ \E w \in PoolWorkers : Carries(p, w, r)
  BY DEF PoolSound, RequestsKept
<1>2. CASE Queued(r, p)
  <2>1. PICK i \in DOMAIN requestCh[p] : requestCh[p][i] = r
    BY <1>2 DEF Queued
  <2>2. requestCh[p] # <<>>
    BY <2>1
  <2>3. PICK w \in PoolWorkers : worker[p][w] # Gone
    BY <2>2, PoolAssumption DEF PoolSound, QueueIsServed, Attended
  <2> QED
    BY <2>1, <2>3 DEF InHand, Ended
<1>3. CASE \E w \in PoolWorkers : Carries(p, w, r)
  BY <1>3, WorkerKinds DEF Carries, InHand
<1> QED
  BY <1>1, <1>2, <1>3

(* Steps of ExportStatus up to the send on the channel change nothing that *)
(* matters here but what the caller knows of the pool.                     *)
LEMMA SubmitterSteps ==
    ASSUME PoolSound, ExportStatus \/ ReadPool \/ CheckStarted
    PROVE  PoolSound'
<1>1. UNCHANGED <<pool, poolState, cancelled, requestCh, worker, control, accepted, handled>>
  BY DEF ExportStatus, ReadPool, CheckStarted
<1>2. QueueIsServed' /\ RequestsKept'
  BY <1>1 DEF PoolSound, QueueIsServed, RequestsKept, Attended, Queued, Carries
<1>3. /\ submitter \in [at : {"idle", "called"}, next : Nat \ {0}]
                     \cup [at : {"submitting", "checked"}, next : Nat \ {0}, to : Pools]
      /\ submitter.at # "idle" => submitter.next \in Requests
      /\ pool \in Pools
      /\ submitter.at \in {"submitting", "checked"} => submitter.to <= pool
  BY DEF PoolSound, PoolTypeOK, PoolsInOrder
<1>4. /\ submitter' \in [at : {"idle", "called"}, next : Nat \ {0}]
                     \cup [at : {"submitting", "checked"}, next : Nat \ {0}, to : Pools]
      /\ submitter'.at # "idle" => submitter'.next \in Requests
      /\ submitter'.at \in {"submitting", "checked"} => submitter'.to <= pool
  <2>1. CASE ExportStatus
    BY <1>3, <2>1, PoolAssumption DEF ExportStatus, Requests
  <2>2. CASE ReadPool
    BY <1>3, <2>2, PoolAssumption DEF ReadPool, Pools
  <2>3. CASE CheckStarted
    BY <1>3, <2>3 DEF CheckStarted, Submitted
  <2> QED
    BY <2>1, <2>2, <2>3
<1>5. PoolTypeOK'
  BY <1>1, <1>4 DEF PoolSound, PoolTypeOK
<1>6. PoolsInOrder'
  BY <1>1, <1>4 DEF PoolSound, PoolsInOrder
<1> QED
  BY <1>2, <1>5, <1>6 DEF PoolSound

(* The send: a channel that is open has all its workers (submitRequest).   *)
LEMMA SubmitStep ==
    ASSUME PoolSound, SubmitRequest
    PROVE  PoolSound'
<1> DEFINE p == submitter.to
           r == submitter.next
<1>0. /\ submitter.at = "checked" /\ p \in Pools /\ r \in Requests /\ r \in Nat \ {0}
      /\ p <= pool /\ pool \in Pools
  <2>1. submitter.at = "checked"
    BY DEF SubmitRequest
  <2>2. submitter \in [at : {"submitting", "checked"}, next : Nat \ {0}, to : Pools]
    BY <2>1 DEF PoolSound, PoolTypeOK
  <2> QED
    BY <2>1, <2>2 DEF PoolSound, PoolTypeOK, PoolsInOrder
<1>1. /\ UNCHANGED <<pool, poolState, cancelled, worker, control, handled>>
      /\ submitter' = [at |-> "idle", next |-> r + 1]
  BY DEF SubmitRequest, Submitted
<1>2. submitter' \in [at : {"idle", "called"}, next : Nat \ {0}] /\ submitter'.at = "idle"
  BY <1>0, <1>1
<1>3. PoolsInOrder'
  BY <1>1, <1>2 DEF PoolSound, PoolsInOrder
<1>4. CASE UNCHANGED <<requestCh, accepted>>
  <2>1. PoolTypeOK'
    BY <1>1, <1>2, <1>4 DEF PoolSound, PoolTypeOK
  <2>2. QueueIsServed' /\ RequestsKept'
    BY <1>1, <1>4 DEF PoolSound, QueueIsServed, RequestsKept, Attended, Queued, Carries
  <2> QED
    BY <1>3, <2>1, <2>2 DEF PoolSound
<1>5. CASE /\ ~Closed(p)
           /\ requestCh' = [requestCh EXCEPT ![p] = Append(requestCh[p], r)]
           /\ accepted' = accepted \cup {<<r, p>>}
  <2>1. requestCh \in [Pools -> Seq(Requests)]
    BY DEF PoolSound, PoolTypeOK
  <2> HIDE DEF p, r
  <2>2. requestCh[p] \in Seq(Requests)
    BY <1>0, <2>1
  <2>3. /\ Append(requestCh[p], r) \in Seq(Requests)
        /\ Len(Append(requestCh[p], r)) = Len(requestCh[p]) + 1 /\ Len(requestCh[p]) \in Nat
        /\ DOMAIN requestCh[p] = 1 .. Len(requestCh[p])
        /\ DOMAIN Append(requestCh[p], r) = 1 .. Len(requestCh[p]) + 1
        /\ \A i \in 1 .. Len(requestCh[p]) : Append(requestCh[p], r)[i] = requestCh[p][i]
        /\ Append(requestCh[p], r)[Len(requestCh[p]) + 1] = r
    BY <1>0, <2>2, AppendProperties, LenProperties
  <2>4. /\ requestCh' \in [Pools -> Seq(Requests)] /\ requestCh'[p] = Append(requestCh[p], r)
        /\ \A q \in Pools : q # p => requestCh'[q] = requestCh[q]
    BY <1>0, <1>5, <2>1, <2>3
  <2>5. PoolTypeOK'
    BY <1>1, <1>2, <2>4 DEF PoolSound, PoolTypeOK
  <2>6. poolState[p] = "running"
    BY <1>0, <1>5 DEF PoolSound, PoolTypeOK, PoolsInOrder, Closed
  <2>7. QueueIsServed'
    BY <1>0, <1>1, <2>4, <2>6 DEF PoolSound, QueueIsServed, Attended
  <2>8. ASSUME NEW k \in Requests, NEW q \in Pools, Queued(k, q)
        PROVE  Queued(k, q)'
    <3>1. PICK i \in DOMAIN requestCh[q] : requestCh[q][i] = k
      BY <2>8 DEF Queued
    <3>2. i \in DOMAIN requestCh'[q] /\ requestCh'[q][i] = k
      BY SMTT(30), <2>3, <2>4, <3>1
    <3> QED
      BY <3>2 DEF Queued
  <2>9. ASSUME NEW k \in Requests, NEW q \in Pools, k = r, q = p
        PROVE  Queued(k, q)'
    <3>1. Len(requestCh[p]) + 1 \in DOMAIN requestCh'[q]
          /\ requestCh'[q][Len(requestCh[p]) + 1] = k
      BY <2>3, <2>4, <2>9
    <3> QED
      BY <3>1 DEF Queued
  <2>10. \A k \in Requests, q \in Pools :
            <<k, q>> \in accepted' => <<k, q>> \in accepted \/ (k = r /\ q = p)
    BY <1>5
  <2>11. \A k \in Requests, q \in Pools, w \in PoolWorkers : Carries(q, w, k)' <=> Carries(q, w, k)
    BY <1>1 DEF Carries
  <2>12. RequestsKept'
    BY <1>1, <2>8, <2>9, <2>10, <2>11 DEF PoolSound, RequestsKept
  <2> QED
    BY <1>3, <2>5, <2>7, <2>12 DEF PoolSound
<1> QED
  BY <1>4, <1>5 DEF SubmitRequest

(* What every worker step has in common: if the worker that moves carries  *)
(* its request as it should, or has done with it, and leaves no queue      *)
(* behind, the pools are in order after it (worker, processRequest).       *)
LEMMA WorkerMoves ==
    ASSUME PoolSound, PoolTypeOK', NEW p \in Pools, NEW w \in PoolWorkers,
           UNCHANGED <<pool, poolState, cancelled, submitter, control, accepted>>,
           worker[p][w] # Gone,
           \A q \in Pools, v \in PoolWorkers : (q # p \/ v # w) => worker'[q][v] = worker[q][v],
           worker'[p][w] = Gone =>
               poolState[p] # "running" /\ (requestCh[p] = <<>> \/ p \in cancelled),
           \A q \in Pools : requestCh'[q] # <<>> => requestCh[q] # <<>>,
           \A r \in Requests : handled[r] \subseteq handled'[r],
           worker'[p][w] \in Busy =>
               /\ Webhooks \ worker'[p][w].left \subseteq handled'[worker'[p][w].request]
               /\ worker'[p][w].at = "sending" => worker'[p][w].to \in worker'[p][w].left,
           \A r \in Requests, q \in Pools :
               Queued(r, q) => Queued(r, q)' \/ (q = p /\ (Carries(p, w, r)' \/ handled'[r] = Webhooks)),
           \A r \in Requests : Carries(p, w, r) => Carries(p, w, r)' \/ handled'[r] = Webhooks
    PROVE  PoolSound'
<1>1. PoolsInOrder'
  BY DEF PoolSound, PoolsInOrder
<1>2. QueueIsServed'
  <2> SUFFICES ASSUME NEW q \in Pools,
                      poolState[q] = "running" \/ (requestCh'[q] # <<>> /\ q \notin cancelled)
               PROVE  Attended(q)' /\ (poolState[q] = "running" => q \notin cancelled)
    BY DEF QueueIsServed
  <2>1. Attended(q) /\ (poolState[q] = "running" => q \notin cancelled)
    BY DEF PoolSound, QueueIsServed
  <2>2. q = p => worker'[p][w] # Gone
    OBVIOUS
  <2> QED
    BY <2>1, <2>2 DEF Attended
<1>3. ASSUME NEW q \in Pools, NEW v \in PoolWorkers, worker'[q][v] \in Busy
      PROVE  /\ Webhooks \ worker'[q][v].left \subseteq handled'[worker'[q][v].request]
             /\ worker'[q][v].at = "sending" => worker'[q][v].to \in worker'[q][v].left
  <2>1. CASE q = p /\ v = w
    BY <1>3, <2>1
  <2>2. CASE q # p \/ v # w
    <3>1. worker'[q][v] = worker[q][v]
      BY <2>2
    <3>2. worker[q][v].request \in Requests
      BY <1>3, <3>1, WorkerKinds
    <3>3. /\ Webhooks \ worker[q][v].left \subseteq handled[worker[q][v].request]
          /\ worker[q][v].at = "sending" => worker[q][v].to \in worker[q][v].left
      BY <1>3, <3>1 DEF PoolSound, RequestsKept
    <3> QED
      BY <3>1, <3>2, <3>3
  <2> QED
    BY <2>1, <2>2
<1>4. ASSUME NEW r \in Requests, NEW q \in Pools, <<r, q>> \in accepted, q \notin cancelled
      PROVE  handled'[r] = Webhooks \/ Queued(r, q)' \/ \E v \in PoolWorkers : Carries(q, v, r)'
  <2>1. CASE handled[r] = Webhooks
    <3>1. handled'[r] \subseteq Webhooks
      BY DEF PoolTypeOK
    <3> QED
      BY <2>1, <3>1
  <2>2. CASE Queued(r, q)
    BY <2>2
  <2>3. ASSUME NEW v \in PoolWorkers, Carries(q, v, r)
        PROVE  Carries(q, v, r)' \/ handled'[r] = Webhooks
    <3>1. CASE q = p /\ v = w
      BY <2>3, <3>1
    <3>2. CASE q # p \/ v # w
      <4>1. worker'[q][v] = worker[q][v]
        BY <3>2
      <4> QED
        BY <2>3, <4>1 DEF Carries
    <3> QED
      BY <3>1, <3>2
  <2> QED
    BY <1>4, <2>1, <2>2, <2>3 DEF PoolSound, RequestsKept
<1>5. RequestsKept'
  BY <1>3, <1>4 DEF RequestsKept
<1> QED
  BY <1>1, <1>2, <1>5 DEF PoolSound

(* A request leaves the queue and the worker has all webhooks before it. *)
LEMMA TakeStep ==
    ASSUME PoolSound, NEW p \in Pools, NEW w \in PoolWorkers, TakeRequest(p, w)
    PROVE  PoolSound'
<1> DEFINE h == Head(requestCh[p])
           s == IF Webhooks = {} THEN Idle ELSE [at |-> "client", request |-> h, left |-> Webhooks]
<1>1. /\ worker[p][w] = Idle /\ requestCh[p] # <<>> /\ Becomes(p, w, s)
      /\ requestCh' = [requestCh EXCEPT ![p] = Tail(requestCh[p])]
      /\ UNCHANGED <<pool, poolState, cancelled, submitter, control, accepted, handled>>
  BY DEF TakeRequest, NextEndpoint
<1>2. requestCh \in [Pools -> Seq(Requests)] /\ requestCh[p] \in Seq(Requests)
  BY DEF PoolSound, PoolTypeOK
<1>3. /\ h \in Requests /\ Tail(requestCh[p]) \in Seq(Requests) /\ h = requestCh[p][1]
      /\ DOMAIN requestCh[p] = 1 .. Len(requestCh[p]) /\ Len(requestCh[p]) \in Nat \ {0}
      /\ DOMAIN Tail(requestCh[p]) = 1 .. Len(requestCh[p]) - 1
      /\ \A i \in 1 .. Len(requestCh[p]) - 1 : Tail(requestCh[p])[i] = requestCh[p][i + 1]
  BY <1>1, <1>2, HeadTailProperties, LenProperties, EmptySeq
<1>4. s \in {Idle} \cup Busy
  <2> HIDE DEF h
  <2> QED
    BY <1>3 DEF Busy
<1>5. s \in Busy => s.request = h /\ s.left = Webhooks /\ s.at = "client"
  BY WorkerKinds
<1>6. Webhooks # {} => s \in Busy
  <2> HIDE DEF h
  <2> QED
    BY <1>3 DEF Busy
<1> HIDE DEF s, h
<1>7. /\ worker' \in [Pools -> [PoolWorkers -> {Idle, Gone} \cup Busy]]
      /\ \A q \in Pools, v \in PoolWorkers :
           worker'[q][v] = IF q = p /\ v = w THEN s ELSE worker[q][v]
  BY <1>1, <1>4, WorkerSet DEF PoolSound
<1>8. /\ requestCh' \in [Pools -> Seq(Requests)] /\ requestCh'[p] = Tail(requestCh[p])
      /\ \A q \in Pools : q # p => requestCh'[q] = requestCh[q]
  BY <1>1, <1>2, <1>3
<1>9. PoolTypeOK'
  BY <1>1, <1>7, <1>8 DEF PoolSound, PoolTypeOK
<1>10. ASSUME NEW r \in Requests, NEW q \in Pools, Queued(r, q)
       PROVE  Queued(r, q)' \/ (q = p /\ (Carries(p, w, r)' \/ handled'[r] = Webhooks))
  <2>1. PICK i \in DOMAIN requestCh[q] : requestCh[q][i] = r
    BY <1>10 DEF Queued
  <2>2. CASE q # p
    BY <1>8, <2>1, <2>2 DEF Queued
  <2>3. CASE q = p /\ i # 1
    <3>1. i - 1 \in DOMAIN requestCh'[q] /\ requestCh'[q][i - 1] = r
      <4>1. i \in 1 .. Len(requestCh[p])
        BY <1>3, <2>1, <2>3
      <4>2. i - 1 \in 1 .. Len(requestCh[p]) - 1 /\ (i - 1) + 1 = i
        BY <1>3, <2>3, <4>1
      <4>3. Tail(requestCh[p])[i - 1] = requestCh[p][i]
        BY <1>3, <4>2
      <4> QED
        BY <1>3, <1>8, <2>1, <2>3, <4>2, <4>3
    <3> QED
      BY <3>1 DEF Queued
  <2>4. CASE q = p /\ i = 1
    <3>1. r = h
      BY <1>3, <2>1, <2>4
    <3>2. CASE Webhooks = {}
      <4>1. handled'[r] \subseteq Webhooks
        BY <1>9 DEF PoolTypeOK
      <4> QED
        BY <2>4, <3>2, <4>1
    <3>3. CASE Webhooks # {}
      <4>1. worker'[p][w] \in Busy /\ worker'[p][w].request = r
        BY <1>5, <1>6, <1>7, <3>1, <3>3
      <4> QED
        BY <2>4, <4>1 DEF Carries
    <3> QED
      BY <3>2, <3>3
  <2> QED
    BY <2>2, <2>3, <2>4
<1>11. /\ worker[p][w] # Gone /\ worker'[p][w] # Gone /\ worker'[p][w] = s
       /\ \A r \in Requests : ~Carries(p, w, r)
  BY <1>1, <1>4, <1>7, WorkerKinds DEF Carries
<1>12. \A q \in Pools : requestCh'[q] # <<>> => requestCh[q] # <<>>
  BY <1>1, <1>8
<1>13. s \in Busy => Webhooks \ s.left = {} /\ s.at # "sending"
  BY <1>5
<1> QED
  BY <1>1, <1>7, <1>9, <1>10, <1>11, <1>12, <1>13, WorkerMoves

(* A worker ends (the closed or cancelled branch of worker). *)
LEMMA EndStep ==
    ASSUME PoolSound, NEW p \in Pools, NEW w \in PoolWorkers, EndWorker(p, w)
    PROVE  PoolSound'
<1>1. /\ worker[p][w] = Idle /\ Becomes(p, w, Gone)
      /\ (Closed(p) /\ requestCh[p] = <<>>) \/ p \in cancelled
      /\ UNCHANGED <<pool, poolState, cancelled, requestCh, submitter, control, accepted, handled>>
  BY DEF EndWorker
<1>2. /\ worker' \in [Pools -> [PoolWorkers -> {Idle, Gone} \cup Busy]]
      /\ \A q \in Pools, v \in PoolWorkers :
           worker'[q][v] = IF q = p /\ v = w THEN Gone ELSE worker[q][v]
  BY <1>1, WorkerSet DEF PoolSound
<1>3. PoolTypeOK'
  BY <1>1, <1>2 DEF PoolSound, PoolTypeOK
<1>4. poolState[p] # "running" /\ (requestCh[p] = <<>> \/ p \in cancelled)
  BY <1>1 DEF PoolSound, QueueIsServed, Closed
<1>5. \A r \in Requests, q \in Pools : Queued(r, q) => Queued(r, q)'
  BY <1>1 DEF Queued
<1>6. /\ worker[p][w] # Gone /\ worker'[p][w] \notin Busy
      /\ \A r \in Requests : ~Carries(p, w, r)
  BY <1>1, <1>2, WorkerKinds DEF Carries
<1> QED
  BY <1>1, <1>2, <1>3, <1>4, <1>5, <1>6, WorkerMoves

(* A worker gets the client of the next webhook (getHTTPClient). *)
LEMMA ClientStep ==
    ASSUME PoolSound, NEW p \in Pools, NEW w \in PoolWorkers, GetHTTPClient(p, w)
    PROVE  PoolSound'
<1> DEFINE old == worker[p][w]
<1>1. /\ old.at = "client"
      /\ UNCHANGED <<pool, poolState, cancelled, requestCh, submitter, control, accepted, handled>>
  BY DEF GetHTTPClient
<1>2. old \in Busy
  BY <1>1, WorkerKinds DEF PoolSound, PoolTypeOK
<1>3. PICK h \in old.left : Becomes(p, w, [at |-> "sending", request |-> old.request,
                                           left |-> old.left, to |-> h, tries |-> 0])
  BY DEF GetHTTPClient
<1> DEFINE s == [at |-> "sending", request |-> old.request, left |-> old.left, to |-> h,
                 tries |-> 0]
<1>4. /\ old.request \in Requests /\ old.left \in SUBSET Webhooks /\ old.left # {}
      /\ Webhooks \ old.left \subseteq handled[old.request]
  BY <1>2, WorkerKinds DEF PoolSound, RequestsKept
<1>5. /\ s \in Busy /\ s.request = old.request /\ s.left = old.left /\ s.to = h
  <2> HIDE DEF old
  <2> QED
    BY <1>3, <1>4 DEF Busy
<1> HIDE DEF s
<1>6. /\ worker' \in [Pools -> [PoolWorkers -> {Idle, Gone} \cup Busy]]
      /\ \A q \in Pools, v \in PoolWorkers :
           worker'[q][v] = IF q = p /\ v = w THEN s ELSE worker[q][v]
  BY <1>3, <1>5, WorkerSet DEF PoolSound, s
<1>7. PoolTypeOK'
  BY <1>1, <1>6 DEF PoolSound, PoolTypeOK
<1>8. \A r \in Requests, q \in Pools : Queued(r, q) => Queued(r, q)'
  BY <1>1 DEF Queued
<1>9. /\ worker[p][w] # Gone /\ worker'[p][w] = s /\ worker'[p][w] # Gone
      /\ \A r \in Requests : Carries(p, w, r) => Carries(p, w, r)'
  BY <1>2, <1>5, <1>6, WorkerKinds DEF Carries
<1>10. s.to \in s.left /\ Webhooks \ s.left \subseteq handled'[s.request]
  BY <1>1, <1>3, <1>4, <1>5
<1> QED
  BY <1>1, <1>6, <1>7, <1>8, <1>9, <1>10, WorkerMoves

(* A worker makes an attempt, which succeeds, is retried or is given up. *)
LEMMA AttemptStep ==
    ASSUME PoolSound, NEW p \in Pools, NEW w \in PoolWorkers, NEW answer,
           SendRequest(p, w, answer)
    PROVE  PoolSound'
<1> DEFINE old == worker[p][w]
           rest == old.left \ {old.to}
<1>1. /\ old.at = "sending"
      /\ UNCHANGED <<pool, poolState, cancelled, requestCh, submitter, control, accepted>>
  BY DEF SendRequest
<1>2. old \in Busy
  BY <1>1, WorkerKinds DEF PoolSound, PoolTypeOK
<1>3. /\ old.request \in Requests /\ old.left \in SUBSET Webhooks /\ old.left # {}
      /\ Webhooks \ old.left \subseteq handled[old.request]
      /\ old.to \in old.left /\ old.tries \in Nat
      /\ old \in [at : {"sending"}, request : Requests, left : (SUBSET Webhooks) \ {{}},
                  to : Webhooks, tries : Nat]
  BY <1>1, <1>2, WorkerKinds DEF PoolSound, RequestsKept
<1>4. \A r \in Requests, q \in Pools : Queued(r, q) => Queued(r, q)'
  BY <1>1 DEF Queued
<1>5. worker[p][w] # Gone
  BY <1>2, WorkerKinds
<1>6. handled \in [Requests -> SUBSET Webhooks]
  BY DEF PoolSound, PoolTypeOK
<1>7. CASE Becomes(p, w, [old EXCEPT !.tries = old.tries + 1]) /\ UNCHANGED handled
  <2> DEFINE s == [old EXCEPT !.tries = old.tries + 1]
  <2>1. /\ s \in Busy /\ s.request = old.request /\ s.left = old.left /\ s.to = old.to
    <3> HIDE DEF old
    <3> QED
      BY <1>3 DEF Busy
  <2> HIDE DEF s
  <2>2. /\ worker' \in [Pools -> [PoolWorkers -> {Idle, Gone} \cup Busy]]
        /\ \A q \in Pools, v \in PoolWorkers :
             worker'[q][v] = IF q = p /\ v = w THEN s ELSE worker[q][v]
    BY <1>7, <2>1, WorkerSet DEF PoolSound, s
  <2>3. PoolTypeOK'
    BY <1>1, <1>7, <2>2 DEF PoolSound, PoolTypeOK
  <2>4. /\ worker'[p][w] = s /\ worker'[p][w] # Gone
        /\ \A r \in Requests : Carries(p, w, r) => Carries(p, w, r)'
    BY <2>1, <2>2, WorkerKinds DEF Carries
  <2>5. s.to \in s.left /\ Webhooks \ s.left \subseteq handled'[s.request]
    BY <1>3, <1>7, <2>1
  <2> QED
    BY <1>1, <1>4, <1>5, <1>7, <2>2, <2>3, <2>4, <2>5, WorkerMoves
<1>8. CASE /\ handled' = [handled EXCEPT ![old.request] = handled[old.request] \cup {old.to}]
           /\ NextEndpoint(p, w, old.request, rest)
  <2> DEFINE s == IF rest = {} THEN Idle
                  ELSE [at |-> "client", request |-> old.request, left |-> rest]
  <2>1. Becomes(p, w, s)
    BY <1>8 DEF NextEndpoint
  <2>2. /\ s \in {Idle} \cup Busy
        /\ rest # {} => s \in Busy /\ s.request = old.request
        /\ s \in Busy => s.request = old.request /\ s.left = rest /\ s.at = "client"
    <3>1. rest # {} => [at |-> "client", request |-> old.request, left |-> rest] \in Busy
      <4> HIDE DEF old
      <4> QED
        BY <1>3 DEF Busy
    <3> QED
      BY <3>1, WorkerKinds
  <2>3. /\ handled' \in [Requests -> SUBSET Webhooks]
        /\ \A r \in Requests : handled[r] \subseteq handled'[r]
        /\ Webhooks \ rest \subseteq handled'[old.request]
    <3> HIDE DEF old
    <3> QED
      BY <1>3, <1>6, <1>8
  <2> HIDE DEF s, rest
  <2>4. /\ worker' \in [Pools -> [PoolWorkers -> {Idle, Gone} \cup Busy]]
        /\ \A q \in Pools, v \in PoolWorkers :
             worker'[q][v] = IF q = p /\ v = w THEN s ELSE worker[q][v]
    BY <2>1, <2>2, WorkerSet DEF PoolSound
  <2>5. PoolTypeOK'
    BY <1>1, <2>3, <2>4 DEF PoolSound, PoolTypeOK
  <2>6. ASSUME NEW r \in Requests, Carries(p, w, r)
        PROVE  Carries(p, w, r)' \/ handled'[r] = Webhooks
    <3>1. r = old.request
      BY <2>6 DEF Carries
    <3>2. CASE rest = {}
      <4>1. handled'[r] \subseteq Webhooks
        BY <2>3
      <4> QED
        BY <2>3, <3>1, <3>2, <4>1
    <3>3. CASE rest # {}
      BY <2>2, <2>4, <3>1, <3>3 DEF Carries
    <3> QED
      BY <3>2, <3>3
  <2>7. worker'[p][w] = s /\ s # Gone
    BY <2>2, <2>4, WorkerKinds
  <2>8. s \in Busy => Webhooks \ s.left \subseteq handled'[s.request] /\ s.at # "sending"
    BY <2>2, <2>3
  <2> QED
    BY <1>1, <1>4, <1>5, <2>3, <2>4, <2>5, <2>6, <2>7, <2>8, WorkerMoves
<1> QED
  BY <1>7, <1>8 DEF SendRequest

(* Stop of a pool in its steps, and the start of the next one by a reload  *)
(* (Stop of the pool, Reload of the exporter).                             *)
LEMMA StopSteps ==
    ASSUME PoolSound,
           (\E who \in {"reload", "stop"} : BeginStop(who)) \/ CancelPool \/ StopReturns
    PROVE  PoolSound'
<1>0. /\ pool \in Pools /\ pool \in Nat /\ Pools \subseteq Nat
      /\ poolState \in [Pools -> {"new", "running", "closing", "cancelled", "stopped"}]
      /\ worker \in [Pools -> [PoolWorkers -> {Idle, Gone} \cup Busy]]
  BY PoolAssumption DEF PoolSound, PoolTypeOK, Pools
<1>1. UNCHANGED <<requestCh, submitter, accepted, handled>>
  BY DEF BeginStop, CancelPool, StopReturns
<1>2. CASE \E who \in {"reload", "stop"} : BeginStop(who)
  <2>1. PICK who \in {"reload", "stop"} : BeginStop(who)
    BY <1>2
  <2>2. /\ poolState' = [poolState EXCEPT ![pool] = "closing"]
        /\ control' = who /\ (who = "reload" => pool < MaxPools)
        /\ UNCHANGED <<pool, cancelled, worker>>
    BY <2>1 DEF BeginStop, ClosePool
  <2>3. PoolTypeOK'
    BY <1>0, <1>1, <2>2 DEF PoolSound, PoolTypeOK
  <2>4. PoolsInOrder'
    <3>1. control' = "reload" => pool + 1 \in Pools
      BY <1>0, <2>2, PoolAssumption DEF Pools
    <3> QED
      BY <1>0, <1>1, <2>2, <3>1 DEF PoolSound, PoolsInOrder
  <2>5. QueueIsServed' /\ RequestsKept'
    BY <1>0, <1>1, <2>2 DEF PoolSound, QueueIsServed, RequestsKept, Attended, Queued, Carries
  <2> QED
    BY <2>3, <2>4, <2>5 DEF PoolSound
<1>3. CASE CancelPool
  <2>1. /\ poolState' = [poolState EXCEPT ![pool] = "cancelled"]
        /\ cancelled' = cancelled \cup {pool}
        /\ UNCHANGED <<pool, worker, control>>
    BY <1>3 DEF CancelPool
  <2>2. PoolTypeOK'
    BY <1>0, <1>1, <2>1 DEF PoolSound, PoolTypeOK
  <2>3. PoolsInOrder'
    BY <1>0, <1>1, <2>1 DEF PoolSound, PoolsInOrder
  <2>4. QueueIsServed' /\ RequestsKept'
    BY ZenonT(30), <1>0, <1>1, <2>1 DEF PoolSound, QueueIsServed, RequestsKept, Attended, Queued, Carries
  <2> QED
    BY <2>2, <2>3, <2>4 DEF PoolSound
<1>4. CASE StopReturns /\ control # "reload"
  <2>1. /\ poolState' = [poolState EXCEPT ![pool] = "stopped"] /\ control' = "none"
        /\ UNCHANGED <<pool, worker, cancelled>>
    BY <1>4 DEF StopReturns
  <2>2. PoolTypeOK'
    BY <1>0, <1>1, <2>1 DEF PoolSound, PoolTypeOK
  <2>3. PoolsInOrder'
    BY <1>0, <1>1, <2>1 DEF PoolSound, PoolsInOrder
  <2>4. QueueIsServed' /\ RequestsKept'
    BY ZenonT(30), <1>0, <1>1, <2>1 DEF PoolSound, QueueIsServed, RequestsKept, Attended, Queued, Carries
  <2> QED
    BY <2>2, <2>3, <2>4 DEF PoolSound
<1>5. CASE StopReturns /\ control = "reload"
  <2>0. pool + 1 \in Pools
    BY <1>5 DEF PoolSound, PoolsInOrder
  <2>1. /\ poolState' = [poolState EXCEPT ![pool] = "stopped", ![pool + 1] = "running"]
        /\ worker' = [worker EXCEPT ![pool + 1] = [w \in PoolWorkers |-> Idle]]
        /\ control' = "none" /\ pool' = pool + 1 /\ UNCHANGED cancelled
    BY <1>5 DEF StopReturns
  <2>2. /\ worker' \in [Pools -> [PoolWorkers -> {Idle, Gone} \cup Busy]]
        /\ \A p \in Pools, w \in PoolWorkers :
             worker'[p][w] = IF p = pool + 1 THEN Idle ELSE worker[p][w]
    <3> DEFINE S == {Idle, Gone} \cup Busy
               f == [w \in PoolWorkers |-> Idle]
    <3>1. f \in [PoolWorkers -> S] /\ \A w \in PoolWorkers : f[w] = Idle
      OBVIOUS
    <3>2. worker \in [Pools -> [PoolWorkers -> S]] /\ worker' = [worker EXCEPT ![pool + 1] = f]
      BY <1>0, <2>1
    <3> HIDE DEF S, f
    <3>3. /\ worker' \in [Pools -> [PoolWorkers -> S]]
          /\ \A p \in Pools : worker'[p] = IF p = pool + 1 THEN f ELSE worker[p]
      BY <2>0, <3>1, <3>2
    <3>4. \A p \in Pools, w \in PoolWorkers :
             worker'[p][w] = IF p = pool + 1 THEN Idle ELSE worker[p][w]
      BY <3>1, <3>3
    <3> QED
      BY <3>3, <3>4 DEF S
  <2>3. /\ poolState' \in [Pools -> {"new", "running", "closing", "cancelled", "stopped"}]
        /\ \A p \in Pools : poolState'[p] = IF p = pool + 1 THEN "running"
                                            ELSE IF p = pool THEN "stopped" ELSE poolState[p]
    BY <1>0, <2>0, <2>1
  <2>4. pool + 1 > pool /\ \A p \in Pools : p \in Nat /\ (p > pool + 1 => p > pool)
                              /\ (p <= pool + 1 => p <= pool \/ p = pool + 1)
    BY <1>0
  <2>5. pool + 1 \notin cancelled /\ \A w \in PoolWorkers : worker[pool + 1][w] = Gone
    BY <2>0, <2>4 DEF PoolSound, PoolsInOrder
  <2>6. PoolTypeOK'
    BY <1>1, <2>0, <2>1, <2>2, <2>3 DEF PoolSound, PoolTypeOK
  <2>7. PoolsInOrder'
    <3>1. submitter.at \in {"submitting", "checked"} => submitter.to <= pool + 1
      <4>1. ASSUME submitter.at \in {"submitting", "checked"}
            PROVE  submitter.to \in Pools /\ submitter.to <= pool
        BY <4>1 DEF PoolSound, PoolTypeOK, PoolsInOrder
      <4>2. \A p \in Pools : p <= pool => p <= pool + 1
        BY <1>0
      <4> QED
        BY <4>1, <4>2
    <3>2. \A p \in Pools : p <= pool + 1 => poolState'[p] # "new"
      BY <2>3, <2>4 DEF PoolSound, PoolsInOrder
    <3>3. \A p \in Pools : p > pool + 1 => p # pool + 1
      BY <1>0
    <3>4. \A p \in Pools : p > pool + 1 =>
             p \notin cancelled /\ \A w \in PoolWorkers : worker'[p][w] = Gone
      BY <2>2, <2>4, <3>3 DEF PoolSound, PoolsInOrder
    <3> QED
      BY <1>1, <2>1, <3>1, <3>2, <3>4 DEF PoolsInOrder
  <2>8. QueueIsServed'
    BY <1>1, <2>1, <2>2, <2>3, <2>5, WorkerKinds DEF PoolSound, QueueIsServed, Attended
  <2>9. \A p \in Pools, w \in PoolWorkers :
           worker'[p][w] = worker[p][w] \/ (worker'[p][w] \notin Busy /\ worker[p][w] \notin Busy)
    BY <2>2, <2>5, WorkerKinds
  <2>10. /\ \A r \in Requests, p \in Pools : Queued(r, p)' <=> Queued(r, p)
         /\ \A r \in Requests, p \in Pools, w \in PoolWorkers : Carries(p, w, r) => Carries(p, w, r)'
    BY <1>1, <2>9 DEF Queued, Carries
  <2>11. RequestsKept'
    BY <1>1, <2>1, <2>9, <2>10 DEF PoolSound, RequestsKept
  <2> QED
    BY <2>6, <2>7, <2>8, <2>11 DEF PoolSound
<1> QED
  BY <1>2, <1>3, <1>4, <1>5

(* An accepted request is sent to every webhook, or a worker has it or is  *)
(* there to take it, unless the timers of Stop have cancelled its pool:    *)
(* for any number of workers, webhooks, retries, stops and reloads, and    *)
(* any size of the queue (submitRequest, worker, processRequest, Stop and  *)
(* Reload).                                                                *)
THEOREM NothingForgotten == PoolSpec => []AcceptedHandled
<1>1. PoolInit => PoolSound
  <2> SUFFICES ASSUME PoolInit
               PROVE  PoolSound
    OBVIOUS
  <2>1. 1 \in Pools /\ Pools \subseteq Nat \ {0}
    BY PoolAssumption DEF Pools
  <2>2. \A p \in Pools, w \in PoolWorkers : worker[p][w] = IF p = 1 THEN Idle ELSE Gone
    BY DEF PoolInit
  <2>3. PoolTypeOK
    <3>1. worker \in [Pools -> [PoolWorkers -> {Idle, Gone} \cup Busy]]
      BY DEF PoolInit
    <3>2. submitter \in [at : {"idle", "called"}, next : Nat \ {0}] /\ submitter.at = "idle"
      BY DEF PoolInit
    <3> QED
      BY <2>1, <3>1, <3>2 DEF PoolInit, PoolTypeOK
  <2>4. PoolsInOrder
    BY <2>1, <2>2 DEF PoolInit, PoolsInOrder
  <2>5. QueueIsServed
    BY <2>1, <2>2, WorkerKinds DEF PoolInit, QueueIsServed, Attended
  <2>6. RequestsKept
    BY <2>2, WorkerKinds DEF PoolInit, RequestsKept
  <2> QED
    BY <2>3, <2>4, <2>5, <2>6 DEF PoolSound
<1>2. ASSUME PoolSound, [PoolNext]_poolVars
      PROVE  PoolSound'
  <2>1. CASE UNCHANGED poolVars
    <3>1. UNCHANGED <<pool, poolState, cancelled, requestCh, worker, submitter, control, accepted,
                      handled>>
      BY <2>1 DEF poolVars
    <3>2. PoolTypeOK'
      BY <1>2, <3>1 DEF PoolSound, PoolTypeOK
    <3>3. PoolsInOrder' /\ QueueIsServed' /\ RequestsKept'
      BY <1>2, <3>1 DEF PoolSound, PoolsInOrder, QueueIsServed, RequestsKept, Attended, Queued,
                        Carries
    <3> QED
      BY <3>2, <3>3 DEF PoolSound
  <2>2. CASE PoolNext
    BY <1>2, <2>2, SubmitterSteps, SubmitStep, TakeStep, EndStep, ClientStep, AttemptStep, StopSteps
       DEF PoolNext, WorkerStep
  <2> QED
    BY <1>2, <2>1, <2>2
<1> QED
  BY <1>1, <1>2, KeptMeansHandled, PTL DEF PoolSpec

=============================================================================
