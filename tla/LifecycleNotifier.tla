------------------------- MODULE LifecycleNotifier -------------------------
(***************************************************************************)
(* src/features/lifecycle-notification-worker.ts: the events of the        *)
(* Feature Plans become messages to the user.  The table of events is the  *)
(* only queue: the worker's cursor, what was sent and what failed are      *)
(* events of the same table, and every event has the id of its place.      *)
(*                                                                         *)
(* The rest of the program records events whenever the worker awaits       *)
(* Telegram.  The worker dies with its program at every moment.            *)
(***************************************************************************)
EXTENDS Naturals, Sequences, FiniteSetsExt

CONSTANTS
  PageSize,           \* events the worker reads at a time (100 in the code)
  MaxRecorded,        \* bound on the events of the rest of the program
  MaxNotifierFaults   \* bound on failed messages and deaths of the program

ASSUME NotifierBounds == PageSize \in Nat \ {0} /\ MaxNotifierFaults \in Nat

VARIABLES
  log,        \* the table of events
  notifier,   \* what the worker is doing, and what is left of its page
  taken,      \* the events that were in a page (history)
  told,       \* how often the user was told of each event (history)
  unrecorded, \* messages that were sent and not recorded as sent (history)
  faults

notifierVars == <<log, notifier, taken, told, unrecorded, faults>>

\* Counts of what happened at least once.
Times(counts, i) == IF i \in DOMAIN counts THEN counts[i] ELSE 0
OnceMore(counts, i) ==
  [k \in DOMAIN counts \cup {i} |-> IF k = i THEN Times(counts, i) + 1 ELSE counts[k]]
NotifierIdle == [at |-> "idle", id |-> 0, page |-> {}]
Event(kind, of) == [kind |-> kind, of |-> of]
NotifierFault == faults < MaxNotifierFaults /\ faults' = faults + 1

-----------------------------------------------------------------------------
\* The queries of the worker

\* findLatestEventByType: the cursor is the id of that event itself, which is
\* never less than the cursor in its metadata.
Cursors(l) == {i \in DOMAIN l : l[i].kind = "cursor"}
HasEventForSource(l, i) == \E k \in DOMAIN l : l[k] = Event("sent", i)
ListEventsAfter(i) == {k \in DOMAIN log : i < k /\ k <= i + PageSize}
ToldOf(l, page) == {i \in page : l[i].kind = "lifecycle" /\ ~HasEventForSource(l, i)}

GoesThroughAgain(l, page) ==
  LET toTell == {i \in page : l[i].kind = "lifecycle"}
  IN IF toTell = {} THEN log' = Append(l, Event("cursor", 0)) /\ notifier' = NotifierIdle
     ELSE /\ log' = l
          /\ notifier' = [at |-> "sending", id |-> Min(toTell),
                          page |-> {i \in page : i > Min(toTell)}]

\* The loop up to its next message, or to the end of the page: then the cursor
\* advances to the end of the table, past what was recorded meanwhile.
GoesThrough(l, page) ==
  LET toTell == ToldOf(l, page)
  IN IF toTell = {} THEN log' = Append(l, Event("cursor", 0)) /\ notifier' = NotifierIdle
     ELSE /\ log' = l
          /\ notifier' = [at |-> "sending", id |-> Min(toTell),
                          page |-> {i \in page : i > Min(toTell)}]

-----------------------------------------------------------------------------
\* reconcile, at the start of the program and every five seconds; a tick while
\* it awaits does nothing.

Initializes ==
  /\ notifier.at = "idle" /\ Cursors(log) = {}
  /\ log' = Append(log, Event("cursor", 0))
  /\ UNCHANGED <<notifier, taken, told, unrecorded, faults>>

Reads ==
  /\ notifier.at = "idle" /\ Cursors(log) # {}
  /\ LET page == ListEventsAfter(Max(Cursors(log)))
     IN page # {} /\ GoesThrough(log, page) /\ taken' = taken \cup page
  /\ UNCHANGED <<told, unrecorded, faults>>

Tells == told' = OnceMore(told, notifier.id)

\* The message is sent, its event recorded, and the loop goes on.
Sends ==
  /\ notifier.at = "sending"
  /\ Tells /\ GoesThrough(Append(log, Event("sent", notifier.id)), notifier.page)
  /\ UNCHANGED <<taken, unrecorded, faults>>

\* Telegram refuses or is not reached: the page is left where it is.
SendFails ==
  /\ notifier.at = "sending" /\ NotifierFault
  /\ log' = Append(log, Event("failed", notifier.id))
  /\ notifier' = NotifierIdle
  /\ UNCHANGED <<taken, told, unrecorded>>

\* The message is sent and its event cannot be recorded, or the program dies
\* in between; or it dies before the message.
SendUnrecorded ==
  /\ notifier.at = "sending" /\ NotifierFault
  /\ Tells /\ unrecorded' = OnceMore(unrecorded, notifier.id)
  /\ log' \in {log, Append(log, Event("failed", notifier.id))}
  /\ notifier' = NotifierIdle
  /\ UNCHANGED taken

NotifierDies ==
  /\ notifier.at = "sending" /\ NotifierFault
  /\ notifier' = NotifierIdle
  /\ UNCHANGED <<log, taken, told, unrecorded>>

\* Any part of the program records an event: of a Feature Plan's life, or not.
Recorded == Cardinality({i \in DOMAIN log : log[i].kind \in {"lifecycle", "other"}})
Records(kind) ==
  /\ Recorded < MaxRecorded
  /\ log' = Append(log, Event(kind, 0))
  /\ UNCHANGED <<notifier, taken, told, unrecorded, faults>>

NotifierStarts(events) ==
  /\ log = events
  /\ notifier = NotifierIdle /\ taken = {}
  /\ told = <<>> /\ unrecorded = <<>> /\ faults = 0

NotifierInit == NotifierStarts(<<>>)

NotifierNext ==
  \/ Initializes \/ Reads \/ Sends \/ SendFails \/ SendUnrecorded \/ NotifierDies
  \/ \E kind \in {"lifecycle", "other"} : Records(kind)

\* The timer goes on, and a message is sent or fails.
NotifierFairness == WF_notifierVars(Initializes \/ Reads \/ Sends)
NotifierSpec == NotifierInit /\ [][NotifierNext]_notifierVars /\ NotifierFairness

-----------------------------------------------------------------------------
NotifierTypeOK ==
  /\ log \in Seq([kind : {"lifecycle", "other", "cursor", "sent", "failed"}, of : Nat])
  /\ notifier \in [at : {"idle", "sending"}, id : DOMAIN log \cup {0}, page : SUBSET DOMAIN log]
  /\ taken \in SUBSET DOMAIN log
  /\ \A counts \in {told, unrecorded} :
       DOMAIN counts \subseteq DOMAIN log /\ counts \in [DOMAIN counts -> Nat]
  /\ faults \in 0 .. MaxNotifierFaults

\* Through failures, deaths and pages that are read again, an event the worker
\* has read is told before the cursor passes it, and told again only after a
\* message nobody recorded (reconcile and hasEventForSource).
NoticesAreKept ==
  \A i \in DOMAIN log :
    /\ Times(told, i) <= 1 + Times(unrecorded, i)
    /\ /\ i \in taken /\ log[i].kind = "lifecycle"
       /\ \E c \in Cursors(log) : i < c
       => HasEventForSource(log, i)

\* What must end, whatever failed meanwhile: an event was read and nobody told.
NoticeAtWork == \E i \in taken : log[i].kind = "lifecycle" /\ Times(told, i) = 0
=============================================================================
