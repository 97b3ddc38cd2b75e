----------------------------- MODULE EventStream ----------------------------
(***************************************************************************)
(* The progress of one run as a client follows it (api.rs, events).  The   *)
(* worker's requests in flight commit events, each in a transaction that   *)
(* first takes an id and only then waits for the run's row (context.rs,    *)
(* event); the attempt ends with a publication, which commits its event    *)
(* with the status (publish.rs, commit), or with a recorded status and an  *)
(* event after it (runner.rs, spawn_worker).  The server polls the table   *)
(* from a cursor, and ends the stream when the run has ended and nothing   *)
(* is left.  A browser that loses the connection comes back with the id it *)
(* received last.  A page follows the stream as long as it knows the run   *)
(* to be busy, and asks for the history when it learns that the run ended  *)
(* (run-detail.tsx).                                                       *)
(*                                                                         *)
(* An event is its id; the run's row is locked by at most one transaction. *)
(***************************************************************************)
EXTENDS Integers, Sequences, SequencesExt

CONSTANTS
  Requests,   \* requests of the run that may be in flight together
  Nobody,
  PageSize,   \* events a query returns at most: 200
  EventLimit, \* events of the history, and of the page: 500
  IdleChecks, \* polls between two looks at the status: 20
  MaxIds,     \* bound: ids given out
  MaxStarts,  \* bound: resumptions
  MaxFaults,  \* bound: database faults
  MaxDrops    \* bound: connections lost

ASSUME StreamAssumption ==
  /\ PageSize \in Nat \ {0} /\ EventLimit \in Nat \ {0}
  /\ IdleChecks \in Nat \ {0, 1} /\ Nobody \notin Requests
  /\ MaxIds \in Nat /\ MaxStarts \in Nat /\ MaxFaults \in Nat /\ MaxDrops \in Nat

VARIABLES
  next,      \* the events table's auto-increment
  log,       \* the run's events in the order of their commits
  tx,        \* the id each request's open transaction holds; 0 is none
  row,       \* who holds the run's row
  status,    \* runs.status: "busy" or "terminal" (stream_terminal)
  worker,    \* "working", "recorded" before its terminal event, or "gone"
  stage,     \* where the stream is: "off", "poll", "check", "drain", "over"
  after,     \* its cursor
  idle,      \* idle_polls
  pipe,      \* sent and not yet received
  received,  \* what came through this EventSource, in order
  client,    \* the EventSource: "open", "ended" by stream-end or "closed"
  view,      \* the status the page knows: "busy" or "terminal"
  known,     \* runs.updated_at as the page knows it: starts at that time
  shown,     \* the page's events
  history,   \* its request for the history: "none", "asked" or "shown"
  starts, faults, drops,
  upTo,      \* history: events committed when the status last became terminal
  closing,   \* history: the same when the stream was ended
  told       \* history: the same when the page learned of it

run == <<next, log, tx, row, status, worker>>
stream == <<stage, after, idle, pipe, received, client>>
page == <<view, known, shown, history, told>>
bounds == <<starts, faults, drops>>
vars == <<run, stream, page, bounds, upTo, closing>>

End == 0     \* stream-end on the wire

Init ==
  /\ next = 1 /\ log = <<>> /\ tx = [w \in Requests |-> 0] /\ row = Nobody
  /\ status = "busy" /\ worker = "working"
  /\ stage = "poll" /\ after = 0 /\ idle = 0 /\ pipe = <<>> /\ received = <<>> /\ client = "open"
  /\ view = "busy" /\ known = 0 /\ shown = <<>> /\ history = "none" /\ told = 0
  /\ starts = 0 /\ faults = 0 /\ drops = 0 /\ upTo = 0 /\ closing = 0

Fault == faults < MaxFaults /\ faults' = faults + 1
NoFault == UNCHANGED faults

-----------------------------------------------------------------------------
(* The run. *)

Writing == UNCHANGED <<stream, page, starts, drops, closing>>

InsertEvent(w) ==
  /\ worker = "working" /\ tx[w] = 0 /\ next <= MaxIds
  /\ tx' = [tx EXCEPT ![w] = next] /\ next' = next + 1
  /\ Writing /\ NoFault /\ UNCHANGED <<log, row, status, worker, upTo>>

\* UPDATE runs SET progress.
LockRow(w) ==
  /\ tx[w] # 0 /\ row = Nobody /\ row' = w
  /\ Writing /\ NoFault /\ UNCHANGED <<next, log, tx, status, worker, upTo>>

CommitEvent(w) ==
  /\ row = w
  /\ log' = Append(log, tx[w]) /\ tx' = [tx EXCEPT ![w] = 0] /\ row' = Nobody
  /\ Writing /\ NoFault /\ UNCHANGED <<next, status, worker, upTo>>

\* The transaction fails and is tried again later, with another id.
EventFails(w) ==
  /\ tx[w] # 0 /\ Fault
  /\ tx' = [tx EXCEPT ![w] = 0] /\ row' = IF row = w THEN Nobody ELSE row
  /\ Writing /\ UNCHANGED <<next, log, status, worker, upTo>>

\* Nothing else is in flight when the document is saved.
Publish ==
  /\ worker = "working" /\ \A w \in Requests : tx[w] = 0
  /\ log' = Append(log, next) /\ next' = next + 1 /\ upTo' = Len(log')
  /\ status' = "terminal" /\ worker' = "gone"
  /\ Writing /\ NoFault /\ UNCHANGED <<tx, row>>

\* The attempt fails or is cancelled: what was in flight is given up, and of a
\* transaction that was being committed nobody waits for the answer.
RecordStatus ==
  /\ worker = "working"
  /\ log' \in {log} \cup IF row = Nobody THEN {} ELSE {Append(log, tx[row])}
  /\ tx' = [w \in Requests |-> 0] /\ row' = Nobody
  /\ \/ status' = "terminal" /\ upTo' = Len(log') /\ NoFault
     \/ Fault /\ UNCHANGED <<status, upTo>>
  /\ worker' = "recorded"
  /\ Writing /\ UNCHANGED next

\* The terminal event comes after the status, on its own, and may be lost.
TerminalEvent ==
  /\ worker = "recorded" /\ worker' = "gone"
  /\ \/ log' = Append(log, next) /\ next' = next + 1 /\ NoFault
     \/ Fault /\ UNCHANGED <<log, next>>
  /\ Writing /\ UNCHANGED <<tx, row, status, upTo>>

\* replay_terminal, for a status that could not be recorded.
ReplayTerminal ==
  /\ worker = "gone" /\ status = "busy"
  /\ status' = "terminal" /\ upTo' = Len(log)
  /\ Writing /\ NoFault /\ UNCHANGED <<next, log, tx, row, worker>>

Resume ==
  /\ worker = "gone" /\ status = "terminal" /\ starts < MaxStarts
  /\ starts' = starts + 1 /\ status' = "busy" /\ worker' = "working"
  /\ UNCHANGED <<next, log, tx, row, stream, page, faults, drops, upTo, closing>>

-----------------------------------------------------------------------------
(* The stream. *)

Streaming == UNCHANGED <<run, view, known, history, told, starts, drops, upTo>>

\* ORDER BY id.
Ascending(ids) ==
  [i \in 1 .. Cardinality(ids) |-> CHOOSE e \in ids : Cardinality({d \in ids : d <= e}) = i]

\* db::events: the first page after the cursor, by id.
Page ==
  LET rows == Ascending({e \in Range(log) : e > after})
  IN  SubSeq(rows, 1, IF Len(rows) < PageSize THEN Len(rows) ELSE PageSize)

Send ==
  /\ pipe' = pipe \o Page
  /\ after' = IF Page = <<>> THEN after ELSE Last(Page)

\* The status is looked at when the stream first goes idle, then now and again.
LooksNow(polls) == polls \in {1, IdleChecks}

Poll ==
  /\ stage = "poll"
  /\ \/ /\ Send /\ NoFault
        /\ idle' = IF Len(Page) = PageSize THEN 0 ELSE idle + 1
     \/ Fault /\ UNCHANGED <<pipe, after, idle>>
  /\ stage' = IF LooksNow(idle') THEN "check" ELSE "poll"
  /\ Streaming /\ UNCHANGED <<received, client, shown, closing>>

\* stream_terminal: neither queued, running, cancelling nor interrupted.
StreamTerminal == status = "terminal"

Check ==
  /\ stage = "check"
  /\ idle' = 1
  /\ \/ stage' = (IF StreamTerminal THEN "drain" ELSE "poll") /\ NoFault
     \/ stage' = "poll" /\ Fault
  /\ Streaming /\ UNCHANGED <<after, pipe, received, client, shown, closing>>

\* Mutant: the stream ends as soon as the status is seen.
DrainNothing ==
  /\ stage = "drain"
  /\ pipe' = Append(pipe, End) /\ stage' = "over" /\ closing' = upTo
  /\ Streaming /\ NoFault /\ UNCHANGED <<idle, after, received, client, shown>>

\* "Completion may commit after the first event query": only an empty page ends it.
Drain ==
  /\ stage = "drain"
  /\ \/ /\ Page = <<>> /\ NoFault
        /\ pipe' = Append(pipe, End) /\ stage' = "over" /\ closing' = upTo
        /\ UNCHANGED after
     \/ /\ Page # <<>> /\ NoFault /\ Send /\ stage' = "poll" /\ UNCHANGED closing
     \/ /\ Fault /\ stage' = "poll" /\ UNCHANGED <<pipe, after, closing>>
  /\ Streaming /\ UNCHANGED <<idle, received, client, shown>>

\* slice(-EVENT_LIMIT): the last events of s.
Newest(s) == IF Len(s) <= EventLimit THEN s ELSE SubSeq(s, Len(s) - EventLimit + 1, Len(s))

\* An event the page has already is not shown twice.
Shown(e) == IF e \in Range(shown) THEN shown ELSE Newest(Append(shown, e))

Receive ==
  /\ pipe # <<>> /\ pipe' = Tail(pipe)
  /\ IF Head(pipe) = End
     THEN client' = "ended" /\ stage' = "off" /\ UNCHANGED <<received, shown>>
     ELSE /\ received' = Append(received, Head(pipe)) /\ shown' = Shown(Head(pipe))
          /\ UNCHANGED <<client, stage>>
  /\ Streaming /\ NoFault /\ UNCHANGED <<after, idle, closing>>

\* The connection breaks, or the server stops; what was on the way is lost.
Drop ==
  /\ client = "open" /\ stage # "off" /\ drops < MaxDrops /\ drops' = drops + 1
  /\ stage' = "off" /\ pipe' = <<>>
  /\ UNCHANGED <<run, page, after, idle, received, client, starts, faults, upTo, closing>>

\* event_cursor: the browser sends the id it received last.
Reconnect ==
  /\ client = "open" /\ stage = "off" /\ stage' = "poll" /\ idle' = 0
  /\ after' = IF received = <<>> THEN 0 ELSE Last(received)
  /\ Streaming /\ NoFault /\ UNCHANGED <<pipe, received, client, shown, closing>>

-----------------------------------------------------------------------------
(* The page, told of the run's row now and then. *)

\* The run is busy again: a stream of its own, from the start; a history still
\* on its way is given up.
Open ==
  /\ view = "terminal" /\ status = "busy" /\ view' = "busy" /\ known' = starts
  /\ client' = "open" /\ received' = <<>> /\ history' = "none"
  /\ stage' = "poll" /\ idle' = 0 /\ after' = 0 /\ pipe' = <<>>
  /\ UNCHANGED <<run, shown, told, bounds, upTo, closing>>

\* The run has ended, or ended once more: the stream is closed, and the history
\* asked for.
LearnEnd ==
  /\ status = "terminal" /\ (view = "busy" \/ known # starts)
  /\ view' = "terminal" /\ known' = starts /\ told' = upTo /\ history' = "asked"
  /\ client' = "closed" /\ stage' = "off" /\ pipe' = <<>>
  /\ UNCHANGED <<run, after, idle, received, shown, bounds, upTo, closing>>

\* event_history: the events with the highest ids, by id; they replace what the
\* page shows.
ShowHistory ==
  /\ history = "asked"
  /\ \/ shown' = Newest(Ascending(Range(log))) /\ history' = "shown" /\ NoFault
     \/ Fault /\ history' = "none" /\ UNCHANGED shown
  /\ UNCHANGED <<run, stream, view, known, told, starts, drops, upTo, closing>>

Next ==
  \/ \E w \in Requests : InsertEvent(w) \/ LockRow(w) \/ CommitEvent(w) \/ EventFails(w)
  \/ Publish \/ RecordStatus \/ TerminalEvent \/ ReplayTerminal \/ Resume
  \/ Poll \/ Check \/ Drain \/ Receive \/ Drop \/ Reconnect
  \/ Open \/ LearnEnd \/ ShowHistory

Spec == Init /\ [][Next]_vars

-----------------------------------------------------------------------------
\* An event committed after one with a higher id that the client already has.
Overtaken(e) ==
  \E f \in Range(received) : f > e /\
    \E i, j \in DOMAIN log : i < j /\ log[i] = f /\ log[j] = e

\* An event that the page leaves out for newer ones.
Crowded(e) == Len(shown) = EventLimit /\ \A f \in Range(shown) : e < f

\* A client gets each event once and in the order of their ids, through lost
\* connections and database faults.  It passes over no event but one that was
\* overtaken; and when the stream has ended, it has every other event that was
\* committed before the run's status, or with it.  A page that knows the run has
\* ended and has the history shows these too, the overtaken ones included, unless
\* it shows as many as it can, all of them newer.
StreamIsComplete ==
  /\ \A i, j \in DOMAIN received : i < j => received[i] < received[j]
  /\ \A i \in DOMAIN log : \A g \in Range(received) :
       log[i] < g => log[i] \in Range(received) \/ Overtaken(log[i])
  /\ client = "ended" =>
       \A i \in 1 .. closing : log[i] \in Range(received) \/ Overtaken(log[i])
  /\ IsInjective(shown)
  /\ history = "shown" => \A i \in 1 .. told : log[i] \in Range(shown) \/ Crowded(log[i])

=============================================================================
