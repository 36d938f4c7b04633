---------------------------- MODULE EventJournal ----------------------------
(***************************************************************************)
(* The write-ahead journal: EventBus hands each event to a bounded queue   *)
(* (backend/common/events.py), a task moves it to a file through threads   *)
(* (backend/engine/persistence/journal.py), and the next process replays   *)
(* the newest file that is not empty (run_bootstrap.py).                   *)
(*                                                                         *)
(* A file is represented by what replaying it gives: the last row of each  *)
(* child order, the last position row, the sum of the fills.  The modules  *)
(* that publish say when.                                                  *)
(***************************************************************************)
EXTENDS Integers, SequencesExt

CONSTANTS
  Orders,    \* client order ids
  MaxQueue,  \* size of the journal queue (20 000 in the code)
  MaxBuffer  \* lines the open file holds back at most (8 KB in the runtime)

ASSUME JournalAssumption ==
  /\ MaxQueue \in Nat \ {0}
  /\ MaxBuffer \in Nat \ {0}

VARIABLES
  writer,  \* the writer task: "off", "on", or "draining" once it is cancelled
  queue,   \* _journal_queue
  held,    \* the event a thread appends for the writer, at most one
  adrift,  \* the event a thread still appends after its writer was cancelled
  buffer,  \* lines written and not flushed
  wal,     \* the file of this process
  older,   \* the file replay_wal_async reads, of an earlier process
  told,    \* history: what a file of everything published would replay to
  spoilt   \* history: the queue overflowed, the writer was cancelled in an append, or
           \* the process was killed (told is not kept from then on)

journalVars == <<writer, queue, held, adrift, buffer, wal, older, told, spoilt>>

\* The statuses a row of a child may have: all the ends of an order are one here.
Row(o, st)  == [kind |-> "order", id |-> o, status |-> st]
Position(q) == [kind |-> "position", qty |-> q]
Fill(d)     == [kind |-> "fill", qty |-> d]
Note        == [kind |-> "status"]

EmptyWal == [lines |-> FALSE, child |-> [o \in Orders |-> "none"], rows |-> {}, fills |-> 0]

\* replay_wal_async(), one line: the last row of a child or of a position wins, and
\* fills count only in a file without a position row.
Replay(w, e) ==
  CASE e.kind = "order"    -> [w EXCEPT !.lines = TRUE, !.child[e.id] = e.status]
    [] e.kind = "position" -> [w EXCEPT !.lines = TRUE, !.rows = {e.qty}, !.fills = 0]
    [] e.kind = "fill"     -> [w EXCEPT !.lines = TRUE,
                                        !.fills = IF w.rows = {} THEN @ + e.qty ELSE 0]
    [] e.kind = "status"   -> [w EXCEPT !.lines = TRUE]

ReplayAll(w, events) ==
  LET after[n \in 0..Len(events)] == IF n = 0 THEN w ELSE Replay(after[n - 1], events[n])
  IN  after[Len(events)]

WalType == [lines : BOOLEAN, child : [Orders -> {"none", "ACK", "END"}],
            rows : {{}} \union {{q} : q \in -2..2}, fills : -2..2]

TypeOKJournal ==
  /\ writer \in {"off", "on", "draining"}
  /\ Len(queue) <= MaxQueue /\ Len(held) <= 1 /\ Len(adrift) <= 1
  /\ Len(buffer) <= MaxBuffer
  /\ {wal, older, told} \subseteq WalType
  /\ spoilt \in BOOLEAN

InitJournal ==
  /\ writer = "off"
  /\ queue = <<>> /\ held = <<>> /\ adrift = <<>> /\ buffer = <<>>
  /\ wal = EmptyWal /\ older = EmptyWal /\ told = EmptyWal
  /\ spoilt = FALSE

-----------------------------------------------------------------------------

\* A full queue drops its oldest event for each that comes.
Enqueue(q, events) ==
  LET all == q \o events
  IN  SubSeq(all, IF Len(all) > MaxQueue THEN Len(all) - MaxQueue + 1 ELSE 1, Len(all))

\* publish(), for the journal: the events of one handler, in order.
Publish(events) ==
  /\ queue' = Enqueue(queue, events)
  /\ spoilt' = (spoilt \/ Len(queue) + Len(events) > MaxQueue)
  /\ told' = IF spoilt' THEN EmptyWal ELSE ReplayAll(told, events)
  /\ UNCHANGED <<writer, held, adrift, buffer, wal, older>>

\* A line that does not fit makes the file write out what it held back.
WriteLine(e) ==
  IF Len(buffer) < MaxBuffer
  THEN buffer' = Append(buffer, e) /\ UNCHANGED wal
  ELSE buffer' = <<e>> /\ wal' = ReplayAll(wal, buffer)

\* The writer takes an event; cancelled, it still empties the queue.
WriterTakes ==
  /\ writer # "off" /\ held = <<>> /\ queue # <<>>
  /\ held' = <<Head(queue)>>
  /\ queue' = Tail(queue)
  /\ UNCHANGED <<writer, adrift, buffer, wal, older, told, spoilt>>

Appended ==
  /\ held # <<>>
  /\ WriteLine(Head(held))
  /\ held' = <<>>
  /\ UNCHANGED <<writer, queue, adrift, older, told, spoilt>>

\* flush(), between two events.
Flush ==
  /\ writer = "on" /\ held = <<>> /\ buffer # <<>>
  /\ wal' = ReplayAll(wal, buffer)
  /\ buffer' = <<>>
  /\ UNCHANGED <<writer, queue, held, adrift, older, told, spoilt>>

\* Mutated form of StopWriter: the cancelled writer leaves the queue where it is.
StopWriterAtOnce ==
  /\ writer = "on"
  /\ writer' = "draining"
  /\ queue' = <<>>
  /\ adrift' = held
  /\ held' = <<>>
  /\ spoilt' = (spoilt \/ held # <<>>)
  /\ told' = IF spoilt' THEN EmptyWal ELSE told
  /\ UNCHANGED <<buffer, wal, older>>

\* stop_journal_writer(): cancelling the task does not stop a thread that is at work,
\* and takes back an append whose thread has not begun.
StopWriter ==
  /\ writer = "on"
  /\ writer' = "draining"
  /\ adrift' \in {held, <<>>}
  /\ held' = <<>>
  /\ spoilt' = (spoilt \/ held # <<>>)
  /\ told' = IF spoilt' THEN EmptyWal ELSE told
  /\ UNCHANGED <<queue, buffer, wal, older>>

\* The thread that was left alone appends, behind whatever the drain has written.
AppendedLate ==
  /\ adrift # <<>>
  /\ WriteLine(Head(adrift))
  /\ adrift' = <<>>
  /\ UNCHANGED <<writer, queue, held, older, told, spoilt>>

\* close(), once the drain is over: what is still adrift finds no file.
Close ==
  /\ writer = "draining" /\ queue = <<>> /\ held = <<>>
  /\ wal' = ReplayAll(wal, buffer)
  /\ writer' = "off"
  /\ buffer' = <<>> /\ adrift' = <<>>
  /\ UNCHANGED <<queue, held, older, told, spoilt>>

\* The process is killed: a part of the buffer may have reached the file, and a line
\* torn at its end is skipped by the replay.
Kill ==
  /\ writer # "off"
  /\ \E n \in 0..Len(buffer) : wal' = ReplayAll(wal, SubSeq(buffer, 1, n))
  /\ writer' = "off"
  /\ queue' = <<>> /\ held' = <<>> /\ adrift' = <<>> /\ buffer' = <<>>
  /\ spoilt' = TRUE /\ told' = EmptyWal
  /\ UNCHANGED older

\* bootstrap_run(): a new directory, and find_previous_wal() passes over empty files.
OpenJournal ==
  /\ writer = "off"
  /\ older' = IF wal.lines THEN wal ELSE older
  /\ wal' = EmptyWal /\ told' = EmptyWal
  /\ writer' = "on"
  /\ spoilt' = FALSE
  /\ UNCHANGED <<queue, held, adrift, buffer>>

WriterStep == WriterTakes \/ Appended \/ Flush \/ AppendedLate
=============================================================================
