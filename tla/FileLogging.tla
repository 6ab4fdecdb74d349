----------------------------- MODULE FileLogging -----------------------------
(***************************************************************************)
(* The log files and crash dumps of the process                            *)
(* (observability/src/file_logging.rs, crash_dump.rs).  A start prunes the *)
(* log directory, opens the rolling appender and installs the panic hook;  *)
(* threads log events, each first into the ring of recent lines and then,  *)
(* under another lock, into the file of the day; a thread that panics      *)
(* writes a dump of the ring.  The framing of lines and the patterns of    *)
(* redaction are left out but for what they cut off a dump.                *)
(***************************************************************************)
EXTENDS Naturals, Sequences, SequencesExt

CONSTANTS
  Thread,
  Capacity,   \* RECENT_LOG_LINE_CAPACITY
  Retention,  \* LOG_RETENTION_DAYS
  Initially,  \* what the log directory may hold at first
  Millis,     \* the readings of the clock that name dumps
  MaxDays, MaxStarts, MaxEvents

VARIABLES
  today,    \* days since the model began, from an offset of Retention
  dir,      \* log_dir: the log files by name
  process,  \* "down", "pruning", "on", "failed": no logging at all
  cutoff,   \* the oldest day that prune_old_logs spares
  unpruned, \* entries of read_dir not looked at yet
  starts,
  recent,   \* SharedRedactingWriter::recent_lines
  total,    \* how many events the process has logged
  last,     \* history: per thread, the number of its last event
  writing,  \* the threads whose event is in the ring and not yet on disk
  panics,   \* per thread: the dump it is writing, at most one
  dumps,    \* the crash dumps by name
  crashed   \* the threads that have panicked

vars == <<today, dir, process, cutoff, unpruned, starts, recent, total, last, writing, panics,
          dumps, crashed>>
ring == <<recent, total, last, writing>>
hook == <<panics, dumps, crashed>>

(***************************************************************************)
(* A name with its date: "dated" is what log_date reads, prefix, date and  *)
(* the suffix .log; "rolled" is what the appender of the library makes of  *)
(* the prefix, with no suffix (a comment of the tests says so).            *)
(***************************************************************************)
LogFile(form, day) == [form |-> form, day |-> day]
LogDate(name) == {day \in {name.day} : name.form = "dated"}

Event(t, n, snippet) == [by |-> t, n |-> n, snippet |-> snippet]
NoDump == [by |-> {}, last |-> 0, lines |-> <<>>]

Init ==
  /\ today = Retention /\ dir \in SUBSET Initially
  /\ process = "down" /\ cutoff = 0 /\ unpruned = {} /\ starts = 0
  /\ recent = <<>> /\ total = 0 /\ last = [t \in Thread |-> 0] /\ writing = {}
  /\ panics = [t \in Thread |-> {}] /\ dumps = [ms \in Millis |-> NoDump] /\ crashed = {}

DayPasses ==
  /\ today < Retention + MaxDays /\ today' = today + 1
  /\ UNCHANGED <<dir, process, cutoff, unpruned, starts, ring, hook>>

-----------------------------------------------------------------------------
(***************************************************************************)
(* init_file_logging.  prune_old_logs lists the directory and looks at the *)
(* entries one by one.                                                     *)
(***************************************************************************)
Start ==
  /\ process = "down" /\ starts < MaxStarts /\ starts' = starts + 1
  /\ process' = "pruning" /\ cutoff' = today - Retention /\ unpruned' = dir
  /\ UNCHANGED <<today, dir, ring, hook>>

Old(name) == \E day \in LogDate(name) : day < cutoff

Prune(name) ==
  /\ process = "pruning" /\ name \in unpruned
  /\ unpruned' = unpruned \ {name}
  /\ dir' = IF Old(name) THEN dir \ {name} ELSE dir
  /\ UNCHANGED <<today, process, cutoff, starts, ring, hook>>

(***************************************************************************)
(* An old file that cannot be removed ends the start, and the process runs *)
(* on without log and hook (main discards the error).                      *)
(***************************************************************************)
PruneFails(name) ==
  /\ process = "pruning" /\ name \in unpruned /\ Old(name)
  /\ process' = "failed"
  /\ UNCHANGED <<today, dir, cutoff, unpruned, starts, ring, hook>>

(***************************************************************************)
(* The appender opens the file of the day, the hook is installed.          *)
(***************************************************************************)
Install ==
  /\ process = "pruning" /\ unpruned = {}
  /\ process' = "on"
  /\ dir' = dir \cup {LogFile("rolled", today)}
  /\ UNCHANGED <<today, cutoff, unpruned, starts, ring, hook>>

Exit ==
  /\ process \in {"on", "failed"}
  /\ writing = {} /\ \A t \in Thread : panics[t] = {}
  /\ process' = "down" /\ unpruned' = {}
  /\ recent' = <<>> /\ total' = 0 /\ last' = [t \in Thread |-> 0] /\ crashed' = {}
  /\ UNCHANGED <<today, dir, cutoff, starts, writing, panics, dumps>>

-----------------------------------------------------------------------------
(***************************************************************************)
(* Mutation of Joined: a full ring takes no more.                          *)
(***************************************************************************)
JoinedWhileRoom(lines, event) ==
  IF Len(lines) = Capacity THEN lines ELSE Append(lines, event)

(***************************************************************************)
(* write_redacted: the event joins the recent lines, the oldest of which   *)
(* makes room.                                                             *)
(***************************************************************************)
Joined(lines, event) ==
  Append(IF Len(lines) = Capacity THEN Tail(lines) ELSE lines, event)

Remember(t, snippet) ==
  /\ process = "on" /\ t \notin crashed \cup writing /\ total < MaxEvents
  /\ total' = total + 1
  /\ recent' = Joined(recent, Event(t, total', snippet))
  /\ last' = [last EXCEPT ![t] = total']
  /\ writing' = writing \cup {t}
  /\ UNCHANGED <<today, dir, process, cutoff, unpruned, starts, hook>>

(***************************************************************************)
(* Then it goes to the file of the day, or the disk refuses it, an error   *)
(* that the guard's drop discards.                                         *)
(***************************************************************************)
WriteLine(t) ==
  /\ t \in writing /\ writing' = writing \ {t}
  /\ dir' \in {dir, dir \cup {LogFile("rolled", today)}}
  /\ UNCHANGED <<today, process, cutoff, unpruned, starts, recent, total, last, hook>>

-----------------------------------------------------------------------------
(***************************************************************************)
(* The panic hook, in the thread that panics: a file named by the clock is *)
(* created, or emptied when another panic has that name.                   *)
(***************************************************************************)
CreateDump(t, ms) ==
  /\ process = "on" /\ t \notin crashed \cup writing
  /\ crashed' = crashed \cup {t}
  /\ panics' = [panics EXCEPT ![t] = {ms}]
  /\ dumps' = [dumps EXCEPT ![ms] = [by |-> @.by \cup {t}, last |-> last[t], lines |-> <<>>]]
  /\ UNCHANGED <<today, dir, process, cutoff, unpruned, starts, ring>>

(***************************************************************************)
(* Redaction of the whole dump: it ends at its first snippet of a file if  *)
(* what follows that marker, later lines included, is long.                *)
(***************************************************************************)
Redacted(lines) ==
  LET marker == SelectInSeq(lines, LAMBDA e : e.snippet)
  IN {lines} \cup (IF marker \in 1..(Len(lines) - 1) THEN {SubSeq(lines, 1, marker)} ELSE {})

WriteDump(t) ==
  /\ \E ms \in panics[t], lines \in Redacted(recent) : dumps' = [dumps EXCEPT ![ms].lines = lines]
  /\ panics' = [panics EXCEPT ![t] = {}]
  /\ UNCHANGED <<today, dir, process, cutoff, unpruned, starts, ring, crashed>>

Next ==
  \/ DayPasses \/ Start \/ Install \/ Exit
  \/ \E name \in unpruned : Prune(name) \/ PruneFails(name)
  \/ \E t \in Thread :
       \/ \E snippet \in BOOLEAN : Remember(t, snippet)
       \/ WriteLine(t)
       \/ \E ms \in Millis : CreateDump(t, ms)
       \/ WriteDump(t)

Spec == Init /\ [][Next]_vars

-----------------------------------------------------------------------------
(***************************************************************************)
(* A dump tells how it came to the panic: the last event of the thread is  *)
(* in it, even one the disk refused, unless later events fill the ring.    *)
(* The exceptions are in the code: panics of one millisecond share a file, *)
(* and a dump may end at a snippet of a file.                              *)
(***************************************************************************)
DumpTellsTheEnd ==
  \A ms \in Millis :
    LET dump  == dumps[ms]
        lines == dump.lines
        numbers == {lines[i].n : i \in DOMAIN lines}
    IN (\E t \in Thread : dump.by = {t} /\ panics[t] = {}) /\ dump.last # 0
         => \/ dump.last \in numbers
            \/ \E i \in DOMAIN lines : lines[i].snippet
            \/ Len(lines) = Capacity /\ \A n \in numbers : n > dump.last

(***************************************************************************)
(* Log files older than the retention period are gone once a start has     *)
(* pruned the directory (prune_old_logs, LOG_RETENTION_DAYS).              *)
(***************************************************************************)
OldLogsGo == process = "pruning" /\ unpruned = {} => \A name \in dir : name.day >= cutoff

=============================================================================
