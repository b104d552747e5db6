------------------------------ MODULE Session ------------------------------
(***************************************************************************)
(* The session logs (logging.rs) and what writes and removes them: the     *)
(* main loop (main.rs), which drains the events of a worker into the pane  *)
(* and the log, and HOME (ui/home.rs), whose exit prompt cleans the logs   *)
(* of the session or keeps them and prunes the directory. Several sessions *)
(* share the directory.                                                    *)
(*                                                                         *)
(* A run is one action of a session: a build, a flash or a verification.   *)
(* The line that starts a log is its first; each event adds one.           *)
(***************************************************************************)
EXTENDS Naturals, FiniteSets, SequencesExt

CONSTANTS
  Sessions,   \* instances of the program
  Actions,    \* the names logs begin with
  Retain,     \* RETAIN, logs left by a keep (20)
  MaxSuffix,  \* names tried for one action and second (100)
  MaxRuns,    \* bound: runs, in all sessions
  MaxEvents,  \* bound: events of a run, its Done not counted
  MaxInAll,   \* bound: events of all runs
  Seconds     \* what the clock may show when a run begins, in any order

ASSUME SomeAreKept == Retain \in Nat \ {0}
ASSUME SomeName == MaxSuffix \in Nat \ {0}
ASSUME Bounds == {MaxRuns, MaxEvents, MaxInAll} \subseteq Nat

VARIABLES
  dir,      \* the logs, by the time they were written last, oldest first
  runs,     \* the runs so far, in the order of their begin
  screen,   \* "home", "running", "after", "prompt", "leaving" or "exited"
  at,       \* where the main loop is: "drain", "flush" or "key"
  files,    \* SessionLog::files, the names of the session's logs
  doomed,   \* names still to be removed on the way out, by their place in the list
  how,      \* how the session ended or is about to: "clean", "keep", "quit", "killed"
  seen,     \* history: the runs whose logs the choice has seen and could remove
  newest,   \* history: the runs of the newest logs of all, whose ever, at a keep
  removed   \* history: <<who, how, whose run>> for each log removed

ui == <<screen, at, files>>
leave == <<doomed, how, seen, newest, removed>>
vars == <<dir, runs, ui, leave>>

\* A run: whose it is, the events sent, whether Done is among them, the lines the
\* log should have, those on the screen, and whether its log was made, is open
\* for writing, and had an error.
Run == [by : Sessions, sent : 0 .. MaxEvents + 1, ended : BOOLEAN,
        due : 1 .. MaxEvents + 2, drawn : 0 .. MaxEvents + 2,
        logged : BOOLEAN, open : BOOLEAN, err : BOOLEAN]

RunsOf(s) == {r \in DOMAIN runs : runs[r].by = s}
Current(s) == CHOOSE r \in RunsOf(s) : \A q \in RunsOf(s) : q <= r

-----------------------------------------------------------------------------
(* The directory.                                                          *)

Names(d) == {d[i].name : i \in DOMAIN d}
InDir(d) == {d[i].run : i \in DOMAIN d}
LinesOf(d, r) == IF r \in InDir(d)
                   THEN d[CHOOSE i \in DOMAIN d : d[i].run = r].lines ELSE 0

\* The log of run r has n lines on disk. It is the newest then; one that has been
\* removed stays so.
Written(d, r, n) ==
  IF r \notin InDir(d) \/ LinesOf(d, r) = n THEN d
  ELSE LET i == CHOOSE j \in DOMAIN d : d[j].run = r
       IN  Append(RemoveAt(d, i), [d[i] EXCEPT !.lines = n])

\* remove_file: the log of that name goes, if there is one.
Without(d, name) ==
  LET named == {i \in DOMAIN d : d[i].name = name}
  IN  IF named = {} THEN d ELSE RemoveAt(d, CHOOSE i \in named : TRUE)

\* Of what was written, a part may be on disk before it is flushed.
Spilled(d, r, due) ==
  {Written(d, r, n) : n \in (IF r \in InDir(d) THEN LinesOf(d, r) ELSE due) .. due}

-----------------------------------------------------------------------------

Init ==
  /\ dir = <<>>
  /\ runs = <<>>
  /\ screen = [s \in Sessions |-> "home"]
  /\ at = [s \in Sessions |-> "key"]
  /\ files = [s \in Sessions |-> <<>>]
  /\ doomed = [s \in Sessions |-> <<>>]
  /\ how = [s \in Sessions |-> "none"]
  /\ seen = [s \in Sessions |-> {}]
  /\ newest = [s \in Sessions |-> {}]
  /\ removed = {}

Show(s, scr, where) ==
  /\ screen' = [screen EXCEPT ![s] = scr]
  /\ at' = [at EXCEPT ![s] = where]

\* The events of run r, its Done not counted.
Events(r) == IF runs[r].ended THEN runs[r].sent - 1 ELSE runs[r].sent

\* A worker's channel: an event, then another, then Done. One that dies sends no
\* Done, and its screen stays as it is.
WorkerSends(s) ==
  /\ screen[s] = "running"
  /\ LET r == Current(s)
     IN  /\ ~runs[r].ended
         /\ \E last \in BOOLEAN :
              /\ \/ last
                 \/ /\ runs[r].sent < MaxEvents
                    /\ MapThenSumSet(Events, DOMAIN runs) < MaxInAll
              /\ runs' = [runs EXCEPT ![r].sent = @ + 1, ![r].ended = last]
  /\ UNCHANGED <<dir, ui, leave>>

\* Mutant: Done does not close the log.
Drain_LeavesOpen(s) ==
  /\ screen[s] = "running" /\ at[s] = "drain"
  /\ LET r == Current(s)
         due == 1 + runs[r].sent
     IN  /\ runs' = [runs EXCEPT ![r].due = due]
         /\ IF runs[r].open THEN dir' \in Spilled(dir, r, due) ELSE UNCHANGED dir
         /\ Show(s, IF runs[r].ended THEN "after" ELSE "running", "flush")
  /\ UNCHANGED <<files, leave>>

\* drain_events: every event so far goes to the pane and to the log, Done last,
\* which also flushes and closes the log. A write that fails closes it for good.
Drain(s) ==
  /\ screen[s] = "running" /\ at[s] = "drain"
  /\ LET r == Current(s)
         due == 1 + runs[r].sent
         over == runs[r].ended
         kept == [runs[r] EXCEPT !.due = due, !.open = @ /\ ~over]
     IN  /\ \/ ~runs[r].open /\ runs' = [runs EXCEPT ![r] = kept] /\ UNCHANGED dir
            \/ /\ runs[r].open
               /\ runs' = [runs EXCEPT ![r] = kept]
               /\ IF over THEN dir' = Written(dir, r, due)
                          ELSE dir' \in Spilled(dir, r, due)
            \/ /\ runs[r].open
               /\ due > runs[r].due
               /\ runs' = [runs EXCEPT ![r] = [kept EXCEPT !.open = FALSE, !.err = TRUE]]
               /\ UNCHANGED dir
         /\ Show(s, IF over THEN "after" ELSE "running", "flush")
  /\ UNCHANGED <<files, leave>>

\* Mutant: nothing flushes between events.
Flush_Skipped(s) ==
  /\ at[s] = "flush"
  /\ LET r == Current(s)
     IN  runs' = [runs EXCEPT ![r].drawn = runs[r].due] /\ UNCHANGED dir
  /\ Show(s, screen[s], "key")
  /\ UNCHANGED <<files, leave>>

\* The flush of each turn of the loop, whose error nobody sees, and the frame
\* drawn behind it.
Flush(s) ==
  /\ at[s] = "flush"
  /\ LET r == Current(s)
         shown == [runs[r] EXCEPT !.drawn = runs[r].due]
     IN  \/ /\ runs' = [runs EXCEPT ![r] = shown]
            /\ dir' = IF runs[r].open THEN Written(dir, r, runs[r].due) ELSE dir
         \/ /\ runs[r].open
            /\ runs' = [runs EXCEPT ![r] = [shown EXCEPT !.err = TRUE]]
            /\ UNCHANGED dir
  /\ Show(s, screen[s], "key")
  /\ UNCHANGED <<files, leave>>

\* No key within 100 ms, or one that does nothing while a worker runs, Esc too.
NoKey(s) ==
  /\ screen[s] = "running" /\ at[s] = "key"
  /\ at' = [at EXCEPT ![s] = "drain"]
  /\ UNCHANGED <<dir, runs, screen, files, leave>>

NewRun(s, log) ==
  [by |-> s, sent |-> 0, ended |-> FALSE, due |-> 1, drawn |-> 0,
   logged |-> log, open |-> log, err |-> FALSE]

BeginRun(s, log) ==
  /\ screen[s] \in {"home", "after"} /\ at[s] = "key"
  /\ Len(runs) < MaxRuns
  /\ runs' = Append(runs, NewRun(s, log))
  /\ Show(s, "running", "drain")

\* The name begin arrives at: the first that is not taken.
Name(a, t, n) == [action |-> a, second |-> t, n |-> n]
Free(a, t) == {n \in 0 .. MaxSuffix - 1 : Name(a, t, n) \notin Names(dir)}

MadeLog(s, name) ==
  /\ dir' = Append(dir, [name |-> name, run |-> Len(runs) + 1, lines |-> 0])
  /\ files' = [files EXCEPT ![s] = Append(@, name)]

\* Mutant: a name that is taken is opened again.
Begin_Reopens(s, a, t) ==
  /\ BeginRun(s, TRUE)
  /\ LET name == Name(a, t, 0)
     IN  /\ dir' = Append(Without(dir, name),
                          [name |-> name, run |-> Len(runs) + 1, lines |-> 0])
         /\ files' = [files EXCEPT ![s] = Append(@, name)]
  /\ UNCHANGED leave

\* SessionLog::begin, on the key that starts an action, from the menu or from the
\* panel of the one before it. What went before has closed its log.
Begin(s, a, t) ==
  /\ BeginRun(s, TRUE)
  /\ \E n \in Free(a, t) : (\A m \in Free(a, t) : n <= m) /\ MadeLog(s, Name(a, t, n))
  /\ UNCHANGED leave

\* The directory or the file cannot be made, or no name is free: the action runs
\* without a log.
BeginWithout(s) ==
  /\ BeginRun(s, FALSE)
  /\ UNCHANGED <<dir, files, leave>>

Back(s) ==
  /\ screen[s] = "after" /\ at[s] = "key"
  /\ Show(s, "home", "key")
  /\ UNCHANGED <<dir, runs, files, leave>>

Choice(s, choice) == how' = [how EXCEPT ![s] = choice]

\* Without a log there is nothing to ask.
RequestQuit(s) ==
  /\ screen[s] = "home"
  /\ IF files[s] # <<>>
       THEN Show(s, "prompt", "key") /\ UNCHANGED how
       ELSE Show(s, "exited", "key") /\ Choice(s, "quit")
  /\ UNCHANGED <<dir, runs, files, doomed, seen, newest, removed>>

\* Enter, Esc or C.
Clean(s) ==
  /\ screen[s] = "prompt"
  /\ Show(s, "leaving", "key")
  /\ Choice(s, "clean")
  /\ doomed' = [doomed EXCEPT ![s] = files[s]]
  /\ seen' = [seen EXCEPT ![s] = RunsOf(s)]
  /\ UNCHANGED <<dir, runs, files, newest, removed>>

Listed(s, listed, surplus) ==
  /\ screen[s] = "prompt"
  /\ Show(s, "leaving", "key")
  /\ Choice(s, "keep")
  /\ doomed' = [doomed EXCEPT ![s] = [i \in surplus |-> dir[i].name]]
  /\ seen' = [seen EXCEPT ![s] = {dir[i].run : i \in listed}]
  /\ newest' = [newest EXCEPT ![s] =
       {dir[i].run : i \in {j \in DOMAIN dir : Len(dir) < j + Retain}}]
  /\ UNCHANGED <<dir, runs, files, removed>>

\* What is listed beyond the logs that are kept.
Surplus(listed) ==
  {out \in SUBSET listed : /\ Cardinality(listed \ out) <= Retain
                           /\ out # {} => Cardinality(listed \ out) = Retain}

\* Mutant: the listing is sorted the wrong way round.
Keep_NewestFirst(s) ==
  \E listed \in SUBSET DOMAIN dir : \E out \in Surplus(listed) :
    (\A i \in out, j \in listed \ out : i > j) /\ Listed(s, listed, out)

\* K: the directory is listed, and what is beyond the newest will be removed. What
\* others do to it from here on is not seen. A directory that cannot be read, an
\* entry or a time of writing that cannot be had is passed over without a word.
Keep(s) ==
  \E listed \in SUBSET DOMAIN dir : \E out \in Surplus(listed) :
    (\A i \in out, j \in listed \ out : i < j) /\ Listed(s, listed, out)

\* remove_file, for one log after another. One that is gone already is passed over,
\* and so is an error, which leaves the log.
RemoveOne(s) ==
  /\ screen[s] = "leaving"
  /\ \E i \in DOMAIN doomed[s] :
       /\ \A j \in DOMAIN doomed[s] : i <= j
       /\ doomed' = [doomed EXCEPT ![s] = [j \in DOMAIN @ \ {i} |-> @[j]]]
       /\ LET name == doomed[s][i]
              gone == InDir(dir) \ InDir(Without(dir, name))
          IN  \/ /\ dir' = Without(dir, name)
                 /\ removed' = removed \cup {<<s, how[s], r>> : r \in gone}
                 /\ UNCHANGED seen
              \/ /\ seen' = [seen EXCEPT ![s] = @ \ gone]
                 /\ UNCHANGED <<dir, removed>>
  /\ UNCHANGED <<runs, ui, how, newest>>

\* Before it leaves, a keep that has removed logs appends a line to the session's
\* last log, if that is there still and can be opened: the log is the newest again.
Leave(s) ==
  /\ screen[s] = "leaving" /\ DOMAIN doomed[s] = {}
  /\ Show(s, "exited", "key")
  /\ \/ UNCHANGED dir
     \/ /\ how[s] = "keep" /\ \E r \in DOMAIN runs : <<s, "keep", r>> \in removed
        /\ \E i \in DOMAIN dir :
             dir[i].name = Last(files[s]) /\ dir' = Append(RemoveAt(dir, i), dir[i])
  /\ UNCHANGED <<runs, files, leave>>

\* Ctrl+C in any screen, which flushes what it can, or a signal: no question is
\* asked and no log removed. Events that were not drained are gone.
Kill(s) ==
  /\ screen[s] # "exited"
  /\ Show(s, "exited", "key")
  /\ Choice(s, "killed")
  /\ doomed' = [doomed EXCEPT ![s] = <<>>]
  /\ seen' = [seen EXCEPT ![s] = {}]
  /\ newest' = [newest EXCEPT ![s] = {}]
  /\ IF screen[s] = "running"
       THEN LET r == Current(s)
            IN  /\ runs' = [runs EXCEPT ![r] = [@ EXCEPT !.open = FALSE, !.ended = FALSE,
                                                       !.sent = runs[r].due - 1]]
                /\ dir' \in IF runs[r].open THEN Spilled(dir, r, runs[r].due) ELSE {dir}
       ELSE UNCHANGED <<runs, dir>>
  /\ UNCHANGED <<files, removed>>

Next ==
  \E s \in Sessions :
       \/ WorkerSends(s) \/ Drain(s) \/ Flush(s) \/ NoKey(s)
       \/ (\E a \in Actions, t \in Seconds : Begin(s, a, t)) \/ BeginWithout(s)
       \/ Back(s) \/ RequestQuit(s) \/ Clean(s) \/ Keep(s)
       \/ RemoveOne(s) \/ Leave(s) \/ Kill(s)

Spec == Init /\ [][Next]_vars

-----------------------------------------------------------------------------
(* Properties.                                                             *)

\* No two logs have one name, no run two logs; a writer is open only while its
\* run is on the screen.
TypeOK ==
  /\ runs \in Seq(Run) /\ Len(runs) <= MaxRuns
  /\ Cardinality(Names(dir)) = Len(dir)
  /\ Cardinality(InDir(dir)) = Len(dir) /\ InDir(dir) \subseteq DOMAIN runs
  /\ \A s \in Sessions :
       /\ screen[s] \in {"home", "running", "after", "prompt", "leaving", "exited"}
       /\ at[s] \in {"drain", "flush", "key"}
       /\ how[s] \in {"none", "clean", "keep", "quit", "killed"}
       /\ \A r \in RunsOf(s) : runs[r].open => screen[s] = "running" /\ r = Current(s)

\* A log that was made and met no error is there until a clean of its own session
\* or a retention removes it, and is the run's own, whoever else starts the same
\* action in the same second. It has every line the operator has seen, at any
\* moment, also when the program is killed, and no line the pane did not get.
LogTellsThePane ==
  \A r \in DOMAIN runs :
    runs[r].logged /\ (\A x \in removed : x[3] # r) =>
      /\ r \in InDir(dir)
      /\ LinesOf(dir, r) <= runs[r].due
      /\ ~runs[r].err => runs[r].drawn <= LinesOf(dir, r)

\* A clean goes by names. It removes a log of another session only if a log of its
\* own was removed by another before, whose name was free again. Of the logs of its
\* own it leaves only what remove_file would not remove. A keep leaves no more than
\* Retain of the logs it could list and remove, whatever others do, and none of the
\* newest Retain that were there is gone unless another session has removed it.
Robbed(s) == \E x \in removed : x[1] # s /\ runs[x[3]].by = s

ExitChoiceHolds ==
  /\ \A x \in removed : x[2] = "clean" => runs[x[3]].by = x[1] \/ Robbed(x[1])
  /\ \A s \in Sessions : screen[s] = "exited" =>
       /\ how[s] = "clean" => InDir(dir) \cap seen[s] = {}
       /\ how[s] = "keep" =>
            /\ Cardinality(InDir(dir) \cap seen[s]) <= Retain
            /\ \A r \in newest[s] \ InDir(dir) : \E x \in removed : x[1] # s /\ x[3] = r

=============================================================================
