-------------------------------- MODULE Tunnel --------------------------------
(***************************************************************************)
(* The dev tunnel of the broker (DevTunnel in tunnel.py): a foreign        *)
(* process that publishes a port of the broker and prints the public URL.  *)
(* start() waits for the URL, a reader thread hands it what the process    *)
(* prints, and stop() ends the process.  The process may print anything,   *)
(* hang, close its output or exit at any moment.                           *)
(***************************************************************************)
EXTENDS Naturals, Sequences, SequencesExt

CONSTANTS
  None,
  MaxLines,  \* lines the process prints
  Capacity   \* lines the pipe holds

ASSUME PipeAssumption == MaxLines \in Nat /\ Capacity \in Nat \ {0}

VARIABLES
  named,     \* tunnel_id was given
  scoped,    \* used as a context manager, not by serve_with_tunnel
  pc,        \* where the thread of start() is
  late,      \* the deadline has passed
  captured,  \* how many lines start() has looked at
  seen,      \* distinct URLs among them, those of inspection left out
  url,       \* the URL that was accepted
  child,     \* the process
  open,      \* the process has not closed its output
  printed,   \* what it has printed (history)
  pipe,      \* what of it has not been read
  reader,    \* the reader thread
  lines      \* the queue between reader and start()

startVars == <<late, captured, seen, url>>
childVars == <<child, open, printed>>
readerVars == <<reader, lines>>
vars == <<named, scoped, pc, startVars, childVars, pipe, readerVars>>

\* URLs are told apart by what they are for: the port that is hosted, two
\* other ports (or none), inspection.
HostUrls == {"wanted", "other", "stale"}
Urls == HostUrls \cup {"inspect"}
Lines == Urls \cup {"ready", "text", "garbled"}
EOF == "EOF"

ASSUME NoneAssumption == None \notin Urls

Init ==
  /\ named \in BOOLEAN
  /\ scoped \in BOOLEAN
  /\ pc = "prepare"
  /\ late = FALSE
  /\ captured = 0
  /\ seen = {}
  /\ url = None
  /\ child = "none"
  /\ open = FALSE
  /\ printed = <<>>
  /\ pipe = <<>>
  /\ reader = "none"
  /\ lines = <<>>

Goto(p) == pc' = p

-----------------------------------------------------------------------------
(***************************************************************************)
(* start(), up to the loop.                                                *)
(***************************************************************************)
\* Where an exception of start() leads: serve_with_tunnel stops the tunnel,
\* a with statement has not been entered.
Raises == Goto(IF scoped THEN "ended" ELSE "stop")

\* No CLI, a login or a command for the named tunnel that fails, no process.
PrepareFails ==
  /\ pc = "prepare"
  /\ Raises
  /\ UNCHANGED <<named, scoped, startVars, childVars, pipe, readerVars>>

Launch ==
  /\ pc = "prepare"
  /\ child' = "running"
  /\ open' = TRUE
  /\ reader' = "reading"
  /\ Goto("check")
  /\ UNCHANGED <<named, scoped, startVars, printed, pipe, lines>>

DeadlinePasses ==
  /\ pc \in {"check", "get"} /\ ~late
  /\ late' = TRUE
  /\ UNCHANGED <<named, scoped, pc, captured, seen, url, childVars, pipe, readerVars>>

(***************************************************************************)
(* One turn of its loop: look at the clock, then wait a little for a line. *)
(***************************************************************************)
\* parse_tunnel_url: with a port, no URL but the one for that port.
Parsed(line, port) ==
  IF line \in (IF port THEN {"wanted"} ELSE Urls) THEN line ELSE None

\* _accept; on_url is called, and whatever it raises is swallowed.
Accept(u) == url' = u /\ Goto("serve")

\* Any of the URLs (a plausible mistake, used by no specification, like the
\* other Bug_ definitions).
Bug_Fallback(urls) == urls

\* _fallback: the URL to use if none is for the port, at most one.
Fallback(urls) == {u \in urls : urls = {u}}

\* URLs of inspection are noted as well.
Bug_Noted(line) == {line} \cap Urls

Noted(line) == {line} \cap HostUrls

AcceptFallback == \E u \in Fallback(seen) : Accept(u)

\* The clock is not looked at.
Bug_Overdue == FALSE

Overdue == late

Check ==
  /\ pc = "check" /\ ~Overdue
  /\ Goto("get")
  /\ UNCHANGED <<named, scoped, startVars, childVars, pipe, readerVars>>

\* The exception is raised and the process left to its own devices.
Bug_GiveUp ==
  /\ Fallback(seen) = {}
  /\ Raises
  /\ UNCHANGED url

\* stop() comes before the exception.
GiveUp ==
  /\ Fallback(seen) = {}
  /\ Goto("stop")
  /\ UNCHANGED url

TimesOut ==
  /\ pc = "check" /\ Overdue
  /\ AcceptFallback \/ GiveUp
  /\ UNCHANGED <<named, scoped, late, captured, seen, childVars, pipe, readerVars>>

AcceptFallbackOrRaise ==
  \/ AcceptFallback
  \/ Fallback(seen) = {} /\ Raises /\ UNCHANGED url

\* No line for 0.1 s.
GetsNothing ==
  /\ pc = "get" /\ lines = <<>>
  /\ \/ child = "running" /\ Goto("check") /\ UNCHANGED url
     \/ child = "exited" /\ AcceptFallbackOrRaise
  /\ UNCHANGED <<named, scoped, late, captured, seen, childVars, pipe, readerVars>>

GetsEOF ==
  /\ pc = "get" /\ lines # <<>> /\ Head(lines) = EOF
  /\ lines' = Tail(lines)
  /\ AcceptFallbackOrRaise
  /\ UNCHANGED <<named, scoped, late, captured, seen, childVars, pipe, reader>>

GetsLine ==
  /\ pc = "get" /\ lines # <<>> /\ Head(lines) # EOF
  /\ lines' = Tail(lines)
  /\ captured' = captured + 1
  /\ LET line == Head(lines)
         now  == seen \cup Noted(line)
     IN IF Parsed(line, named) # None
          THEN Accept(Parsed(line, named)) /\ UNCHANGED seen
          ELSE /\ seen' = now
               /\ IF line = "ready" /\ Fallback(now) # {}
                    THEN \E u \in Fallback(now) : Accept(u)
                    ELSE Goto("check") /\ UNCHANGED url
  /\ UNCHANGED <<named, scoped, late, childVars, pipe, reader>>

-----------------------------------------------------------------------------
\* The server returns or raises, or the body of the with statement does.
ServerEnds ==
  /\ pc = "serve"
  /\ Goto("stop")
  /\ UNCHANGED <<named, scoped, startVars, childVars, pipe, readerVars>>

(***************************************************************************)
(* stop(): ask the process to end, wait for 5 s, kill it.                  *)
(***************************************************************************)
Stop ==
  /\ pc = "stop"
  /\ Goto(IF child = "running" THEN "terminating" ELSE "ended")
  /\ UNCHANGED <<named, scoped, startVars, childVars, pipe, readerVars>>

StopReturns ==
  /\ pc = "terminating" /\ child = "exited"
  /\ Goto("ended")
  /\ UNCHANGED <<named, scoped, startVars, childVars, pipe, readerVars>>

Exits == child' = "exited" /\ open' = FALSE /\ UNCHANGED printed

Kill ==
  /\ pc = "terminating" /\ child = "running"
  /\ Exits
  /\ Goto("ended")
  /\ UNCHANGED <<named, scoped, startVars, pipe, readerVars>>

-----------------------------------------------------------------------------
(***************************************************************************)
(* The process.                                                            *)
(***************************************************************************)
ChildPrints(line) ==
  /\ child = "running" /\ open
  /\ Len(printed) < MaxLines /\ Len(pipe) < Capacity
  /\ printed' = Append(printed, line)
  /\ pipe' = Append(pipe, line)
  /\ UNCHANGED <<named, scoped, pc, startVars, child, open, readerVars>>

ChildCloses ==
  /\ child = "running" /\ open
  /\ open' = FALSE
  /\ UNCHANGED <<named, scoped, pc, startVars, child, printed, pipe, readerVars>>

ChildExits ==
  /\ child = "running"
  /\ Exits
  /\ UNCHANGED <<named, scoped, pc, startVars, pipe, readerVars>>

(***************************************************************************)
(* The reader thread, until the output ends or cannot be decoded.          *)
(***************************************************************************)
\* _startup_done
StartupDone == url # None

Handed(line) == lines' = IF StartupDone THEN lines ELSE Append(lines, line)

\* Once the URL is known the rest is not read.
Bug_ReadsOn == pipe # <<>> /\ ~StartupDone

ReadsOn == pipe # <<>>

ReaderReads ==
  /\ reader = "reading" /\ ReadsOn /\ Head(pipe) # "garbled"
  /\ Handed(Head(pipe))
  /\ pipe' = Tail(pipe)
  /\ UNCHANGED <<named, scoped, pc, startVars, childVars, reader>>

ReaderEnds ==
  /\ reader = "reading"
  /\ IF pipe = <<>> THEN ~open ELSE Head(pipe) = "garbled"
  /\ reader' = "done"
  /\ Handed(EOF)
  /\ UNCHANGED <<named, scoped, pc, startVars, childVars, pipe>>

-----------------------------------------------------------------------------
Start ==
  \/ PrepareFails \/ Launch
  \/ Check \/ TimesOut \/ GetsNothing \/ GetsEOF \/ GetsLine

Stopping == Stop \/ StopReturns \/ Kill

Reader == ReaderReads \/ ReaderEnds

Next ==
  \/ Start
  \/ DeadlinePasses
  \/ ServerEnds
  \/ Stopping
  \/ \E l \in Lines : ChildPrints(l)
  \/ ChildCloses
  \/ ChildExits
  \/ Reader

Spec == Init /\ [][Next]_vars

\* Threads go on and time passes; the process need not do anything.
FairSpec ==
  Spec /\ WF_vars(Start) /\ WF_vars(DeadlinePasses) /\ WF_vars(Stopping) /\ WF_vars(Reader)

-----------------------------------------------------------------------------
TypeOK ==
  /\ {named, scoped, late, open} \subseteq BOOLEAN
  /\ pc \in {"prepare", "check", "get", "serve", "stop", "terminating", "ended"}
  /\ captured + Len(lines) <= Len(printed) + 1
  /\ seen \subseteq HostUrls
  /\ url \in Urls \cup {None}
  /\ child \in {"none", "running", "exited"}
  /\ Range(printed) \subseteq Lines /\ Len(printed) <= MaxLines
  /\ IsSuffix(pipe, printed) /\ Len(pipe) <= Capacity
  /\ reader \in {"none", "reading", "done"}
  /\ Range(lines) \subseteq Lines \cup {EOF}

(***************************************************************************)
(* "With several ports advertised and none matching the port we host,      *)
(* refuse to guess" (tunnel.py): of a named tunnel the URL for the hosted  *)
(* port is taken if it was among the lines looked at, another only if it   *)
(* was the only one; and without looking further only when the process     *)
(* was ready or over, or the time was.                                     *)
(***************************************************************************)
RefusesToGuess ==
  named /\ url # None =>
    LET offered == Range(SubSeq(printed, 1, captured)) \cap HostUrls IN
    \/ url = "wanted" /\ "wanted" \in offered
    \/ /\ offered = {url}
       /\ late \/ reader = "done" \/ child = "exited" \/ printed[captured] = "ready"

(***************************************************************************)
(* A process that prints nothing of use and goes on for ever does not hold *)
(* up the broker: start() returns or raises                                *)
(* (test_dev_tunnel_start_raises_on_deadline).                             *)
(***************************************************************************)
StartEnds == (pc = "prepare") ~> (pc \in {"serve", "stop", "ended"})

(***************************************************************************)
(* The process is read from for as long as it runs, so that it never hangs *)
(* on a full pipe while the broker serves, unless its output cannot be     *)
(* decoded.                                                                *)
(***************************************************************************)
OutputIsDrained ==
  (child = "running" /\ Len(pipe) = Capacity /\ "garbled" \notin Range(printed))
    ~> (Len(pipe) < Capacity \/ child # "running")

(***************************************************************************)
(* "Manage a devtunnel host subprocess for the broker lifetime"            *)
(* (tunnel.py): when all is over the process is gone.  The exception is    *)
(* start() in a with statement: if the output ends before the process      *)
(* does, it raises and leaves the process running.                         *)
(***************************************************************************)
NothingLeftRunning ==
  pc = "ended" /\ child = "running" =>
    scoped /\ url = None /\ (~open \/ "garbled" \in Range(printed))
=============================================================================
