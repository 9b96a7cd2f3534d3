--------------------------------- MODULE Logs ---------------------------------
(***************************************************************************)
(* The log of the service (src/src/log.rs): a ring buffer without a lock     *)
(* that any thread writes to, and that a snapshot reads by taking its lines  *)
(* out and putting them back.  The service answers every client in a thread  *)
(* of its own, so snapshots and clears of the Logs page                     *)
(* (src/src/ui/actions/logs.rs) run beside each other and beside writers.    *)
(*                                                                         *)
(* A line is the number it was written as.  Filters on level and scope decide *)
(* which events are written at all; an event here is one they let through.   *)
(***************************************************************************)
EXTENDS Naturals, Sequences, FiniteSets, SequencesExt

CONSTANTS Capacity,    \* MAX_LOG_LINES, smaller
          Kept,        \* the lines and bytes of an answer (MAX_LOG_SNAPSHOT_*), smaller
          MaxWrites,   \* lines written in a behaviour
          MaxClicks,   \* times the user clears, opens or leaves the page, or toggles the viewer
          MaxCalls     \* calls to the service in flight

VARIABLES
  ring,       \* the lines in the buffer, oldest first
  written,    \* lines written so far
  clicks,     \* what the user did so far
  calls,      \* calls to the service that are in flight
  page,       \* [open, viewer]: the Logs page is shown; the viewer is enabled
  loops,      \* polling loops by generation: "check" or "sleep"; a waiting one has a call
  poll,       \* [active, gen]: backend_log_poll_active and _poll_generation
  sync,       \* [inFlight, recent]: sync_in_flight, and last_sync is less than 2 s ago
  lines,      \* backend_log_lines, and how many clears preceded the call they came from
  clears      \* clears the user asked for

vars == <<ring, written, clicks, calls, page, loops, poll, sync, lines, clears>>
ui == <<clicks, page, loops, poll, sync, lines, clears>>

LogsInit ==
  /\ ring = <<>> /\ written = 0 /\ clicks = 0 /\ calls = {} /\ clears = 0
  /\ page = [open |-> FALSE, viewer |-> TRUE]
  /\ loops = {} /\ poll = [active |-> FALSE, gen |-> 0]
  /\ sync = [inFlight |-> FALSE, recent |-> FALSE]
  /\ lines = [at |-> 0, shown |-> <<>>]

-----------------------------------------------------------------------------
(* The ring buffer.  A write drops the oldest line of a full one.            *)
Newest(s, n) == SubSeq(s, IF Len(s) > n THEN Len(s) - n + 1 ELSE 1, Len(s))

Write ==
  /\ written < MaxWrites /\ written' = written + 1
  /\ ring' = Newest(Append(ring, written'), Capacity)
  /\ UNCHANGED <<calls, ui>>

(* A call as the service and the page see it.  A clear is the clear and then *)
(* a snapshot, over two connections.  "current" says that a sync carries the *)
(* generation the page is at.                                               *)
Call(kind, from, cleared) ==
  [kind |-> kind, current |-> kind = "sync", loop |-> from, clears |-> cleared,
   at |-> IF kind = "clear" THEN "clear" ELSE "start",
   left |-> 0, held |-> <<>>, out |-> <<>>]

NextGeneration == {[c EXCEPT !.current = FALSE] : c \in calls}

To(c, d) == calls' = (calls \ {c}) \cup {d}

(* clear takes lines out one by one, as often as the capacity, and stops at  *)
(* an empty buffer: writers between two pops are not told apart.             *)
ClearRing(c) ==
  /\ c.at = "clear"
  /\ ring' = <<>>
  /\ To(c, [c EXCEPT !.at = "start"])
  /\ UNCHANGED <<written, ui>>

(* snapshot reads how many lines there are, takes that many, stopping early  *)
(* at an empty buffer, and puts them back until one does not fit.            *)
Start(c) ==
  /\ c.at = "start"
  /\ To(c, [c EXCEPT !.at = "take", !.left = Len(ring)])
  /\ UNCHANGED <<ring, written, ui>>

Take(c) ==
  /\ c.at = "take"
  /\ IF c.left = 0 \/ ring = <<>>
     THEN /\ To(c, [c EXCEPT !.at = "return", !.left = 0, !.held = c.out])
          /\ UNCHANGED ring
     ELSE /\ To(c, [c EXCEPT !.left = @ - 1, !.out = Append(@, Head(ring))])
          /\ ring' = Tail(ring)
  /\ UNCHANGED <<written, ui>>

ReturnTwice(c) ==                          \* mutant: a line that was put back is kept
  /\ c.at = "return" /\ c.held # <<>>
  /\ ring' = IF Len(ring) < Capacity THEN Append(ring, Head(c.held)) ELSE ring
  /\ \/ To(c, [c EXCEPT !.held = Tail(@)])
     \/ Len(c.held) = 1 /\ UNCHANGED calls
  /\ UNCHANGED <<written, ui>>

Return(c) ==
  /\ c.at = "return" /\ c.held # <<>>
  /\ IF Len(ring) < Capacity
     THEN /\ ring' = Append(ring, Head(c.held))
          /\ To(c, [c EXCEPT !.held = Tail(@)])
     ELSE /\ To(c, [c EXCEPT !.held = <<>>])
          /\ UNCHANGED ring
  /\ UNCHANGED <<written, ui>>

(* snapshot_for_ipc: the newest lines that the limits of an answer let pass. *)
Reply(c) ==
  /\ c.at = "return" /\ c.held = <<>>
  /\ \/ To(c, [c EXCEPT !.at = "answered", !.out = Newest(@, Kept)])
     \/ To(c, [c EXCEPT !.at = "failed", !.out = <<>>])     \* the connection broke
  /\ UNCHANGED <<ring, written, ui>>

Serve(c) == ClearRing(c) \/ Start(c) \/ Take(c) \/ Return(c) \/ Reply(c)

-----------------------------------------------------------------------------
(* The Logs page.  Drawing it starts a loop unless one is active.            *)
Click == clicks < MaxClicks /\ clicks' = clicks + 1

StoppedPoll ==
  IF poll.active THEN [active |-> FALSE, gen |-> poll.gen + 1] ELSE poll

StopPolling ==
  /\ poll' = StoppedPoll
  /\ sync' = IF poll.active THEN [sync EXCEPT !.inFlight = FALSE] ELSE sync

Draw ==
  /\ page.open /\ page.viewer /\ ~poll.active
  /\ poll' = [active |-> TRUE, gen |-> poll.gen + 1]
  /\ loops' = loops \cup {[gen |-> poll'.gen, at |-> "check"]}
  /\ UNCHANGED <<ring, written, calls, clicks, page, sync, lines, clears>>

Open ==
  /\ Click /\ ~page.open /\ page' = [page EXCEPT !.open = TRUE]
  /\ UNCHANGED <<ring, written, calls, loops, poll, sync, lines, clears>>

Leave ==
  /\ Click /\ page.open /\ page' = [page EXCEPT !.open = FALSE]
  /\ StopPolling
  /\ UNCHANGED <<ring, written, calls, loops, lines, clears>>

DisableViewer ==
  /\ Click /\ page.viewer /\ page' = [page EXCEPT !.viewer = FALSE]
  /\ poll' = StoppedPoll
  /\ sync' = [sync EXCEPT !.inFlight = @ /\ ~poll.active, !.recent = FALSE]
  /\ lines' = [lines EXCEPT !.shown = <<>>]
  /\ UNCHANGED <<ring, written, calls, loops, clears>>

EnableViewer ==
  /\ Click /\ ~page.viewer /\ page' = [page EXCEPT !.viewer = TRUE]
  /\ UNCHANGED <<ring, written, calls, loops, poll, sync, lines, clears>>

(* Two seconds pass since the last answer.                                  *)
Elapse ==
  /\ sync.recent /\ sync' = [sync EXCEPT !.recent = FALSE]
  /\ UNCHANGED <<ring, written, calls, clicks, page, loops, poll, lines, clears>>

(* A turn of a polling loop: it ends when the page is left or another loop   *)
(* took over, asks for a snapshot unless one is in flight or just came, and  *)
(* sleeps.                                                                  *)
Continues(l) == page.open /\ poll.gen = l.gen

TurnEnds(l) ==
  /\ l.at = "check" /\ ~Continues(l)
  /\ loops' = loops \ {l}
  /\ UNCHANGED <<ring, written, calls, clicks, page, poll, sync, lines, clears>>

TurnSkips(l) ==
  /\ l.at = "check" /\ Continues(l) /\ (sync.inFlight \/ sync.recent)
  /\ loops' = (loops \ {l}) \cup {[l EXCEPT !.at = "sleep"]}
  /\ UNCHANGED <<ring, written, calls, clicks, page, poll, sync, lines, clears>>

TurnAsks(l) ==
  /\ l.at = "check" /\ Continues(l) /\ ~sync.inFlight /\ ~sync.recent
  /\ Cardinality(calls) < MaxCalls
  /\ sync' = [sync EXCEPT !.inFlight = TRUE]
  /\ calls' = NextGeneration \cup {Call("sync", l.gen, clears)}
  /\ loops' = loops \ {l}
  /\ UNCHANGED <<ring, written, clicks, page, poll, lines, clears>>

Wake(l) ==
  /\ l.at = "sleep"
  /\ loops' = (loops \ {l}) \cup {[l EXCEPT !.at = "check"]}
  /\ UNCHANGED <<ring, written, calls, clicks, page, poll, sync, lines, clears>>

(* finish_backend_log_sync: an answer that a later sync or a clear overtook   *)
(* is dropped, before the call is noted as over.                            *)
FinishSyncAnyway(c) ==                     \* mutant: the generation is not compared
  /\ c.kind = "sync" /\ c.at \in {"answered", "failed"}
  /\ calls' = calls \ {c}
  /\ loops' = loops \cup {[gen |-> c.loop, at |-> "sleep"]}
  /\ sync' = [sync EXCEPT !.inFlight = FALSE, !.recent = TRUE]
  /\ lines' = IF c.at = "answered" THEN [at |-> c.clears, shown |-> c.out] ELSE lines
  /\ UNCHANGED <<ring, written, clicks, page, poll, clears>>

FinishSyncStuck(c) ==                      \* mutant: a failed sync stays in flight
  /\ c.kind = "sync" /\ c.at \in {"answered", "failed"}
  /\ calls' = calls \ {c}
  /\ loops' = loops \cup {[gen |-> c.loop, at |-> "sleep"]}
  /\ IF c.current /\ c.at = "answered"
     THEN /\ sync' = [sync EXCEPT !.inFlight = FALSE, !.recent = TRUE]
          /\ lines' = [at |-> c.clears, shown |-> c.out]
     ELSE UNCHANGED <<sync, lines>>
  /\ UNCHANGED <<ring, written, clicks, page, poll, clears>>

FinishSync(c) ==
  /\ c.kind = "sync" /\ c.at \in {"answered", "failed"}
  /\ calls' = calls \ {c}
  /\ loops' = loops \cup {[gen |-> c.loop, at |-> "sleep"]}
  /\ IF c.current
     THEN /\ sync' = [sync EXCEPT !.inFlight = FALSE, !.recent = TRUE]
          /\ lines' = IF c.at = "answered" THEN [at |-> c.clears, shown |-> c.out] ELSE lines
     ELSE UNCHANGED <<sync, lines>>
  /\ UNCHANGED <<ring, written, clicks, page, poll, clears>>

(* clear_all_logs: the generation moves on; the call in flight is not.       *)
Clear ==
  /\ Click /\ page.open /\ page.viewer /\ Cardinality(calls) < MaxCalls
  /\ clears' = clears + 1
  /\ sync' = [sync EXCEPT !.recent = FALSE]
  /\ lines' = [at |-> clears', shown |-> <<>>]
  /\ calls' = NextGeneration \cup {Call("clear", 0, clears')}
  /\ UNCHANGED <<ring, written, page, loops, poll>>

FinishClear(c) ==
  /\ c.kind = "clear" /\ c.at \in {"answered", "failed"}
  /\ calls' = calls \ {c}
  /\ IF c.at = "answered"
     THEN /\ lines' = [at |-> c.clears, shown |-> c.out]
          /\ sync' = [sync EXCEPT !.recent = TRUE]
     ELSE UNCHANGED <<lines, sync>>
  /\ UNCHANGED <<ring, written, clicks, page, loops, poll, clears>>

Turn(l) == TurnEnds(l) \/ TurnSkips(l) \/ TurnAsks(l) \/ Wake(l)
Finish(c) == FinishSync(c) \/ FinishClear(c)

Serving == \E c \in calls : Serve(c)
Finishing == \E c \in calls : Finish(c)
Turning == \E l \in loops : Turn(l)

Next ==
  \/ Write \/ Draw \/ Open \/ Leave \/ DisableViewer \/ EnableViewer \/ Clear \/ Elapse
  \/ Serving \/ Finishing \/ Turning

(* The service answers or the connection breaks, timers fire, a shown page   *)
(* is drawn.                                                               *)
Fairness ==
  /\ WF_vars(Draw) /\ WF_vars(Elapse) /\ WF_vars(Serving) /\ WF_vars(Finishing)
  /\ WF_vars(Turning)

Spec == LogsInit /\ [][Next]_vars /\ Fairness

-----------------------------------------------------------------------------
TypeOK ==
  /\ ring \in Seq(1 .. MaxWrites) /\ Len(ring) <= Capacity
  /\ written \in 0 .. MaxWrites /\ clicks \in 0 .. MaxClicks /\ clears \in 0 .. clicks
  /\ calls \subseteq [kind : {"sync", "clear"}, current : BOOLEAN, loop : Nat, clears : Nat,
                      at : {"clear", "start", "take", "return", "answered", "failed"},
                      left : 0 .. Capacity, held : Seq(1 .. MaxWrites), out : Seq(1 .. MaxWrites)]
  /\ Cardinality(calls) <= MaxCalls
  /\ page \in [open : BOOLEAN, viewer : BOOLEAN]
  /\ loops \subseteq [gen : Nat, at : {"check", "sleep"}]
  /\ poll \in [active : BOOLEAN, gen : Nat]
  /\ sync \in [inFlight : BOOLEAN, recent : BOOLEAN]
  /\ lines.at \in 0 .. clears /\ Len(lines.shown) <= Kept

(* The lines a call has out of the buffer and has still to put back.         *)
Out(c) == CASE c.at = "take"   -> ToSet(c.out)
            [] c.at = "return" -> ToSet(c.held)
            [] OTHER           -> {}

(* Whatever snapshots, clears and writers do beside each other, a line is in *)
(* the buffer, or out with one snapshot, at most once: no list repeats a     *)
(* line.  And as long as nothing was cleared and everything written fits,    *)
(* no line is lost to a snapshot (log.rs:482).                              *)
BufferSound ==
  /\ Cardinality(ToSet(ring)) = Len(ring)
  /\ \A c \in calls : /\ Cardinality(ToSet(c.out)) = Len(c.out)
                      /\ Out(c) \cap ToSet(ring) = {}
                      /\ \A d \in calls \ {c} : Out(c) \cap Out(d) = {}
  /\ clears = 0 /\ written <= Capacity =>
       1 .. written \subseteq ToSet(ring) \cup UNION {Out(c) : c \in calls}

(* A sync that was asked for before a clear never brings the cleared lines   *)
(* back to the page, however late its answer comes (logs.rs:142).            *)
ClearedStaysOff ==
  \A c \in calls \ calls' : c.kind = "sync" /\ c.clears < clears => UNCHANGED lines

(* The page keeps syncing as long as it is shown, leaving it and coming back *)
(* included, and failed syncs too, until the first clear:                    *)
(* Unsynced ~> ~Unsynced.                                                   *)
Unsynced == page.open /\ page.viewer /\ clears = 0 /\ ~sync.recent

(* "sync backend logs when the Logs page is open" (preferences.rs:91): the   *)
(* page keeps syncing as long as it is shown.                                *)
SyncsWhileOpen == <>[](page.open /\ page.viewer) => []<>(sync.recent)
=============================================================================
