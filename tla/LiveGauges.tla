----------------------------- MODULE LiveGauges -----------------------------
(***************************************************************************)
(* The queue gauges: loads that check the monitored queues one by one over *)
(* a channel they share, which the broker closes when a queue is not       *)
(* there. A load slower than the snapshot's lifetime meets the next one.   *)
(*                                                                         *)
(* A step is what runs between two answers of the broker.                  *)
(***************************************************************************)
EXTENDS Naturals

CONSTANTS
  Load,       \* loads that may be under way at once
  Channel,    \* channels that may be opened; their number bounds the model
  NoChannel,
  Queues      \* MONITORED_QUEUES: 1..Queues

ASSUME GaugesAssumption == NoChannel \notin Channel /\ Queues \in Nat \ {0}

VARIABLES
  declared,    \* queues the broker has
  channels,    \* [Channel -> "unused", "open" or "closed"]
  current,     \* this.channel
  cached,      \* the snapshot is younger than SNAPSHOT_TTL_MS
  up,          \* the source is set
  place,       \* [Load -> where its loop is]
  answered,    \* [Load -> queues in its results]
  expected,    \* history: queues that were there when it began
  disturbed,   \* history: loads whose channel was closed by someone else, or
               \* that got none
  overlapped   \* history: two loads were under way at once

broker == <<declared, channels>>
gaugesVars ==
  <<broker, current, cached, up, place, answered, expected, disturbed, overlapped>>

Ended == [step |-> "ended", queue |-> Queues, channel |-> NoChannel]

GaugesInit ==
  /\ declared \in SUBSET (1..Queues)
  /\ channels = [c \in Channel |-> "unused"]
  /\ current = NoChannel
  /\ cached = FALSE /\ up = TRUE
  /\ place = [l \in Load |-> Ended]
  /\ answered = [l \in Load |-> {}]
  /\ expected = [l \in Load |-> {}]
  /\ disturbed = {} /\ overlapped = FALSE

UnderWay == {l \in Load : place[l].step # "ended"}

\* The loop comes to queue q; this.channel is c.
GoOn(q, c) ==
  IF q > Queues THEN Ended
  ELSE [step |-> IF c = NoChannel THEN "open" ELSE "check", queue |-> q, channel |-> c]

\* snapshot() of a scrape finds none young enough, and loads one.
Begin(l) ==
  /\ up /\ ~cached
  /\ l \notin UnderWay
  /\ cached' = TRUE
  /\ place' = [place EXCEPT ![l] = GoOn(1, current)]
  /\ answered' = [answered EXCEPT ![l] = {}]
  /\ expected' = [expected EXCEPT ![l] = declared]
  /\ disturbed' = disturbed \ {l}
  /\ overlapped' = (overlapped \/ UnderWay # {})
  /\ UNCHANGED <<broker, current, up>>

\* SNAPSHOT_TTL_MS have passed, whether or not the load has ended.
SnapshotAges ==
  /\ cached
  /\ cached' = FALSE
  /\ UNCHANGED <<broker, current, up, place, answered, expected, disturbed, overlapped>>

\* createChannel answers: whoever finishes last is this.channel.
Opened(l, c) ==
  /\ place[l].step = "open"
  /\ channels[c] = "unused"
  /\ channels' = [channels EXCEPT ![c] = "open"]
  /\ current' = c
  /\ place' = [place EXCEPT ![l] = GoOn(place[l].queue, c)]
  /\ UNCHANGED <<declared, cached, up, answered, expected, disturbed, overlapped>>

\* There is no broker, or no connection: the loop breaks.
OpenFails(l) ==
  /\ place[l].step = "open"
  /\ place' = [place EXCEPT ![l] = Ended]
  /\ disturbed' = disturbed \cup {l}
  /\ UNCHANGED <<broker, current, cached, up, answered, expected, overlapped>>

Answerable(l) == place[l].queue \in declared /\ channels[place[l].channel] = "open"

\* checkQueue answers. The next queue takes this.channel, whatever it is now.
Checked(l) ==
  /\ place[l].step = "check"
  /\ Answerable(l)
  /\ answered' = [answered EXCEPT ![l] = @ \cup {place[l].queue}]
  /\ place' = [place EXCEPT ![l] = GoOn(place[l].queue + 1, current)]
  /\ UNCHANGED <<broker, current, cached, up, expected, disturbed, overlapped>>

CheckingOn(c) == {l \in Load : place[l].step = "check" /\ place[l].channel = c}

\* Seeded fault: neither the catch nor the close handler forgets the channel.
StillCurrent(c) == current

\* The close handler forgets the channel if it is this one; the catch of a
\* check that was under way on it forgets whichever it is.
CurrentAfter(c) ==
  IF current = c \/ CheckingOn(c) # {} THEN NoChannel ELSE current

\* Channel c closes, and every check under way on it is rejected.
Closes(c) ==
  /\ channels' = [channels EXCEPT ![c] = "closed"]
  /\ current' = CurrentAfter(c)
  /\ place' = [l \in Load |->
                 IF l \in CheckingOn(c) THEN GoOn(place[l].queue + 1, CurrentAfter(c))
                                        ELSE place[l]]
  /\ UNCHANGED <<declared, answered, expected, overlapped>>

\* checkQueue fails, which closes its channel.
CheckFails(l) ==
  /\ place[l].step = "check"
  /\ ~Answerable(l)
  /\ Closes(place[l].channel)
  /\ disturbed' = disturbed \cup (CheckingOn(place[l].channel) \ {l})
  /\ UNCHANGED <<cached, up>>

\* The broker or the connection closes a channel.
BrokerCloses(c) ==
  /\ channels[c] = "open"
  /\ Closes(c)
  /\ disturbed' = disturbed \cup CheckingOn(c)
  /\ UNCHANGED <<cached, up>>

\* Another instance boots and declares a queue.
Declare(q) ==
  /\ declared' = declared \cup {q}
  /\ UNCHANGED <<channels, current, cached, up, place, answered, expected,
                 disturbed, overlapped>>

\* onModuleDestroy: the source is taken away, and this.channel closed.
StopGauges ==
  /\ up
  /\ up' = FALSE
  /\ IF current = NoChannel
     THEN UNCHANGED <<broker, current, place, answered, expected, disturbed, overlapped>>
     ELSE /\ Closes(current)
          /\ disturbed' = disturbed \cup CheckingOn(current)
  /\ cached' = cached

GaugesNext ==
  \/ \E l \in Load :
       \/ Begin(l) \/ OpenFails(l) \/ Checked(l) \/ CheckFails(l)
       \/ \E c \in Channel : Opened(l, c)
  \/ \E c \in Channel : BrokerCloses(c)
  \/ \E q \in 1..Queues : Declare(q)
  \/ SnapshotAges \/ StopGauges

GaugesSpec == GaugesInit /\ [][GaugesNext]_gaugesVars

(***************************************************************************)
(* Properties                                                              *)
(***************************************************************************)

GaugesTypeOK ==
  /\ declared \in SUBSET (1..Queues)
  /\ channels \in [Channel -> {"unused", "open", "closed"}]
  /\ current \in Channel \cup {NoChannel}
  /\ cached \in BOOLEAN /\ up \in BOOLEAN /\ overlapped \in BOOLEAN
  /\ place \in [Load -> [step : {"ended", "open", "check"}, queue : 1..Queues,
                         channel : Channel \cup {NoChannel}]]
  /\ answered \in [Load -> SUBSET (1..Queues)]
  /\ expected \in [Load -> SUBSET (1..Queues)]
  /\ disturbed \in SUBSET Load

\* Open, and neither this.channel nor under a check: nothing will close it. A
\* channel that a load opens after onModuleDestroy is this.channel to the end.
Leaked ==
  {c \in Channel : channels[c] = "open" /\ c # current /\ CheckingOn(c) = {}}

\* A missing queue costs its own gauge only: a snapshot lacks a queue that was
\* there only if its channel was closed by another load or the broker, or none
\* was to be had; and no channel is leaked unless two loads overlapped (queues,
\* queueChannel).
GaugesExplained ==
  /\ \A l \in Load \ UnderWay : expected[l] \subseteq answered[l] \/ l \in disturbed
  /\ Leaked # {} => overlapped

=============================================================================
