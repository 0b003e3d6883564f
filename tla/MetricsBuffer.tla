--------------------------- MODULE MetricsBuffer ---------------------------
(***************************************************************************)
(* The buffer of metric samples between the collectors and the database:   *)
(* one insert at a time of FlushAt rows at most, started by a timer or by  *)
(* a full batch, and the drain when the module is destroyed.               *)
(*                                                                         *)
(* A step is one turn of the event loop: the steps fall where an insert or  *)
(* a timer returns to it, and what awaits an insert goes on in the turn    *)
(* that ends it. Samples are counted.                                      *)
(***************************************************************************)
EXTENDS Naturals

CONSTANTS
  FlushAt,     \* FLUSH_AT_ROWS
  MaxBuffered  \* MAX_BUFFERED_ROWS

ASSUME BufferAssumption ==
  FlushAt \in Nat \ {0} /\ MaxBuffered \in Nat /\ FlushAt <= MaxBuffered

VARIABLES
  buffer,    \* samples waiting
  timer,     \* a flush is scheduled
  flushing,  \* the flush under way has its promise in "flushing"
  batch,     \* rows of that flush
  drained,   \* rows the drain's own insert is writing
  state,     \* "up", "awaiting", "draining" or "closed"
  awaited,   \* onModuleDestroy waits for the flush under way
  refilled   \* history: the flush it awaited ended by starting another

bufferVars ==
  <<buffer, timer, flushing, batch, drained, state, awaited, refilled>>

BufferInit ==
  /\ buffer = 0 /\ timer = FALSE
  /\ flushing = FALSE /\ batch = 0 /\ drained = 0
  /\ state = "up" /\ awaited = FALSE /\ refilled = FALSE

Least(m, n) == IF m <= n THEN m ELSE n

\* writeBatch's splice: what it takes out of the rows waiting, and leaves.
Taken(waiting) == Least(waiting, FlushAt)
Left(waiting) == waiting - Taken(waiting)

\* flushNow with this many rows waiting: splice them, clear the timer.
FlushNow(waiting) ==
  /\ flushing' = TRUE
  /\ batch' = Taken(waiting)
  /\ timer' = FALSE

\* No flush is started: the rows wait.
Wait(scheduled) == timer' = scheduled /\ UNCHANGED <<flushing, batch>>

\* Seeded fault: the bound is off by one.
RoomForOneMore == buffer <= MaxBuffered

\* A full buffer drops the sample.
Room == buffer < MaxBuffered

\* record. During a flush the sample waits for its end.
Record ==
  /\ Room
  /\ \/ flushing /\ Wait(timer) /\ buffer' = buffer + 1
     \/ /\ ~flushing /\ buffer + 1 >= FlushAt
        /\ FlushNow(buffer + 1) /\ buffer' = Left(buffer + 1)
     \/ /\ ~flushing /\ buffer + 1 < FlushAt
        /\ Wait(TRUE) /\ buffer' = buffer + 1
  /\ UNCHANGED <<drained, state, awaited, refilled>>

\* A collector has a sample; it reaches the buffer while the sink is set.
Collect == state = "up" /\ Record

TimerFires ==
  /\ timer
  /\ FlushNow(buffer) /\ buffer' = Left(buffer)
  /\ UNCHANGED <<drained, state, awaited, refilled>>

\* onModuleDestroy's loop with this many rows waiting: it starts the next
\* insert, or there are none and it returns.
Drain(waiting) ==
  /\ drained' = Taken(waiting)
  /\ buffer' = Left(waiting)
  /\ state' = IF waiting > 0 THEN "draining" ELSE "closed"

\* Seeded fault: what came in during the flush waits for the next sample.
RearmNot(waiting) == FALSE

\* The flush leaves rows behind, too few for another batch.
Rearm(waiting) == waiting > 0

\* A flush has ended: this many rows are left to whoever comes next, which is
\* onModuleDestroy when it awaited the flush.
GoOn(waiting) ==
  /\ IF awaited THEN Drain(waiting)
                ELSE buffer' = waiting /\ UNCHANGED <<drained, state>>
  /\ awaited' = FALSE

\* The insert returns, written or failed and logged; the finally block, and
\* what awaited its promise.
FlushEnds ==
  /\ flushing
  /\ \/ /\ buffer >= FlushAt
        /\ FlushNow(buffer) /\ GoOn(Left(buffer))
        /\ refilled' = (refilled \/ awaited)
     \/ /\ buffer < FlushAt
        /\ flushing' = FALSE /\ batch' = 0 /\ timer' = Rearm(buffer)
        /\ GoOn(buffer)
        /\ refilled' = refilled

(***************************************************************************)
(* onModuleDestroy                                                         *)
(***************************************************************************)

\* Seeded fault: the drain starts while a flush is under way.
AwaitNothing == FALSE

\* The sink is taken away, the timer cleared, the flush under way awaited.
MustAwait == flushing

Destroy ==
  /\ state = "up"
  /\ timer' = FALSE
  /\ IF MustAwait
     THEN /\ awaited' = TRUE /\ state' = "awaiting"
          /\ UNCHANGED <<buffer, drained>>
     ELSE awaited' = FALSE /\ Drain(buffer)
  /\ UNCHANGED <<flushing, batch, refilled>>

DrainBatchEnds ==
  /\ drained > 0
  /\ Drain(buffer)
  /\ UNCHANGED <<timer, flushing, batch, awaited, refilled>>

BufferNext ==
  Collect \/ TimerFires \/ FlushEnds \/ Destroy \/ DrainBatchEnds

BufferSpec == BufferInit /\ [][BufferNext]_bufferVars

(***************************************************************************)
(* Properties                                                              *)
(***************************************************************************)

BufferTypeOK ==
  /\ buffer \in 0..MaxBuffered
  /\ {timer, flushing, awaited, refilled} \subseteq BOOLEAN
  /\ batch \in 0..FlushAt /\ drained \in 0..FlushAt
  /\ state \in {"up", "awaiting", "draining", "closed"}

\* While the service runs no sample waits without a timer or a flush that
\* will take it, and never both: no two inserts overlap (record, flushNow).
SampleAwaited ==
  state = "up" =>
    /\ buffer > 0 => timer \/ flushing
    /\ ~(timer /\ flushing)
    /\ ~timer /\ ~flushing => buffer = 0 /\ batch = 0

\* When onModuleDestroy returns, no insert is under way, so that the pool may
\* close: the drain waits for the flush it finds, which with less than a full
\* batch behind it starts no other (onModuleDestroy, flushNow).
ShutdownAwaitsFlush == state = "closed" /\ batch > 0 => refilled

=============================================================================
