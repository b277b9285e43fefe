----------------------------- MODULE BoundedStream -----------------------------
(***************************************************************************)
(* BoundedEventStream (src/eval-core/runtime/event-stream.ts): a bounded   *)
(* queue between a producer that never waits and a single consumer that    *)
(* asks for one event at a time.  A stream is a record                     *)
(*                                                                         *)
(*   queue    what was pushed and not asked for yet                        *)
(*   closed   close() was called                                           *)
(*   waiting  the consumer asked, and nothing was there                    *)
(*   hand     what an answered request holds until the consumer resumes    *)
(***************************************************************************)
EXTENDS Naturals, Sequences

CONSTANTS
  Nothing,   \* no answered request
  End        \* the answer of a closed, empty stream

Stream(Event, capacity) ==
  [queue : {q \in Seq(Event) : Len(q) <= capacity},
   closed : BOOLEAN,
   waiting : BOOLEAN,
   hand : Event \cup {Nothing, End}]

EmptyStream ==
  [queue |-> <<>>, closed |-> FALSE, waiting |-> FALSE, hand |-> Nothing]

\* Mutant of Push: a full queue drops the newest event.
PushDroppingNewest(capacity, s, e) ==
  IF s.closed THEN s
  ELSE IF s.waiting THEN [s EXCEPT !.waiting = FALSE, !.hand = e]
  ELSE IF Len(s.queue) = capacity THEN s
  ELSE [s EXCEPT !.queue = Append(@, e)]

\* push: a closed stream ignores the event, a waiting consumer is handed it,
\* and a full queue drops its oldest.
Push(capacity, s, e) ==
  IF s.closed THEN s
  ELSE IF s.waiting THEN [s EXCEPT !.waiting = FALSE, !.hand = e]
  ELSE IF Len(s.queue) = capacity THEN [s EXCEPT !.queue = Append(Tail(@), e)]
  ELSE [s EXCEPT !.queue = Append(@, e)]

\* Mutant of Closed: a waiting consumer is not woken.
ClosedSilently(s) == [s EXCEPT !.closed = TRUE]

\* close: a waiting consumer is told that nothing will come.
Closed(s) ==
  IF s.waiting
  THEN [s EXCEPT !.closed = TRUE, !.waiting = FALSE, !.hand = End]
  ELSE [s EXCEPT !.closed = TRUE]

\* The consumer is between two requests.
Ready(s) == ~ s.waiting /\ s.hand = Nothing

\* next of the iterator.
Asked(s) ==
  IF s.queue # <<>> THEN [s EXCEPT !.hand = Head(s.queue), !.queue = Tail(@)]
  ELSE IF s.closed THEN [s EXCEPT !.hand = End]
  ELSE [s EXCEPT !.waiting = TRUE]

\* An answered request holds an event.
Answered(s) == s.hand \notin {Nothing, End}

\* The consumer resumes with it.
Taken(s) == [s EXCEPT !.hand = Nothing]
===============================================================================
