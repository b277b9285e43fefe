-------------------------- MODULE EventDeliveryProofs --------------------------
(***************************************************************************)
(* The promises of EventDelivery, for any number of workers, emissions and *)
(* stages, streams of any capacity and every sealed mode.                  *)
(***************************************************************************)
EXTENDS EventDelivery, FiniteSetTheorems, SequenceTheorems, TLAPS

-----------------------------------------------------------------------------
(***************************************************************************)
(* A stream: what it carries, in order, and what its consumer sees.        *)
(***************************************************************************)
Queued(s) == {s.queue[i] : i \in DOMAIN s.queue}
Held(s) == {s.hand} \ {Nothing, End}
Carried(s) == Held(s) \cup Queued(s)

Below(S, T) == \A x \in S, y \in T : x.seq < y.seq
Increasing(q) == \A i, j \in DOMAIN q : i < j => q[i].seq < q[j].seq
Sorted(s) == Increasing(s.queue) /\ Below(Held(s), Queued(s))

\* A consumer waits only at an empty, open stream, and is told of the end only
\* when nothing is left.
Attended(s) ==
  /\ s.waiting => s.queue = <<>> /\ s.hand = Nothing /\ ~ s.closed
  /\ s.hand = End => s.queue = <<>> /\ s.closed

\* The newest event that a stream carries, or what came before it.
Newest(s, before) ==
  IF s.queue # <<>> THEN s.queue[Len(s.queue)]
  ELSE IF Answered(s) THEN s.hand
  ELSE before

Sound(s) == s \in Stream(Event, Capacity) /\ Sorted(s) /\ Attended(s)

\* An event is neither of the two marks a consumer's hand may hold.
LEMMA EventIsNoMark ==
  ASSUME NEW e \in Event
  PROVE  e # Nothing /\ e # End /\ e.seq \in Nat
BY DistinctAssumption DEF Event

\* A queue that is not empty has a last event.
LEMMA NonEmptyLen ==
  ASSUME NEW q \in Seq(Event), q # <<>>
  PROVE  Len(q) \in Nat /\ Len(q) > 0 /\ q[Len(q)] \in Event
OBVIOUS

\* An event newer than all of a queue keeps it sorted.
LEMMA AppendIncreasing ==
  ASSUME NEW q \in Seq(Event), NEW e \in Event, Increasing(q),
         \A i \in DOMAIN q : q[i].seq < e.seq
  PROVE  Increasing(Append(q, e))
BY DEF Increasing

\* Without its oldest event a queue stays sorted, and all that is left is newer.
LEMMA TailIncreasing ==
  ASSUME NEW q \in Seq(Event), q # <<>>, Increasing(q)
  PROVE  /\ Increasing(Tail(q))
         /\ \A i \in DOMAIN Tail(q) : q[1].seq < Tail(q)[i].seq
<1>1. /\ 1 \in DOMAIN q
      /\ \A i \in DOMAIN Tail(q) :
           i \in Int /\ 1 <= i /\ i + 1 \in DOMAIN q /\ Tail(q)[i] = q[i + 1]
  OBVIOUS
<1>2. \A i, j \in DOMAIN Tail(q) : i < j => i + 1 < j + 1
  BY <1>1
<1>3. \A i \in DOMAIN Tail(q) : 1 < i + 1
  BY <1>1
<1> QED
  BY <1>1, <1>2, <1>3 DEF Increasing

\* The fields of a stream.
LEMMA StreamShape ==
  ASSUME NEW s \in Stream(Event, Capacity)
  PROVE  /\ s.queue \in Seq(Event) /\ Len(s.queue) \in Nat /\ Len(s.queue) <= Capacity
         /\ s.closed \in BOOLEAN /\ s.waiting \in BOOLEAN
         /\ s.hand \in Event \cup {Nothing, End}
BY DEF Stream

\* What a stream carries are events.
LEMMA CarriedAreEvents ==
  ASSUME NEW s \in Stream(Event, Capacity)
  PROVE  Carried(s) \subseteq Event
BY StreamShape DEF Carried, Held, Queued

\* A stream as it is built.
LEMMA EmptySound == Sound(EmptyStream) /\ Carried(EmptyStream) = {}
BY DeliveryAssumption, DistinctAssumption
   DEF Sound, EmptyStream, Stream, Sorted, Increasing, Below, Attended, Carried,
       Held, Queued

(***************************************************************************)
(* Pushing a newer event keeps the order, and the event is the newest.     *)
(***************************************************************************)
LEMMA PushSound ==
  ASSUME NEW s, NEW e \in Event, Sound(s), Below(Carried(s), {e})
  PROVE  LET t == Push(Capacity, s, e)
         IN  /\ Sound(t)
             /\ Carried(t) \subseteq Carried(s) \cup {e}
             /\ t.closed = s.closed
             /\ s.hand # Nothing => t.hand = s.hand
             /\ ~ s.closed => \A before : Newest(t, before) = e
<1> DEFINE t == Push(Capacity, s, e)
<1>1. /\ s \in Stream(Event, Capacity) /\ Sorted(s) /\ Attended(s)
      /\ s.queue \in Seq(Event) /\ Len(s.queue) \in Nat /\ Len(s.queue) <= Capacity
      /\ s.closed \in BOOLEAN /\ s.waiting \in BOOLEAN
      /\ s.hand \in Event \cup {Nothing, End}
  BY StreamShape DEF Sound
<1>2. e # Nothing /\ e # End /\ e.seq \in Nat
  BY EventIsNoMark
<1>3. Capacity \in Nat /\ Capacity > 0
  BY DeliveryAssumption
<1>4. CASE s.closed
  <2>1. t = s
    BY <1>4 DEF Push
  <2> QED
    BY <1>4, <2>1
<1>5. CASE ~ s.closed /\ s.waiting
  <2>1. t = [s EXCEPT !.waiting = FALSE, !.hand = e]
    BY <1>5 DEF Push
  <2>2. s.queue = <<>> /\ s.hand = Nothing
    BY <1>1, <1>5 DEF Attended
  <2>3. /\ t \in Stream(Event, Capacity)
        /\ t.queue = <<>> /\ t.hand = e /\ t.waiting = FALSE /\ t.closed = s.closed
    BY <1>1, <2>1, <2>2 DEF Stream
  <2>4. Sorted(t) /\ Attended(t)
    BY <1>2, <2>3 DEF Sorted, Attended, Increasing, Below, Queued, Held
  <2>5. Carried(t) = {e}
    BY <1>2, <2>3 DEF Carried, Held, Queued
  <2>6. \A before : Newest(t, before) = e
    BY <1>2, <2>3 DEF Newest, Answered
  <2> QED
    BY <2>2, <2>3, <2>4, <2>5, <2>6 DEF Sound
<1>6. CASE ~ s.closed /\ ~ s.waiting
  <2> DEFINE kept == IF Len(s.queue) = Capacity THEN Tail(s.queue) ELSE s.queue
  <2>1. t = [s EXCEPT !.queue = Append(kept, e)]
    BY <1>6 DEF Push
  <2>2. /\ kept \in Seq(Event) /\ Len(kept) < Capacity /\ Len(kept) \in Nat
        /\ \A i \in DOMAIN kept : \E j \in DOMAIN s.queue : kept[i] = s.queue[j]
    <3>1. CASE Len(s.queue) = Capacity
      <4>1. s.queue # <<>>
        BY <1>1, <1>3, <3>1
      <4>2. kept = Tail(s.queue)
        BY <3>1
      <4> HIDE DEF kept
      <4> QED
        BY <1>1, <1>3, <3>1, <4>1, <4>2
    <3>2. CASE Len(s.queue) # Capacity
      BY <1>1, <1>3, <3>2
    <3> QED
      BY <3>1, <3>2
  <2>3. Increasing(kept)
    BY <1>1, <1>3, TailIncreasing DEF Sorted
  <2> HIDE DEF kept
  <2> DEFINE longer == Append(kept, e)
  <2>13. /\ longer \in Seq(Event)
         /\ Len(longer) = Len(kept) + 1 /\ longer[Len(kept) + 1] = e
         /\ \A i \in DOMAIN kept : longer[i] = kept[i]
         /\ Len(longer) <= Capacity
    BY <1>3, <2>2
  <2>14. t = [s EXCEPT !.queue = longer] /\ longer = Append(kept, e)
    BY <2>1
  <2> HIDE DEF longer
  <2>4. /\ t.queue = Append(kept, e) /\ t.queue \in Seq(Event)
        /\ Len(t.queue) = Len(kept) + 1 /\ t.queue[Len(kept) + 1] = e
        /\ \A i \in DOMAIN kept : t.queue[i] = kept[i]
        /\ t.hand = s.hand /\ t.waiting = s.waiting /\ t.closed = s.closed
    BY <1>1, <2>13, <2>14 DEF Stream
  <2>5. t \in Stream(Event, Capacity)
    BY <1>1, <2>13, <2>14 DEF Stream
  <2>6. \A i \in DOMAIN kept : kept[i] \in Queued(s)
    BY <2>2 DEF Queued
  <2>7. Queued(t) \subseteq Queued(s) \cup {e}
    BY <2>2, <2>4, <2>6 DEF Queued
  <2>8. Held(t) = Held(s)
    BY <2>4 DEF Held
  <2>9. Increasing(t.queue)
    BY <2>2, <2>3, <2>4, <2>6, AppendIncreasing DEF Below, Carried
  <2>10. Below(Held(t), Queued(t))
    BY <1>1, <2>7, <2>8 DEF Below, Sorted, Carried
  <2>11. Attended(t)
    BY <1>1, <1>6, <2>4 DEF Attended
  <2>12. \A before : Newest(t, before) = e
    BY <2>2, <2>4 DEF Newest
  <2> QED
    BY <2>4, <2>5, <2>7, <2>8, <2>9, <2>10, <2>11, <2>12 DEF Sound, Sorted, Carried
<1> QED
  BY <1>1, <1>4, <1>5, <1>6

(***************************************************************************)
(* Asking moves the oldest event into the consumer's hand.                 *)
(***************************************************************************)
LEMMA AskedSound ==
  ASSUME NEW s, Sound(s), Ready(s)
  PROVE  /\ Sound(Asked(s))
         /\ Carried(Asked(s)) \subseteq Carried(s)
         /\ Asked(s).closed = s.closed
         /\ \A before : Newest(Asked(s), before) = Newest(s, before)
<1> DEFINE t == Asked(s)
<1>1. /\ s \in Stream(Event, Capacity) /\ Sorted(s) /\ Attended(s)
      /\ s.queue \in Seq(Event) /\ Len(s.queue) \in Nat /\ Len(s.queue) <= Capacity
      /\ s.closed \in BOOLEAN /\ s.waiting = FALSE /\ s.hand = Nothing
  BY StreamShape DEF Sound, Ready
<1>2. Nothing # End /\ Nothing \notin Event /\ End \notin Event
  BY DistinctAssumption
<1>3. CASE s.queue # <<>>
  <2>1. t = [s EXCEPT !.hand = Head(s.queue), !.queue = Tail(s.queue)]
    BY <1>3 DEF Asked
  <2>2. /\ Head(s.queue) \in Event /\ Head(s.queue) = s.queue[1]
        /\ Tail(s.queue) \in Seq(Event) /\ Len(Tail(s.queue)) = Len(s.queue) - 1
        /\ \A i \in 1 .. Len(s.queue) - 1 : Tail(s.queue)[i] = s.queue[i + 1]
    BY <1>1, <1>3
  <2> DEFINE rest == Tail(s.queue)
            first == Head(s.queue)
  <2>8. /\ rest \in Seq(Event) /\ Len(rest) <= Capacity /\ first \in Event
         /\ t = [s EXCEPT !.hand = first, !.queue = rest]
    BY <1>1, <2>1, <2>2, DeliveryAssumption
  <2> HIDE DEF rest, first
  <2>9. /\ t.queue = rest /\ t.hand = first /\ t.hand \in Event
         /\ t.waiting = FALSE /\ t.closed = s.closed
         /\ t \in Stream(Event, Capacity)
    BY <1>1, <2>8 DEF Stream
  <2>3. /\ t.queue = Tail(s.queue) /\ t.hand = s.queue[1] /\ t.hand \in Event
        /\ t.waiting = FALSE /\ t.closed = s.closed
        /\ t \in Stream(Event, Capacity)
    BY <2>2, <2>9 DEF rest, first
  <2>4. Increasing(t.queue) /\ \A i \in DOMAIN t.queue : t.hand.seq < t.queue[i].seq
    BY <1>1, <1>3, <2>3, TailIncreasing DEF Sorted
  <2>5. Sorted(t) /\ Attended(t)
    BY <1>2, <2>3, <2>4 DEF Sorted, Attended, Below, Held, Queued
  <2>6. Carried(t) \subseteq Queued(s)
    BY <1>1, <1>3, <2>2, <2>3 DEF Carried, Held, Queued
  <2>7. \A before : Newest(t, before) = Newest(s, before)
    <3>1. CASE Len(s.queue) = 1
      BY <1>1, <1>2, <1>3, <2>2, <2>3, <3>1 DEF Newest, Answered
    <3>2. CASE Len(s.queue) # 1
      <4>4. Len(s.queue) > 1
        <5>1. \A n \in Nat : n > 0 /\ n # 1 => n > 1
          OBVIOUS
        <5>2. Len(s.queue) \in Nat /\ Len(s.queue) > 0
          BY <1>1, <1>3, NonEmptyLen
        <5> QED
          BY <3>2, <5>1, <5>2
      <4>1. /\ Len(t.queue) = Len(s.queue) - 1
            /\ \A i \in 1 .. Len(s.queue) - 1 : t.queue[i] = s.queue[i + 1]
        BY <2>2, <2>3
      <4>2. t.queue # <<>>
        BY <1>1, <4>1, <4>4
      <4>3. t.queue[Len(t.queue)] = s.queue[Len(s.queue)]
        BY <1>1, <4>1, <4>4
      <4> QED
        BY <1>3, <4>2, <4>3 DEF Newest
    <3> QED
      BY <3>1, <3>2
  <2> QED
    BY <2>3, <2>5, <2>6, <2>7 DEF Sound, Carried
<1>4. CASE s.queue = <<>>
  <2>1. /\ t.queue = <<>> /\ t.hand \in {Nothing, End} /\ t.closed = s.closed
        /\ t \in Stream(Event, Capacity) /\ Attended(t)
    BY <1>1, <1>2, <1>4 DEF Asked, Stream, Attended
  <2>2. Sorted(t) /\ Carried(t) = {}
    BY <2>1 DEF Sorted, Increasing, Below, Carried, Held, Queued
  <2>3. \A before : Newest(t, before) = Newest(s, before)
    BY <1>1, <1>4, <2>1 DEF Newest, Answered
  <2> QED
    BY <2>1, <2>2, <2>3 DEF Sound
<1> QED
  BY <1>3, <1>4

\* Taking hands the oldest event over; the newest is then counted from it.
LEMMA TakenSound ==
  ASSUME NEW s, Sound(s), Answered(s)
  PROVE  /\ Sound(Taken(s))
         /\ s.hand \in Event
         /\ Carried(Taken(s)) = Queued(s)
         /\ s.hand \in Carried(s)
         /\ Below({s.hand}, Queued(s))
         /\ Taken(s).closed = s.closed
         /\ \A before : Newest(Taken(s), s.hand) = Newest(s, before)
<1>1. /\ s \in Stream(Event, Capacity) /\ Sorted(s) /\ Attended(s)
      /\ s.queue \in Seq(Event) /\ s.waiting \in BOOLEAN
      /\ s.hand \in Event /\ s.hand \notin {Nothing, End} /\ s.waiting = FALSE
  BY StreamShape DEF Sound, Answered, Attended
<1>2. /\ Taken(s).queue = s.queue /\ Taken(s).hand = Nothing
      /\ Taken(s).closed = s.closed /\ Taken(s).waiting = FALSE
      /\ Taken(s) \in Stream(Event, Capacity)
  BY <1>1 DEF Taken, Stream
<1>3. Held(s) = {s.hand} /\ Held(Taken(s)) = {} /\ Queued(Taken(s)) = Queued(s)
  BY <1>1, <1>2 DEF Held, Queued
<1>4. Sorted(Taken(s)) /\ Attended(Taken(s))
  BY <1>1, <1>2, <1>3, DistinctAssumption DEF Sorted, Below, Attended
<1>5. \A before : Newest(Taken(s), s.hand) = Newest(s, before)
  BY <1>1, <1>2, DistinctAssumption DEF Newest, Answered
<1> QED
  BY <1>1, <1>2, <1>3, <1>4, <1>5 DEF Sound, Sorted, Carried

\* Closing loses nothing that the stream carries.
LEMMA ClosedSound ==
  ASSUME NEW s, Sound(s)
  PROVE  /\ Sound(Closed(s))
         /\ Carried(Closed(s)) = Carried(s)
         /\ Closed(s).closed = TRUE
         /\ s.hand = End => Closed(s).hand = End
         /\ \A before : Newest(Closed(s), before) = Newest(s, before)
<1>1. /\ s \in Stream(Event, Capacity) /\ Sorted(s) /\ Attended(s)
      /\ s.queue \in Seq(Event) /\ s.waiting \in BOOLEAN
  BY StreamShape DEF Sound
<1>2. CASE s.waiting
  <2>1. s.queue = <<>> /\ s.hand = Nothing
    BY <1>1, <1>2 DEF Attended
  <2>2. /\ Closed(s).queue = <<>> /\ Closed(s).hand = End /\ Closed(s).closed = TRUE
        /\ Closed(s).waiting = FALSE /\ Closed(s) \in Stream(Event, Capacity)
    BY <1>1, <1>2, <2>1 DEF Closed, Stream
  <2>3. Sorted(Closed(s)) /\ Attended(Closed(s))
    BY <2>2 DEF Sorted, Increasing, Below, Attended, Held, Queued
  <2>4. Carried(Closed(s)) = {} /\ Carried(s) = {}
    BY <2>1, <2>2 DEF Carried, Held, Queued
  <2>5. \A before : Newest(Closed(s), before) = Newest(s, before)
    BY <2>1, <2>2 DEF Newest, Answered
  <2> QED
    BY <2>1, <2>2, <2>3, <2>4, <2>5 DEF Sound
<1>3. CASE ~ s.waiting
  <2>1. /\ Closed(s).queue = s.queue /\ Closed(s).hand = s.hand /\ Closed(s).closed = TRUE
        /\ Closed(s).waiting = s.waiting /\ Closed(s) \in Stream(Event, Capacity)
    BY <1>1, <1>3 DEF Closed, Stream
  <2>2. Sorted(Closed(s)) /\ Attended(Closed(s)) /\ Carried(Closed(s)) = Carried(s)
    BY <1>1, <1>3, <2>1 DEF Sorted, Increasing, Below, Attended, Held, Queued, Carried
  <2>3. \A before : Newest(Closed(s), before) = Newest(s, before)
    BY <2>1 DEF Newest, Answered
  <2> QED
    BY <2>1, <2>2, <2>3 DEF Sound
<1> QED
  BY <1>1, <1>2, <1>3

-----------------------------------------------------------------------------
(***************************************************************************)
(* The inductive invariant.                                                *)
(***************************************************************************)

\* The number of the oldest delivery that is due, or of the next event.
Bound == IF main = "recovering" THEN next ELSE next - Len(chain)

\* What is due follows from where the stage's continuation is.
Placed ==
  /\ main \in {"start", "undelivered", "delivered", "closed"} => chain = <<>>
  /\ main \in {"starting", "ending", "recovering"} =>
       /\ Len(chain) = 1
       /\ chain[1].by = Runtime /\ chain[1].event.stage = stage
       /\ main = "starting" => chain[1].event.kind = "progress"
       /\ main = "ending" => chain[1].event.kind = "terminal"
       /\ main = "recovering" => chain[1].event.kind = "recovery"
  /\ main = "running" =>
       \A i \in DOMAIN chain : chain[i].by # Runtime /\ chain[i].event.kind = "progress"

Numbered ==
  /\ base <= Bound
  /\ main # "recovering" => \A i \in DOMAIN chain : chain[i].event.seq = Bound + (i - 1)

Flagged ==
  /\ writing => chain # <<>> /\ main # "recovering" /\ ~ fatal /\ writerOn
  /\ fatal => mode = "fail-run" /\ ~ writerOn
  /\ mode = "fail-run" => fatal \/ writerOn
  /\ main \in {"undelivered", "recovering"} => fatal
  /\ stage > Stages => main = "closed" /\ progress.hand = End
  /\ progress.closed <=> main = "closed"
  /\ output.closed <=> stage > Stages

\* Until the writer fails for good, everything before Bound was streamed.
Recorded ==
  /\ \E k \in Nat : written = base .. base + k - 1
  /\ \E k \in Nat : published = base .. base + k - 1
  /\ ~ fatal => published = base .. Bound - 1
  /\ writerOn => written = published
  /\ mode = "fail-run" => written = published

\* From the chain over both streams to the host, events get older.
Received == {got} \ {Nothing}

Flowing ==
  /\ Sound(progress) /\ Sound(output)
  /\ Below(Received, Carried(output))
  /\ Below(Received \cup Carried(output), Carried(progress))
  /\ \A x \in Received \cup Carried(output) \cup Carried(progress) : x.seq < Bound

\* A stage that settled has its last word on the way, with nothing behind it.
LastWord(x) ==
  /\ x # Nothing
  /\ x.kind \in {"terminal", "recovery"}
  /\ x.stage = IF stage > Stages THEN Stages ELSE stage

Reporting ==
  main \in {"delivered", "closed"} /\ ~ failed =>
    LastWord(Newest(progress, Newest(output, got)))

IInv == TypeOK /\ Placed /\ Numbered /\ Flagged /\ Recorded /\ Flowing /\ Reporting

-----------------------------------------------------------------------------
(***************************************************************************)
(* Facts about a state.                                                    *)
(***************************************************************************)
Delivery == [event : Event, by : Emitter]

\* The types the bound is computed from.
LEMMA ChainFacts ==
  ASSUME TypeOK
  PROVE  /\ Len(chain) \in Nat /\ next \in Nat /\ base \in Nat
         /\ Bound \in Int /\ (chain = <<>> => Bound = next)
         /\ stage \in Int /\ Stages \in Nat
BY DeliveryAssumption DEF TypeOK, Bound

\* The oldest delivery: whose it is, and its number.
LEMMA DueFacts ==
  ASSUME TypeOK, Placed, Numbered, chain # <<>>
  PROVE  /\ Due = chain[1] /\ Due.event \in Event /\ Due.by \in Emitter
         /\ Tail(chain) \in Seq(Delivery) /\ Len(Tail(chain)) = Len(chain) - 1
         /\ \A i \in DOMAIN Tail(chain) :
              i \in Nat \ {0} /\ i + 1 \in DOMAIN chain /\ Tail(chain)[i] = chain[i + 1]
         /\ main \in {"starting", "running", "ending", "recovering"}
         /\ main # "recovering" => Due.event.seq = Bound /\ Due.event.kind # "recovery"
         /\ main = "recovering" <=> Due.event.kind = "recovery"
         /\ main # "running" => Tail(chain) = <<>> /\ Due.by = Runtime
         /\ main = "running" => Due.by # Runtime
<1>1. chain \in Seq(Delivery) /\ Len(chain) \in Nat /\ Len(chain) > 0 /\ 1 \in DOMAIN chain
  BY DEF TypeOK, Delivery
<1>2. Due = chain[1] /\ Due \in Delivery
  BY <1>1 DEF Due
<1>3. /\ Tail(chain) \in Seq(Delivery) /\ Len(Tail(chain)) = Len(chain) - 1
      /\ \A i \in DOMAIN Tail(chain) :
           i \in Nat \ {0} /\ i + 1 \in DOMAIN chain /\ Tail(chain)[i] = chain[i + 1]
  BY <1>1
<1>4. main \in {"starting", "running", "ending", "recovering"}
  BY DEF TypeOK, Placed
<1>5. main = "recovering" <=> Due.event.kind = "recovery"
  BY <1>1, <1>2, <1>4 DEF Placed
<1>6. main # "recovering" => Due.event.seq = Bound
  BY <1>1, <1>2, ChainFacts DEF Numbered
<1>7. main # "running" => Tail(chain) = <<>> /\ Due.by = Runtime
  BY <1>1, <1>2, <1>3, <1>4 DEF Placed
<1>8. main = "running" => Due.by # Runtime
  BY <1>1, <1>2 DEF Placed
<1> QED
  BY <1>2, <1>3, <1>4, <1>5, <1>6, <1>7, <1>8 DEF Delivery

(***************************************************************************)
(* What is carried stays in order when nothing on the way moves.           *)
(***************************************************************************)
LEMMA FlowKept ==
  ASSUME TypeOK, Flowing, UNCHANGED <<progress, output, got>>,
         Bound' \in Int, Bound <= Bound'
  PROVE  Flowing'
<1>1. \A x \in Received \cup Carried(output) \cup Carried(progress) : x.seq < Bound'
  <2>1. Carried(output) \subseteq Event /\ Carried(progress) \subseteq Event
    BY CarriedAreEvents DEF Flowing, Sound
  <2>2. Received \subseteq Event
    BY DEF Received, TypeOK
  <2>3. \A x \in Event : x.seq \in Int
    BY EventIsNoMark
  <2> QED
    BY <2>1, <2>2, <2>3, ChainFacts DEF Flowing
<1>2. /\ Received' = Received
      /\ Carried(output)' = Carried(output) /\ Carried(progress)' = Carried(progress)
      /\ Sound(output)' /\ Sound(progress)'
  BY DEF Received, Carried, Held, Queued, Flowing, Sound, Sorted, Attended
<1> QED
  BY <1>1, <1>2 DEF Flowing, Below

(***************************************************************************)
(* A younger event on the stage's stream.                                  *)
(***************************************************************************)
LEMMA FlowPushed ==
  ASSUME TypeOK, Flowing, NEW e \in Event, e.seq = Bound,
         progress' = Push(Capacity, progress, e), UNCHANGED <<output, got>>,
         Bound' = Bound + 1
  PROVE  Flowing'
<1>1. Bound \in Int /\ e.seq < Bound'
  BY ChainFacts
<1>2. Below(Received \cup Carried(output) \cup Carried(progress), {e})
  BY DEF Flowing, Below
<1>3. Sound(progress') /\ Carried(progress') \subseteq Carried(progress) \cup {e}
  BY <1>2, PushSound DEF Flowing, Below
<1>4. \A x \in Received \cup Carried(output) \cup Carried(progress) : x.seq < Bound'
  <2>1. Carried(output) \subseteq Event /\ Carried(progress) \subseteq Event
    BY CarriedAreEvents DEF Flowing, Sound
  <2>2. Received \subseteq Event
    BY DEF Received, TypeOK
  <2>3. \A x \in Event : x.seq \in Int
    BY EventIsNoMark
  <2> QED
    BY <1>1, <2>1, <2>2, <2>3 DEF Flowing
<1>5. Below(Received \cup Carried(output), Carried(progress'))
  BY <1>2, <1>3 DEF Flowing, Below
<1>6. /\ Received' = Received /\ Carried(output') = Carried(output) /\ Sound(output')
      /\ Below(Received, Carried(output))
  BY DEF Received, Flowing
<1>7. \A x \in Received \cup Carried(output) \cup Carried(progress') : x.seq < Bound'
  BY <1>1, <1>3, <1>4
<1>8. Received' = Received /\ Below(Received', Carried(output'))
  BY <1>6
<1>9. Below(Received' \cup Carried(output'), Carried(progress'))
  BY <1>5, <1>6
<1>10. \A x \in Received' \cup Carried(output') \cup Carried(progress') : x.seq < Bound'
  BY <1>6, <1>7
<1> QED
  BY <1>3, <1>6, <1>8, <1>9, <1>10 DEF Flowing

-----------------------------------------------------------------------------
(***************************************************************************)
(* The invariant holds at first, and every step keeps it.                  *)
(***************************************************************************)
LEMMA InitEstablishes == Init => IInv
<1> SUFFICES ASSUME Init PROVE IInv
  OBVIOUS
<1>1. TypeOK
  <2>1. chain \in Seq([event : Event, by : Emitter])
    BY DEF Init
  <2>2. left \in [Worker -> 0 .. MaxEmits]
    BY DeliveryAssumption DEF Init
  <2>3. EmptyStream \in Stream(Event, Capacity)
    BY EmptySound DEF Sound
  <2>4. stage \in 1 .. Stages + 1
    BY DeliveryAssumption DEF Init
  <2> QED
    BY <2>1, <2>2, <2>3, <2>4 DEF Init, TypeOK
<1>2. Bound = 0
  <2>1. Len(chain) = 0 /\ next = 0 /\ main = "start"
    BY DEF Init
  <2> QED
    BY <2>1 DEF Bound
<1>3. Placed /\ Numbered /\ Reporting
  <2>1. \A i \in DOMAIN chain : FALSE
    BY DEF Init
  <2> QED
    BY <1>2, <2>1 DEF Init, Placed, Numbered, Reporting
<1>4. Flagged
  <2>1. ~ stage > Stages
    BY DeliveryAssumption DEF Init
  <2> QED
    BY <2>1 DEF Init, Flagged, EmptyStream
<1>5. Recorded
  <2>1. {} = 0 .. 0 + 0 - 1 /\ {} = 0 .. 0 - 1
    OBVIOUS
  <2> QED
    BY <1>2, <2>1 DEF Init, Recorded
<1>6. Flowing
  <2>1. Received = {}
    BY DEF Init, Received
  <2> QED
    BY <2>1, EmptySound DEF Init, Flowing, Below
<1> QED
  BY <1>1, <1>3, <1>4, <1>5, <1>6 DEF IInv

\* A stuttering step.
LEMMA StutterKeeps ==
  ASSUME IInv, UNCHANGED vars
  PROVE  IInv'
<1>1. TypeOK' /\ Placed' /\ Bound' = Bound
  BY DEF IInv, vars, emitter, history, TypeOK, Placed, Bound
<1>2. Numbered' /\ Flagged' /\ Recorded'
  BY <1>1 DEF IInv, vars, emitter, history, Numbered, Flagged, Recorded
<1>3. Flowing'
  BY <1>1, ChainFacts, FlowKept DEF IInv, vars
<1>4. Reporting'
  BY DEF IInv, vars, emitter, Reporting, LastWord
<1> QED
  BY <1>1, <1>2, <1>3, <1>4 DEF IInv

(***************************************************************************)
(* Emitting: the new event comes after all that are due.                   *)
(***************************************************************************)
LEMMA EmitFacts ==
  ASSUME IInv, NEW e \in Emitter, NEW kind \in Kind, Emit(e, kind),
         main # "closed", main # "recovering", main' # "recovering",
         UNCHANGED <<mode, writing, writerOn, fatal, stage, failed, progress,
                     output, got, history>>
  PROVE  /\ chain' \in Seq(Delivery) /\ next' \in Nat
         /\ Len(chain') = Len(chain) + 1 /\ chain' # <<>>
         /\ chain'[Len(chain) + 1] =
              [event |-> [seq |-> next, stage |-> stage, kind |-> kind], by |-> e]
         /\ \A i \in DOMAIN chain : chain'[i] = chain[i]
         /\ Numbered' /\ Recorded' /\ Flowing'
<1>1. TypeOK /\ Placed /\ Numbered /\ Flagged /\ Recorded /\ Flowing
  BY DEF IInv
<1>2. stage \in 1 .. Stages
  BY <1>1, DeliveryAssumption DEF Flagged, TypeOK
<1> DEFINE d == [event |-> [seq |-> next, stage |-> stage, kind |-> kind], by |-> e]
<1>3. d \in Delivery
  BY <1>1, <1>2 DEF Delivery, Event, TypeOK
<1>4. chain' = Append(chain, d) /\ next' = next + 1
  BY DEF Emit, NewEvent
<1>5. chain \in Seq(Delivery) /\ Len(chain) \in Nat /\ next \in Nat
  BY <1>1 DEF TypeOK, Delivery
<1>6. d.event.seq = next
  OBVIOUS
<1> HIDE DEF d
<1>7. /\ chain' \in Seq(Delivery) /\ next' \in Nat
      /\ Len(chain') = Len(chain) + 1
      /\ chain'[Len(chain) + 1] = d
      /\ \A i \in DOMAIN chain : chain'[i] = chain[i]
  BY <1>3, <1>4, <1>5
<1>8. chain' # <<>>
  BY <1>5, <1>7
<1>9. Bound' = Bound /\ Bound = next - Len(chain) /\ Bound \in Int
  BY <1>4, <1>5, <1>7 DEF Bound
<1>10. Numbered'
  <2>1. \A i \in DOMAIN chain : chain'[i].event.seq = Bound + (i - 1)
    BY <1>1, <1>7 DEF Numbered
  <2>2. chain'[Len(chain) + 1].event.seq = Bound + ((Len(chain) + 1) - 1)
    BY <1>5, <1>6, <1>7, <1>9
  <2>3. \A i \in DOMAIN chain' : i \in DOMAIN chain \/ i = Len(chain) + 1
    BY <1>5, <1>7
  <2>4. \A i \in DOMAIN chain' : chain'[i].event.seq = Bound' + (i - 1)
    BY <1>9, <2>1, <2>2, <2>3
  <2> QED
    BY <1>1, <1>9, <2>4 DEF Numbered, history
<1>11. Recorded'
  BY <1>1, <1>9 DEF Recorded, history
<1>12. Flowing'
  BY <1>1, <1>9, FlowKept
<1> QED
  BY <1>7, <1>8, <1>10, <1>11, <1>12 DEF d

\* One lemma per action: it preserves the invariant.
LEMMA EmitStartedKeeps ==
  ASSUME IInv, EmitStarted
  PROVE  IInv'
<1>1. /\ Emit(Runtime, "progress") /\ main = "start" /\ main' = "starting"
      /\ chain = <<>> /\ Runtime \in Emitter /\ "progress" \in Kind
      /\ UNCHANGED <<mode, left, writing, writerOn, fatal, stage, failed, progress,
                     output, got, history>>
  BY DEF EmitStarted, IInv, Placed, Emitter, Kind
<1>2. /\ chain' \in Seq(Delivery) /\ next' \in Nat /\ Len(chain') = 1
      /\ chain' # <<>>
      /\ chain'[1] =
           [event |-> [seq |-> next, stage |-> stage, kind |-> "progress"], by |-> Runtime]
      /\ Numbered' /\ Recorded' /\ Flowing'
  <2>1. Len(chain) = 0
    BY <1>1
  <2> QED
    BY <1>1, <2>1, EmitFacts
<1>3. TypeOK'
  BY <1>1, <1>2 DEF IInv, TypeOK, Delivery, history
<1>4. Placed'
  BY <1>1, <1>2 DEF Placed
<1>5. Flagged'
  BY <1>1, <1>2 DEF IInv, Flagged
<1>6. Reporting'
  BY <1>1 DEF Reporting
<1> QED
  BY <1>2, <1>3, <1>4, <1>5, <1>6 DEF IInv

LEMMA EmitTerminalKeeps ==
  ASSUME IInv, EmitTerminal
  PROVE  IInv'
<1>1. /\ Emit(Runtime, "terminal") /\ main = "running" /\ main' = "ending"
      /\ chain = <<>> /\ Runtime \in Emitter /\ "terminal" \in Kind
      /\ UNCHANGED <<mode, left, writing, writerOn, fatal, stage, failed, progress,
                     output, got, history>>
  BY DEF EmitTerminal, Emitter, Kind
<1>2. /\ chain' \in Seq(Delivery) /\ next' \in Nat /\ Len(chain') = 1
      /\ chain' # <<>>
      /\ chain'[1] =
           [event |-> [seq |-> next, stage |-> stage, kind |-> "terminal"], by |-> Runtime]
      /\ Numbered' /\ Recorded' /\ Flowing'
  <2>1. Len(chain) = 0
    BY <1>1
  <2> QED
    BY <1>1, <2>1, EmitFacts
<1>3. TypeOK'
  BY <1>1, <1>2 DEF IInv, TypeOK, Delivery, history
<1>4. Placed'
  BY <1>1, <1>2 DEF Placed
<1>5. Flagged'
  BY <1>1, <1>2 DEF IInv, Flagged
<1>6. Reporting'
  BY <1>1 DEF Reporting
<1> QED
  BY <1>2, <1>3, <1>4, <1>5, <1>6 DEF IInv

LEMMA EmitProgressKeeps ==
  ASSUME IInv, NEW w \in Worker, EmitProgress(w)
  PROVE  IInv'
<1>1. /\ Emit(w, "progress") /\ main = "running" /\ main' = "running"
      /\ w \in Emitter /\ w # Runtime /\ "progress" \in Kind
      /\ UNCHANGED <<mode, writing, writerOn, fatal, stage, failed, progress,
                     output, got, history>>
  BY DistinctAssumption DEF EmitProgress, Emitter, Kind
<1>2. /\ chain' \in Seq(Delivery) /\ next' \in Nat
      /\ Len(chain') = Len(chain) + 1 /\ chain' # <<>>
      /\ chain'[Len(chain) + 1] =
           [event |-> [seq |-> next, stage |-> stage, kind |-> "progress"], by |-> w]
      /\ \A i \in DOMAIN chain : chain'[i] = chain[i]
      /\ Numbered' /\ Recorded' /\ Flowing'
  BY <1>1, EmitFacts
<1>3. left' \in [Worker -> 0 .. MaxEmits]
  BY DeliveryAssumption DEF IInv, TypeOK, EmitProgress
<1>4. TypeOK'
  BY <1>1, <1>2, <1>3 DEF IInv, TypeOK, Delivery, history
<1>5. Placed'
  <2>1. \A i \in DOMAIN chain' : i \in DOMAIN chain \/ i = Len(chain) + 1
    BY <1>2 DEF IInv, TypeOK
  <2>2. \A i \in DOMAIN chain' :
          chain'[i].by # Runtime /\ chain'[i].event.kind = "progress"
    BY <1>1, <1>2, <2>1 DEF IInv, Placed
  <2> QED
    BY <1>1, <2>2 DEF Placed
<1>6. Flagged'
  BY <1>1, <1>2 DEF IInv, Flagged
<1>7. Reporting'
  BY <1>1 DEF Reporting
<1> QED
  BY <1>2, <1>4, <1>5, <1>6, <1>7 DEF IInv

LEMMA ThrowKeeps ==
  ASSUME IInv, Throw
  PROVE  IInv'
<1>1. Bound' = Bound /\ Bound \in Int
  BY ChainFacts DEF Throw, Bound, IInv
<1>2. TypeOK' /\ Placed' /\ Reporting'
  BY DEF Throw, IInv, TypeOK, Placed, Reporting, history
<1>3. Numbered' /\ Recorded'
  BY <1>1 DEF Throw, IInv, Numbered, Recorded, history
<1>4. Flagged'
  BY DEF Throw, IInv, Flagged
<1>5. Flowing'
  BY <1>1, FlowKept DEF Throw, IInv
<1> QED
  BY <1>2, <1>3, <1>4, <1>5 DEF IInv

LEMMA EmitRecoveryKeeps ==
  ASSUME IInv, EmitRecovery
  PROVE  IInv'
<1>1. /\ main = "undelivered" /\ main' = "recovering" /\ chain = <<>>
      /\ chain' = Append(chain, [event |-> [seq |-> next, stage |-> stage,
                                             kind |-> "recovery"], by |-> Runtime])
      /\ UNCHANGED <<mode, next, left, writing, writerOn, fatal, stage, failed,
                     progress, output, got, history>>
  BY DEF EmitRecovery, IInv, Placed, NewEvent
<1>2. stage \in 1 .. Stages
  BY <1>1, DeliveryAssumption DEF IInv, Flagged, TypeOK
<1>3. [event |-> [seq |-> next, stage |-> stage, kind |-> "recovery"],
       by |-> Runtime] \in Delivery
  BY <1>2 DEF IInv, TypeOK, Delivery, Event, Kind, Emitter
<1>4. /\ chain' \in Seq(Delivery) /\ Len(chain') = 1
      /\ chain'[1] = [event |-> [seq |-> next, stage |-> stage, kind |-> "recovery"],
                      by |-> Runtime]
  BY <1>1, <1>3
<1>5. Bound' = Bound /\ Bound \in Int
  BY <1>1, ChainFacts DEF Bound, IInv
<1>6. TypeOK'
  BY <1>1, <1>4 DEF IInv, TypeOK, Delivery, history
<1>7. Placed' /\ Reporting'
  BY <1>1, <1>4 DEF Placed, Reporting
<1>8. Numbered' /\ Recorded'
  BY <1>1, <1>5 DEF IInv, Numbered, Recorded, history
<1>9. Flagged'
  BY <1>1 DEF IInv, Flagged
<1>10. Flowing'
  BY <1>1, <1>5, FlowKept DEF IInv
<1> QED
  BY <1>6, <1>7, <1>8, <1>9, <1>10 DEF IInv

(***************************************************************************)
(* Delivering the oldest: the bound moves past it, and the runtime's own   *)
(* delivery resumes the runtime.                                           *)
(***************************************************************************)
LEMMA DeliveredFacts ==
  ASSUME IInv, OrdinaryDue, NEW d \in BOOLEAN, Delivered(d),
         UNCHANGED <<next, stage, base>>
  PROVE  /\ chain' \in Seq(Delivery) /\ Placed' /\ Numbered'
         /\ Bound \in Int /\ Bound' = Bound + 1
         /\ Due.event \in Event /\ Due.event.seq = Bound
         /\ stage \in 1 .. Stages /\ main # "closed" /\ main # "recovering"
         /\ main' \in {"running", "undelivered", "delivered"}
         /\ main' = "undelivered" => ~ d
         /\ main' = "delivered" =>
              d /\ Due.event.kind = "terminal" /\ Due.event.stage = stage
<1>1. TypeOK /\ Placed /\ Numbered /\ Flagged /\ chain # <<>> /\ Due.event.kind # "recovery"
  BY DEF IInv, OrdinaryDue
<1>2. /\ Due = chain[1] /\ Due.event \in Event
      /\ Tail(chain) \in Seq(Delivery) /\ Len(Tail(chain)) = Len(chain) - 1
      /\ \A i \in DOMAIN Tail(chain) :
           i \in Nat \ {0} /\ i + 1 \in DOMAIN chain /\ Tail(chain)[i] = chain[i + 1]
      /\ main \in {"starting", "running", "ending"}
      /\ Due.event.seq = Bound
      /\ main # "running" => Tail(chain) = <<>> /\ Due.by = Runtime
      /\ main = "running" => Due.by # Runtime
  BY <1>1, DueFacts
<1>3. chain' = Tail(chain) /\ main' = Resumed(d)
  BY DEF Delivered
<1>4. /\ main = "starting" => main' = "running"
      /\ main = "running" => main' = "running"
      /\ main = "ending" => main' = IF d THEN "delivered" ELSE "undelivered"
  BY <1>2, <1>3 DEF Resumed
<1>5. /\ main' \in {"running", "undelivered", "delivered"}
      /\ main' = "undelivered" => ~ d
      /\ main' = "delivered" => d
      /\ main' \in {"undelivered", "delivered"} => main = "ending"
  BY <1>2, <1>4
<1>6. stage \in 1 .. Stages
  BY <1>1, <1>2, DeliveryAssumption DEF Flagged, TypeOK
<1>7. main = "ending" => Due.event.kind = "terminal" /\ Due.event.stage = stage
  BY <1>1, <1>2 DEF Placed
<1>8. Placed'
  <2>1. main' \in {"undelivered", "delivered"} => chain' = <<>>
    BY <1>2, <1>3, <1>5
  <2>2. \A i \in DOMAIN chain' : chain'[i].by # Runtime /\ chain'[i].event.kind = "progress"
    <3>1. CASE main = "running"
      BY <1>1, <1>2, <1>3, <3>1 DEF Placed
    <3>2. CASE main # "running"
      <4>1. chain' = <<>>
        BY <1>2, <1>3, <3>2
      <4>2. \A i \in DOMAIN chain' : FALSE
        BY <4>1
      <4> QED
        BY <4>2
    <3> QED
      BY <3>1, <3>2
  <2> QED
    BY <1>5, <2>1, <2>2 DEF Placed
<1>9. Bound \in Int /\ Bound = next - Len(chain) /\ Bound' = Bound + 1
  <2>1. Len(chain) \in Nat /\ next \in Nat
    BY <1>1, ChainFacts
  <2>2. Bound = next - Len(chain) /\ Bound' = next - Len(chain')
    BY <1>2, <1>5 DEF Bound
  <2> QED
    BY <1>2, <1>3, <2>1, <2>2
<1>10. Numbered'
  <2>1. base <= Bound'
    BY <1>1, <1>9, ChainFacts DEF Numbered
  <2>2. \A i \in DOMAIN chain' : chain'[i].event.seq = Bound' + (i - 1)
    <3> SUFFICES ASSUME NEW i \in DOMAIN chain'
                 PROVE  chain'[i].event.seq = Bound' + (i - 1)
      OBVIOUS
    <3>1. i \in Nat /\ i + 1 \in DOMAIN chain /\ chain'[i] = chain[i + 1]
      BY <1>2, <1>3
    <3>2. chain[i + 1].event.seq = Bound + ((i + 1) - 1)
      BY <1>1, <1>2, <3>1 DEF Numbered
    <3> QED
      BY <1>9, <3>1, <3>2
  <2> QED
    BY <2>1, <2>2 DEF Numbered
<1> QED
  BY <1>2, <1>3, <1>5, <1>6, <1>7, <1>8, <1>9, <1>10

\* Streaming an ordinary event: the stream's history is everything before the bound.
LEMMA PublishFacts ==
  ASSUME IInv, OrdinaryDue, ~ fatal, Publish,
         UNCHANGED <<next, stage, failed, output, got, base>>
  PROVE  /\ progress' \in Stream(Event, Capacity) /\ Flowing' /\ Reporting'
         /\ ~ progress'.closed
         /\ published = base .. Bound - 1 /\ published' = base .. Bound' - 1
         /\ published' = published \cup {Due.event.seq}
         /\ \E k \in Nat : published' = base' .. base' + k - 1
<1>1. TypeOK /\ Numbered /\ Flagged /\ Recorded /\ Flowing /\ base \in Nat
  BY DEF IInv, TypeOK
<1>2. /\ progress' = Push(Capacity, progress, Due.event)
      /\ published' = published \cup {Due.event.seq}
      /\ Delivered(TRUE)
  BY DEF Publish
<1>3. /\ Bound \in Int /\ Bound' = Bound + 1
      /\ Due.event \in Event /\ Due.event.seq = Bound
      /\ stage \in 1 .. Stages /\ main # "closed"
      /\ main' \in {"running", "undelivered", "delivered"}
      /\ main' = "delivered" =>
           Due.event.kind = "terminal" /\ Due.event.stage = stage
  BY <1>2, DeliveredFacts
<1>4. Flowing'
  BY <1>1, <1>2, <1>3, FlowPushed
<1>5. Below(Carried(progress), {Due.event})
  BY <1>1, <1>3 DEF Flowing, Below
<1>6. ~ progress.closed
  BY <1>1, <1>3 DEF Flagged
<1>7. /\ progress'.closed = progress.closed
      /\ \A before : Newest(progress', before) = Due.event
      /\ progress' \in Stream(Event, Capacity)
  BY <1>1, <1>2, <1>3, <1>5, <1>6, PushSound DEF Flowing, Sound
<1>8. Reporting'
  <2> SUFFICES ASSUME main' = "delivered"
               PROVE  LastWord(Newest(progress, Newest(output, got)))'
    BY <1>3 DEF Reporting
  <2>1. Due.event # Nothing
    BY <1>3, EventIsNoMark
  <2>2. Newest(progress, Newest(output, got))' = Due.event
    BY <1>7
  <2>3. stage \in Int /\ ~ stage > Stages /\ stage' = stage
    BY <1>3, DeliveryAssumption
  <2> QED
    BY <1>3, <2>1, <2>2, <2>3 DEF LastWord
<1>9. published = base .. Bound - 1 /\ base <= Bound
  BY <1>1 DEF Recorded, Numbered
<1>10. published' = base .. Bound' - 1
  BY <1>1, <1>2, <1>3, <1>9
<1>11. \E k \in Nat : published' = base' .. base' + k - 1
  <2>1. Bound' - base \in Nat /\ base + (Bound' - base) - 1 = Bound' - 1
    BY <1>1, <1>3, <1>9
  <2> QED
    BY <1>10, <2>1
<1> QED
  BY <1>2, <1>4, <1>6, <1>7, <1>8, <1>9, <1>10, <1>11

LEMMA DropKeeps ==
  ASSUME IInv, Drop
  PROVE  IInv'
<1>1. /\ OrdinaryDue /\ fatal /\ Delivered(FALSE) /\ writing' = FALSE
      /\ UNCHANGED <<mode, next, left, writerOn, fatal, stage, failed, progress,
                     output, got, history>>
  BY DEF Drop, Delivered
<1>2. /\ chain' \in Seq(Delivery) /\ Placed' /\ Numbered'
      /\ Bound \in Int /\ Bound' = Bound + 1
      /\ stage \in 1 .. Stages /\ main # "closed"
      /\ main' \in {"running", "undelivered", "delivered"}
      /\ main' # "delivered"
  BY <1>1, DeliveredFacts DEF history
<1>3. TypeOK'
  BY <1>1, <1>2 DEF IInv, TypeOK, Delivery, history
<1>4. Flagged'
  BY <1>1, <1>2, DeliveryAssumption DEF IInv, Flagged
<1>5. Recorded'
  BY <1>1 DEF IInv, Recorded, history
<1>6. Flowing'
  BY <1>1, <1>2, FlowKept DEF IInv
<1>7. Reporting'
  BY <1>2 DEF Reporting
<1> QED
  BY <1>2, <1>3, <1>4, <1>5, <1>6, <1>7 DEF IInv

LEMMA PublishOnlyKeeps ==
  ASSUME IInv, PublishOnly
  PROVE  IInv'
<1>1. /\ OrdinaryDue /\ ~ fatal /\ ~ writerOn /\ Publish /\ Delivered(TRUE)
      /\ writing' = FALSE
      /\ UNCHANGED <<mode, next, left, writerOn, fatal, stage, failed, output, got,
                     base, written>>
  BY DEF PublishOnly, Publish, Delivered
<1>2. /\ chain' \in Seq(Delivery) /\ Placed' /\ Numbered'
      /\ stage \in 1 .. Stages /\ main # "closed" /\ Due.event.seq \in Nat
      /\ main' \in {"running", "undelivered", "delivered"}
      /\ main' # "undelivered"
  BY <1>1, DeliveredFacts, EventIsNoMark
<1>3. /\ progress' \in Stream(Event, Capacity) /\ Flowing' /\ Reporting'
      /\ ~ progress'.closed /\ published' = base .. Bound' - 1
      /\ published' = published \cup {Due.event.seq}
      /\ \E k \in Nat : published' = base' .. base' + k - 1
  BY <1>1, PublishFacts
<1>4. TypeOK'
  BY <1>1, <1>2, <1>3 DEF IInv, TypeOK, Delivery
<1>5. Flagged'
  BY <1>1, <1>2, <1>3, DeliveryAssumption DEF IInv, Flagged
<1>6. Recorded'
  BY <1>1, <1>3 DEF IInv, Recorded, Flagged
<1> QED
  BY <1>2, <1>3, <1>4, <1>5, <1>6 DEF IInv

LEMMA StartWriteKeeps ==
  ASSUME IInv, StartWrite
  PROVE  IInv'
<1>1. /\ OrdinaryDue /\ ~ fatal /\ writerOn /\ writing' = TRUE
      /\ UNCHANGED <<mode, next, main, left, chain, writerOn, fatal, stage, failed,
                     progress, output, got, history>>
  BY DEF StartWrite
<1>2. Bound' = Bound /\ Bound \in Int
  BY <1>1, ChainFacts DEF Bound, IInv
<1>3. TypeOK' /\ Placed' /\ Reporting'
  BY <1>1 DEF IInv, TypeOK, Placed, Reporting, LastWord, history
<1>4. Numbered' /\ Recorded'
  BY <1>1, <1>2 DEF IInv, Numbered, Recorded, history
<1>5. main # "recovering" /\ chain # <<>>
  BY <1>1 DEF IInv, OrdinaryDue, Flagged
<1>6. Flagged'
  BY <1>1, <1>5 DEF IInv, Flagged
<1>7. Flowing'
  BY <1>1, <1>2, FlowKept DEF IInv
<1> QED
  BY <1>3, <1>4, <1>6, <1>7 DEF IInv

(***************************************************************************)
(* The writer is asked for an ordinary event only.                         *)
(***************************************************************************)
LEMMA WritingFacts ==
  ASSUME IInv, writing
  PROVE  OrdinaryDue /\ ~ fatal /\ writerOn /\ written = published
BY DueFacts DEF IInv, Flagged, Recorded, OrdinaryDue

LEMMA WriteSucceedsKeeps ==
  ASSUME IInv, WriteSucceeds
  PROVE  IInv'
<1>1. /\ Publish /\ Delivered(TRUE) /\ writing' = FALSE
      /\ written' = written \cup {Due.event.seq}
      /\ UNCHANGED <<mode, next, left, writerOn, fatal, stage, failed, output, got,
                     base>>
  BY DEF WriteSucceeds, Publish, Delivered
<1>2. OrdinaryDue /\ ~ fatal /\ writerOn /\ written = published
  BY WritingFacts DEF WriteSucceeds
<1>3. /\ chain' \in Seq(Delivery) /\ Placed' /\ Numbered'
      /\ stage \in 1 .. Stages /\ main # "closed" /\ Due.event.seq \in Nat
      /\ main' \in {"running", "undelivered", "delivered"}
      /\ main' # "undelivered"
  BY <1>1, <1>2, DeliveredFacts, EventIsNoMark
<1>4. /\ progress' \in Stream(Event, Capacity) /\ Flowing' /\ Reporting'
      /\ ~ progress'.closed /\ published' = base .. Bound' - 1
      /\ published' = published \cup {Due.event.seq}
      /\ \E k \in Nat : published' = base' .. base' + k - 1
  BY <1>1, <1>2, PublishFacts
<1>5. TypeOK'
  BY <1>1, <1>3, <1>4 DEF IInv, TypeOK, Delivery
<1>6. Flagged'
  BY <1>1, <1>2, <1>3, <1>4, DeliveryAssumption DEF IInv, Flagged
<1>7. Recorded'
  BY <1>1, <1>2, <1>4 DEF Recorded
<1> QED
  BY <1>3, <1>4, <1>5, <1>6, <1>7 DEF IInv

LEMMA WriteFailsKeeps ==
  ASSUME IInv, WriteFails
  PROVE  IInv'
<1>1. /\ writerOn' = FALSE
      /\ UNCHANGED <<mode, next, left, stage, failed, output, got, base, written>>
  BY DEF WriteFails
<1>2. OrdinaryDue /\ ~ fatal /\ writerOn /\ written = published
  BY WritingFacts DEF WriteFails
<1>3. CASE mode = "fail-run"
  <2>1. /\ fatal' = TRUE /\ Delivered(FALSE) /\ writing' = FALSE
        /\ UNCHANGED <<progress, published>>
    BY <1>3 DEF WriteFails, Delivered
  <2>2. /\ chain' \in Seq(Delivery) /\ Placed' /\ Numbered'
        /\ Bound \in Int /\ Bound' = Bound + 1
        /\ stage \in 1 .. Stages /\ main # "closed"
        /\ main' \in {"running", "undelivered", "delivered"}
        /\ main' # "delivered"
    BY <1>1, <1>2, <2>1, DeliveredFacts
  <2>3. TypeOK'
    BY <1>1, <2>1, <2>2 DEF IInv, TypeOK, Delivery
  <2>4. Flagged'
    BY <1>1, <1>3, <2>1, <2>2, DeliveryAssumption DEF IInv, Flagged
  <2>5. Recorded'
    BY <1>1, <1>2, <2>1 DEF IInv, Recorded
  <2>6. Flowing'
    BY <1>1, <2>1, <2>2, FlowKept DEF IInv
  <2>7. Reporting'
    BY <2>2 DEF Reporting
  <2> QED
    BY <2>2, <2>3, <2>4, <2>5, <2>6, <2>7 DEF IInv
<1>4. CASE mode # "fail-run"
  <2>1. Publish /\ Delivered(TRUE) /\ writing' = FALSE /\ fatal' = fatal
    BY <1>4 DEF WriteFails, Publish, Delivered
  <2>2. /\ chain' \in Seq(Delivery) /\ Placed' /\ Numbered'
        /\ stage \in 1 .. Stages /\ main # "closed" /\ Due.event.seq \in Nat
        /\ main' \in {"running", "undelivered", "delivered"}
        /\ main' # "undelivered"
    BY <1>1, <1>2, <2>1, DeliveredFacts, EventIsNoMark
  <2>3. /\ progress' \in Stream(Event, Capacity) /\ Flowing' /\ Reporting'
        /\ ~ progress'.closed /\ published' = base .. Bound' - 1
        /\ published' = published \cup {Due.event.seq}
        /\ \E k \in Nat : published' = base' .. base' + k - 1
    BY <1>1, <1>2, <2>1, PublishFacts
  <2>4. TypeOK'
    BY <1>1, <2>1, <2>2, <2>3 DEF IInv, TypeOK, Delivery
  <2>5. Flagged'
    BY <1>1, <1>2, <1>4, <2>1, <2>2, <2>3, DeliveryAssumption DEF IInv, Flagged
  <2>6. Recorded'
    BY <1>1, <1>2, <1>4, <2>1, <2>3 DEF IInv, Recorded
  <2> QED
    BY <2>2, <2>3, <2>4, <2>5, <2>6 DEF IInv
<1> QED
  BY <1>3, <1>4

LEMMA RecoverKeeps ==
  ASSUME IInv, Recover
  PROVE  IInv'
<1>1. /\ chain # <<>> /\ Due.event.kind = "recovery" /\ next' = next + 1
      /\ progress' = Push(Capacity, progress, [Due.event EXCEPT !.seq = next])
      /\ chain' = Tail(chain) /\ main' = Resumed(TRUE) /\ writing' = FALSE
      /\ UNCHANGED <<mode, left, writerOn, fatal, stage, failed, output, got, history>>
  BY DEF Recover, Delivered
<1>2. /\ main = "recovering" /\ Due = chain[1] /\ Due.event \in Event
      /\ Tail(chain) = <<>> /\ Due.by = Runtime
  BY <1>1, DueFacts DEF IInv
<1>3. chain' = <<>> /\ main' = "delivered" /\ Len(chain') = 0
  BY <1>1, <1>2 DEF Resumed
<1>4. next \in Nat /\ stage \in 1 .. Stages /\ Due.event.stage = stage
  BY <1>1, <1>2, DeliveryAssumption DEF IInv, TypeOK, Flagged, Placed
<1> DEFINE e == [Due.event EXCEPT !.seq = next]
<1>5. e \in Event /\ e.seq = next /\ e.kind = "recovery" /\ e.stage = stage
  BY <1>1, <1>2, <1>4 DEF Event
<1>6. progress' = Push(Capacity, progress, e)
  BY <1>1
<1> HIDE DEF e
<1>7. Bound = next /\ Bound' = next + 1
  <2>1. main = "recovering" /\ main' # "recovering"
    BY <1>2, <1>3
  <2>2. next' - Len(chain') = next + 1
    <3>1. \A n, m \in Nat : m = 0 => (n + 1) - m = n + 1
      OBVIOUS
    <3> QED
      BY <1>1, <1>3, <1>4, <3>1
  <2> QED
    BY <2>1, <2>2 DEF Bound
<1>8. Flowing'
  BY <1>1, <1>5, <1>6, <1>7, FlowPushed DEF IInv
<1>9. ~ progress.closed /\ Below(Carried(progress), {e})
  BY <1>2, <1>5, <1>7 DEF IInv, Flagged, Flowing, Below
<1>10. /\ progress'.closed = progress.closed
       /\ \A before : Newest(progress', before) = e
       /\ progress' \in Stream(Event, Capacity)
  BY <1>5, <1>6, <1>9, PushSound DEF IInv, Flowing, Sound
<1>11. TypeOK'
  <2>1. chain' \in Seq([event : Event, by : Emitter])
    BY <1>3
  <2>2. next' \in Nat
    BY <1>1, <1>4
  <2> QED
    BY <1>1, <1>3, <1>10, <2>1, <2>2 DEF IInv, TypeOK, history
<1>12. Placed'
  BY <1>3 DEF Placed
<1>13. Numbered'
  <2>1. base' <= Bound'
    BY <1>1, <1>4, <1>7 DEF IInv, TypeOK, Numbered, history
  <2>2. \A i \in DOMAIN chain' : FALSE
    BY <1>3
  <2> QED
    BY <2>1, <2>2 DEF Numbered
<1>14. Recorded'
  BY <1>1, <1>2 DEF IInv, Recorded, Flagged, history
<1>15. Flagged'
  BY <1>1, <1>2, <1>3, <1>4, <1>9, <1>10, DeliveryAssumption DEF IInv, Flagged
<1>16. Reporting'
  <2>1. e # Nothing
    BY <1>5, EventIsNoMark
  <2>2. Newest(progress, Newest(output, got))' = e
    BY <1>10
  <2>3. stage \in Int /\ ~ stage > Stages /\ stage' = stage
    BY <1>1, <1>4, DeliveryAssumption
  <2> QED
    BY <1>5, <2>1, <2>2, <2>3 DEF Reporting, LastWord
<1> QED
  BY <1>8, <1>11, <1>12, <1>13, <1>14, <1>15, <1>16 DEF IInv

(***************************************************************************)
(* Closing and starting stages.                                            *)
(***************************************************************************)
LEMMA CloseStageKeeps ==
  ASSUME IInv, CloseStage
  PROVE  IInv'
<1>1. /\ main = "delivered" /\ main' = "closed" /\ progress' = Closed(progress)
      /\ UNCHANGED <<mode, next, left, chain, writing, writerOn, fatal, stage,
                     failed, output, got, history>>
  BY DEF CloseStage
<1>2. Bound' = Bound /\ Bound \in Int /\ chain = <<>>
  BY <1>1, ChainFacts DEF Bound, IInv, Placed
<1>3. /\ Sound(progress') /\ Carried(progress') = Carried(progress)
      /\ progress'.closed = TRUE
      /\ \A before : Newest(progress', before) = Newest(progress, before)
  BY <1>1, ClosedSound DEF IInv, Flowing
<1>4. TypeOK'
  BY <1>1, <1>3 DEF IInv, TypeOK, Sound, history
<1>5. Placed'
  BY <1>1, <1>2 DEF Placed
<1>6. Numbered' /\ Recorded'
  BY <1>1, <1>2 DEF IInv, Numbered, Recorded, history
<1>7. ~ stage > Stages
  BY <1>1 DEF IInv, Flagged
<1>8. Flagged'
  BY <1>1, <1>3, <1>7 DEF IInv, Flagged
<1>9. Flowing'
  <2>1. /\ Received' = Received /\ Carried(output)' = Carried(output)
        /\ Carried(progress)' = Carried(progress)
        /\ Sound(output)' /\ Sound(progress)'
    BY <1>1, <1>3 DEF IInv, Flowing, Received
  <2> QED
    BY <1>2, <2>1 DEF IInv, Flowing, Below
<1>10. Reporting'
  <2>1. Newest(progress, Newest(output, got))' = Newest(progress, Newest(output, got))
    BY <1>1, <1>3
  <2> QED
    BY <1>1, <2>1 DEF IInv, Reporting, LastWord
<1> QED
  BY <1>4, <1>5, <1>6, <1>8, <1>9, <1>10 DEF IInv

LEMMA NextStageKeeps ==
  ASSUME IInv, NextStage
  PROVE  IInv'
<1>1. /\ main = "closed" /\ stage < Stages /\ stage' = stage + 1
      /\ main' = "start" /\ left' = [w \in Worker |-> MaxEmits]
      /\ chain' = <<>> /\ writing' = FALSE /\ writerOn' = (mode # "none")
      /\ fatal' = FALSE /\ progress' = EmptyStream /\ base' = next
      /\ written' = {} /\ published' = {}
      /\ UNCHANGED <<mode, next, failed, output, got>>
  BY DEF NextStage, FreshStage
<1>2. chain = <<>> /\ next \in Nat /\ stage \in 1 .. Stages + 1 /\ Stages \in Nat
  BY <1>1, DeliveryAssumption DEF IInv, Placed, TypeOK
<1>3. stage' \in 1 .. Stages + 1 /\ ~ stage > Stages /\ ~ stage' > Stages
  BY <1>1, <1>2
<1>4. Bound = next /\ Bound' = next
  <2>1. Len(chain) = 0 /\ Len(chain') = 0
    BY <1>1, <1>2
  <2>2. \A n, m \in Nat : m = 0 => n - m = n
    OBVIOUS
  <2>3. next - Len(chain) = next /\ next' - Len(chain') = next
    BY <1>1, <1>2, <2>1, <2>2
  <2> QED
    BY <1>1, <2>3 DEF Bound
<1>5. Sound(progress') /\ Carried(progress') = {} /\ ~ progress'.closed
  BY <1>1, EmptySound DEF EmptyStream
<1>6. TypeOK'
  <2>1. chain' \in Seq([event : Event, by : Emitter])
    BY <1>1
  <2>2. left' \in [Worker -> 0 .. MaxEmits]
    BY <1>1, DeliveryAssumption
  <2> QED
    BY <1>1, <1>2, <1>3, <1>5, <2>1, <2>2 DEF IInv, TypeOK, Sound
<1>7. Placed' /\ Numbered' /\ Reporting'
  <2>1. \A i \in DOMAIN chain' : FALSE
    BY <1>1
  <2>2. base' <= Bound'
    BY <1>1, <1>2, <1>4
  <2> QED
    BY <1>1, <2>1, <2>2 DEF Placed, Numbered, Reporting
<1>8. Flagged'
  BY <1>1, <1>3, <1>5 DEF IInv, Flagged
<1>9. Recorded'
  <2>1. {} = next .. next - 1 /\ {} = next .. next + 0 - 1
    BY <1>2
  <2> QED
    BY <1>1, <1>4, <2>1 DEF Recorded
<1>10. Flowing'
  <2>1. Received' = Received /\ Carried(output') = Carried(output) /\ Sound(output')
    BY <1>1 DEF IInv, Flowing, Received
  <2>2. Carried(output)' = Carried(output) /\ Carried(progress)' = {}
    BY <1>5, <2>1
  <2> QED
    BY <1>4, <1>5, <2>1, <2>2 DEF IInv, Flowing, Below
<1> QED
  BY <1>6, <1>7, <1>8, <1>9, <1>10 DEF IInv

LEMMA CloseRunKeeps ==
  ASSUME IInv, CloseRun
  PROVE  IInv'
<1>1. /\ main = "closed" /\ progress.hand = End
      /\ stage = Stages \/ (failed /\ stage <= Stages)
      /\ stage' = Stages + 1 /\ output' = Closed(output)
      /\ UNCHANGED <<mode, next, main, left, chain, writing, writerOn, fatal, failed,
                     progress, got, history>>
  BY DEF CloseRun, emitter
<1>2. Bound' = Bound /\ Bound \in Int /\ chain = <<>>
  BY <1>1, ChainFacts DEF Bound, IInv, Placed
<1>3. /\ Sound(output') /\ Carried(output') = Carried(output)
      /\ output'.closed = TRUE
      /\ \A before : Newest(output', before) = Newest(output, before)
  BY <1>1, ClosedSound DEF IInv, Flowing
<1>4. stage' \in 1 .. Stages + 1 /\ stage' > Stages
  BY <1>1, DeliveryAssumption
<1>5. TypeOK'
  BY <1>1, <1>3, <1>4 DEF IInv, TypeOK, Sound, history
<1>6. Placed'
  BY <1>1, <1>2 DEF Placed
<1>7. Numbered' /\ Recorded'
  BY <1>1, <1>2 DEF IInv, Numbered, Recorded, history
<1>8. Flagged'
  BY <1>1, <1>3, <1>4 DEF IInv, Flagged
<1>9. Flowing'
  <2>1. /\ Received' = Received /\ Carried(progress)' = Carried(progress)
        /\ Carried(output)' = Carried(output)
        /\ Sound(output)' /\ Sound(progress)'
    BY <1>1, <1>3 DEF IInv, Flowing, Received
  <2> QED
    BY <1>2, <2>1 DEF IInv, Flowing, Below
<1>10. Reporting'
  <2> SUFFICES ASSUME ~ failed
               PROVE  LastWord(Newest(progress, Newest(output, got)))'
    BY <1>1 DEF Reporting
  <2>1. Newest(progress, Newest(output, got))' = Newest(progress, Newest(output, got))
    BY <1>1, <1>3
  <2>2. stage = Stages /\ ~ stage > Stages
    BY <1>1, DeliveryAssumption
  <2> QED
    BY <1>1, <1>4, <2>1, <2>2 DEF IInv, Reporting, LastWord
<1> QED
  BY <1>5, <1>6, <1>7, <1>8, <1>9, <1>10 DEF IInv

(***************************************************************************)
(* The pump and the host: events move on in their order, and the newest    *)
(* one stays the newest.                                                   *)
(***************************************************************************)
LEMMA MovedKeeps ==
  ASSUME IInv, UNCHANGED <<emitter, stage, failed, history>>,
         progress' \in Stream(Event, Capacity), output' \in Stream(Event, Capacity),
         got' \in Event \cup {Nothing},
         progress'.closed = progress.closed, output'.closed = output.closed,
         stage > Stages => progress'.hand = End,
         Newest(progress, Newest(output, got))' = Newest(progress, Newest(output, got)),
         Flowing'
  PROVE  IInv'
<1>1. Bound' = Bound
  BY DEF emitter, Bound
<1>2. TypeOK' /\ Placed'
  BY DEF IInv, TypeOK, Placed, emitter, history
<1>3. Numbered' /\ Recorded'
  BY <1>1 DEF IInv, Numbered, Recorded, emitter, history
<1>4. Flagged' /\ Reporting'
  BY DEF IInv, Flagged, Reporting, LastWord, emitter
<1> QED
  BY <1>2, <1>3, <1>4 DEF IInv

LEMMA PumpAsksKeeps ==
  ASSUME IInv, PumpAsks
  PROVE  IInv'
<1>1. /\ stage <= Stages /\ Ready(progress) /\ progress' = Asked(progress)
      /\ UNCHANGED <<emitter, stage, failed, output, got, history>>
  BY DEF PumpAsks
<1>2. TypeOK /\ Flowing /\ ~ stage > Stages
  BY <1>1, DeliveryAssumption DEF IInv, TypeOK
<1>3. /\ Sound(progress') /\ Carried(progress') \subseteq Carried(progress)
      /\ progress'.closed = progress.closed
      /\ \A before : Newest(progress', before) = Newest(progress, before)
  BY <1>1, <1>2, AskedSound DEF Flowing
<1>4. /\ Bound' = Bound /\ Received' = Received /\ Carried(output)' = Carried(output)
      /\ Sound(output)' /\ Carried(progress)' \subseteq Carried(progress)
  BY <1>1, <1>2, <1>3 DEF Bound, emitter, Received, Flowing
<1>5. Flowing'
  BY <1>2, <1>3, <1>4 DEF Flowing, Below
<1>6. Newest(progress, Newest(output, got))' = Newest(progress, Newest(output, got))
  BY <1>1, <1>3
<1> QED
  BY <1>1, <1>2, <1>3, <1>5, <1>6, MovedKeeps DEF TypeOK, Sound

LEMMA PumpForwardsKeeps ==
  ASSUME IInv, PumpForwards
  PROVE  IInv'
<1> DEFINE e == progress.hand
<1>1. /\ Answered(progress) /\ progress' = Taken(progress)
      /\ output' = Push(Capacity, output, e)
      /\ UNCHANGED <<emitter, stage, failed, got, history>>
  BY DEF PumpForwards
<1>2. TypeOK /\ Flowing
  BY DEF IInv
<1>3. ~ stage > Stages /\ ~ output.closed
  BY <1>1 DEF IInv, Flagged, Answered
<1>4. /\ Sound(progress') /\ e \in Event /\ e \in Carried(progress)
      /\ Carried(progress') \subseteq Carried(progress)
      /\ Below({e}, Carried(progress'))
      /\ progress'.closed = progress.closed
      /\ \A before : Newest(progress', e) = Newest(progress, before)
  BY <1>1, <1>2, TakenSound DEF Flowing, Carried
<1> HIDE DEF e
<1>5. Below(Received \cup Carried(output), {e})
  BY <1>2, <1>4 DEF Flowing, Below
<1>6. /\ Sound(output') /\ Carried(output') \subseteq Carried(output) \cup {e}
      /\ output'.closed = output.closed
      /\ \A before : Newest(output', before) = e
  BY <1>1, <1>2, <1>3, <1>4, <1>5, PushSound DEF Flowing, Below
<1>7. Bound' = Bound /\ Received' = Received
  BY <1>1 DEF Bound, emitter, Received
<1>8. Flowing'
  <2>1. Below(Received, Carried(output'))
    BY <1>2, <1>5, <1>6 DEF Flowing, Below
  <2>2. Below(Received \cup Carried(output'), Carried(progress'))
    BY <1>2, <1>4, <1>6 DEF Flowing, Below
  <2>3. \A x \in Received \cup Carried(output') \cup Carried(progress') : x.seq < Bound
    BY <1>2, <1>4, <1>6 DEF Flowing
  <2>4. Below(Received, Carried(output))' /\ Sound(progress)' /\ Sound(output)'
    BY <1>4, <1>6, <1>7, <2>1
  <2>5. Below(Received \cup Carried(output), Carried(progress))'
    BY <1>7, <2>2
  <2>6. \A x \in (Received \cup Carried(output) \cup Carried(progress))' : x.seq < Bound'
    BY <1>7, <2>3
  <2> QED
    BY <2>4, <2>5, <2>6 DEF Flowing
<1>9. Newest(progress, Newest(output, got))' = Newest(progress, Newest(output, got))
  BY <1>4, <1>6
<1> QED
  BY <1>1, <1>2, <1>3, <1>4, <1>6, <1>8, <1>9, MovedKeeps DEF TypeOK, Sound

LEMMA HostAsksKeeps ==
  ASSUME IInv, HostAsks
  PROVE  IInv'
<1>1. /\ Ready(output) /\ output' = Asked(output)
      /\ UNCHANGED <<emitter, stage, failed, progress, got, history>>
  BY DEF HostAsks
<1>2. TypeOK /\ Flowing /\ (stage > Stages => progress.hand = End)
  BY DEF IInv, Flagged
<1>3. /\ Sound(output') /\ Carried(output') \subseteq Carried(output)
      /\ output'.closed = output.closed
      /\ \A before : Newest(output', before) = Newest(output, before)
  BY <1>1, <1>2, AskedSound DEF Flowing
<1>4. /\ Bound' = Bound /\ Received' = Received /\ Carried(progress)' = Carried(progress)
      /\ Sound(progress)' /\ Carried(output)' \subseteq Carried(output)
  BY <1>1, <1>2, <1>3 DEF Bound, emitter, Received, Flowing
<1>5. Flowing'
  BY <1>2, <1>3, <1>4 DEF Flowing, Below
<1>6. Newest(progress, Newest(output, got))' = Newest(progress, Newest(output, got))
  BY <1>1, <1>3
<1> QED
  BY <1>1, <1>2, <1>3, <1>5, <1>6, MovedKeeps DEF TypeOK, Sound

LEMMA HostReceivesKeeps ==
  ASSUME IInv, HostReceives
  PROVE  IInv' /\ (got = Nothing \/ got'.seq > got.seq)
<1>1. /\ Answered(output) /\ output' = Taken(output) /\ got' = output.hand
      /\ UNCHANGED <<emitter, stage, failed, progress, history>>
  BY DEF HostReceives
<1>2. TypeOK /\ Flowing /\ (stage > Stages => progress.hand = End)
  BY DEF IInv, Flagged
<1>3. /\ Sound(output') /\ got' \in Event /\ got' \in Carried(output)
      /\ Carried(output') \subseteq Carried(output)
      /\ Below({got'}, Carried(output'))
      /\ output'.closed = output.closed
      /\ \A before : Newest(output', got') = Newest(output, before)
  BY <1>1, <1>2, TakenSound DEF Flowing, Carried
<1>4. Received' = {got'}
  BY <1>3, EventIsNoMark DEF Received
<1>5. /\ Bound' = Bound /\ Carried(progress)' = Carried(progress) /\ Sound(progress)'
  BY <1>1, <1>2 DEF Bound, emitter, Flowing
<1>6. Flowing'
  <2>1. Below(Received, Carried(output))'
    BY <1>3, <1>4
  <2>2. Below({got'} \cup Carried(output'), Carried(progress))
    BY <1>2, <1>3 DEF Flowing, Below
  <2>3. \A x \in {got'} \cup Carried(output') \cup Carried(progress) : x.seq < Bound
    BY <1>2, <1>3 DEF Flowing
  <2>4. Below(Received \cup Carried(output), Carried(progress))'
    BY <1>4, <1>5, <2>2
  <2>5. \A x \in (Received \cup Carried(output) \cup Carried(progress))' : x.seq < Bound'
    BY <1>4, <1>5, <2>3
  <2> QED
    BY <1>3, <1>5, <2>1, <2>4, <2>5 DEF Flowing
<1>7. Newest(progress, Newest(output, got))' = Newest(progress, Newest(output, got))
  BY <1>1, <1>3
<1>8. IInv'
  BY <1>1, <1>2, <1>3, <1>6, <1>7, MovedKeeps DEF TypeOK, Sound
<1>9. got = Nothing \/ got'.seq > got.seq
  <2> SUFFICES ASSUME got # Nothing PROVE got'.seq > got.seq
    OBVIOUS
  <2>1. got \in Received /\ got \in Event
    BY <1>2 DEF Received, TypeOK
  <2>2. got.seq < got'.seq
    BY <1>2, <1>3, <2>1 DEF Flowing, Below
  <2> QED
    BY <1>3, <2>1, <2>2, EventIsNoMark
<1> QED
  BY <1>8, <1>9

\* Every step preserves the invariant.
LEMMA StepKeeps ==
  ASSUME IInv, [Next]_vars
  PROVE  IInv'
<1>1. CASE UNCHANGED vars
  BY <1>1, StutterKeeps
<1>2. CASE EmitStarted
  BY <1>2, EmitStartedKeeps
<1>3. CASE \E w \in Worker : EmitProgress(w)
  BY <1>3, EmitProgressKeeps
<1>4. CASE EmitTerminal
  BY <1>4, EmitTerminalKeeps
<1>5. CASE Throw
  BY <1>5, ThrowKeeps
<1>6. CASE EmitRecovery
  BY <1>6, EmitRecoveryKeeps
<1>7. CASE Drop
  BY <1>7, DropKeeps
<1>8. CASE PublishOnly
  BY <1>8, PublishOnlyKeeps
<1>9. CASE StartWrite
  BY <1>9, StartWriteKeeps
<1>10. CASE WriteSucceeds
  BY <1>10, WriteSucceedsKeeps
<1>11. CASE WriteFails
  BY <1>11, WriteFailsKeeps
<1>12. CASE Recover
  BY <1>12, RecoverKeeps
<1>13. CASE CloseStage
  BY <1>13, CloseStageKeeps
<1>14. CASE NextStage
  BY <1>14, NextStageKeeps
<1>15. CASE CloseRun
  BY <1>15, CloseRunKeeps
<1>16. CASE PumpAsks
  BY <1>16, PumpAsksKeeps
<1>17. CASE PumpForwards
  BY <1>17, PumpForwardsKeeps
<1>18. CASE HostAsks
  BY <1>18, HostAsksKeeps
<1>19. CASE HostReceives
  BY <1>19, HostReceivesKeeps
<1> QED
  BY <1>1, <1>2, <1>3, <1>4, <1>5, <1>6, <1>7, <1>8, <1>9, <1>10, <1>11, <1>12,
     <1>13, <1>14, <1>15, <1>16, <1>17, <1>18, <1>19
     DEF Next, Runs, Deliver, Pump, Host

\* The inductive invariant: what is due, what was streamed and written, and what is
\* on its way or with the host agree in every reachable state.
THEOREM DeliveryInvariant == Spec => []IInv
<1>1. IInv /\ [Next]_vars => IInv'
  BY StepKeeps
<1> QED
  BY <1>1, InitEstablishes, PTL DEF Spec

-----------------------------------------------------------------------------
(***************************************************************************)
(* The promises.                                                           *)
(***************************************************************************)

\* Every reachable state has its type: in particular no stream, of the stage or
\* of the Run, ever holds more than its capacity.
THEOREM TypeCorrect == Spec => []TypeOK
<1>1. IInv => TypeOK
  BY DEF IInv
<1> QED
  BY <1>1, DeliveryInvariant, PTL

\* Whatever the two bounded queues drop, and across recoveries and the emitters
\* of successive stages, what RunHandle.events yields carries increasing
\* sequence numbers (eval-core/runtime/events.ts).
THEOREM ReceivedInOrderHolds == Spec => ReceivedInOrder
<1>1. IInv /\ [Next]_vars => [HostReceives => got = Nothing \/ got'.seq > got.seq]_vars
  BY HostReceivesKeeps
<1> QED
  BY <1>1, DeliveryInvariant, PTL DEF Spec, ReceivedInOrder

\* When settleStage has drained the stage's stream, the terminal event of the
\* stage, or its recovery, is the newest on the way to the host: no overflow of
\* either queue can have lost it.
THEOREM SettledStageReportedHolds == Spec => []SettledStageReported
<1>1. IInv => SettledStageReported
  <2> SUFFICES ASSUME IInv, progress.hand = End, ~ failed
               PROVE  LastWord(Latest)
    BY DEF SettledStageReported, LastWord
  <2>1. progress.queue = <<>> /\ progress.closed
    BY DEF IInv, Flowing, Sound, Attended
  <2>2. main = "closed"
    BY <2>1 DEF IInv, Flagged
  <2>3. Newest(progress, Newest(output, got)) = Newest(output, got)
    BY <2>1 DEF Newest, Answered
  <2>4. Latest = Newest(output, got)
    BY DEF Latest, Newest
  <2> QED
    BY <2>2, <2>3, <2>4 DEF IInv, Reporting
<1> QED
  BY <1>1, DeliveryInvariant, PTL

\* The writer of a stage and its stream each have an unbroken run of the stage's
\* events from its first, and where a failure of the writer fails the Run they
\* have the same ones (RuntimeEventEmitter#deliver).
THEOREM WriterHoldsWhatIsShownHolds == Spec => []WriterHoldsWhatIsShown
<1>1. ASSUME NEW b \in Nat, NEW k \in Nat, NEW S, S = b .. b + k - 1
      PROVE  S = b .. b + Cardinality(S) - 1
  <2>1. Cardinality(S) = k
    <3>1. Cardinality(b .. b + k - 1) =
            IF b > b + k - 1 THEN 0 ELSE (b + k - 1) - b + 1
      BY FS_Interval
    <3> QED
      BY <1>1, <3>1
  <2> QED
    BY <1>1, <2>1
<1>2. IInv => WriterHoldsWhatIsShown
  <2> SUFFICES ASSUME IInv PROVE WriterHoldsWhatIsShown
    OBVIOUS
  <2>1. base \in Nat
    BY DEF IInv, TypeOK
  <2>2. PICK k \in Nat : written = base .. base + k - 1
    BY DEF IInv, Recorded
  <2>3. PICK m \in Nat : published = base .. base + m - 1
    BY DEF IInv, Recorded
  <2>4. FirstOf(written)
    BY <1>1, <2>1, <2>2 DEF FirstOf
  <2>5. FirstOf(published)
    BY <1>1, <2>1, <2>3 DEF FirstOf
  <2> QED
    BY <2>4, <2>5 DEF IInv, Recorded, WriterHoldsWhatIsShown
<1> QED
  BY <1>2, DeliveryInvariant, PTL
===============================================================================
