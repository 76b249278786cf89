-------------------------- MODULE CdpSession_proof --------------------------
(***************************************************************************)
(* Safety of a DevTools session for every queue bound, every number of     *)
(* requests and reconnections, and every browser, honest or not.           *)
(***************************************************************************)
EXTENDS CdpSession, FiniteSetTheorems, SequenceTheorems, TLAPS

\* The queue keeps arrival order.
EventsInArrivalOrder ==
  \A i, j \in DOMAIN events : i < j => events[i].serial < events[j].serial

\* The queue holds events of this connection, numbered in arrival order.
QueueInv ==
  /\ Len(events) <= MaxEvents
  /\ \A i \in DOMAIN events : events[i].connection = connection /\ events[i].serial <= arrived
  /\ EventsInArrivalOrder

\* Retained replies answer earlier requests, read from the socket still open.
ResponseInv ==
  /\ IsFiniteSet(pending_responses)
  /\ Cardinality(pending_responses) <= MaxPending
  /\ \A r1, r2 \in pending_responses : r1.id = r2.id => r1 = r2
  /\ \A r \in pending_responses :
       socket /\ r.connection = connection /\ r.id < next_request_id /\ r.id # awaited

\* Every id in use is below next_request_id, and an operation that waits for
\* the browser has a socket.
CallInv ==
  /\ awaited < next_request_id
  /\ step \in {"sending", "receiving", "flushing"} => socket
  /\ step = "sending" => awaited # 0
  /\ step \in {"ready", "connecting", "closing"} => awaited = 0
  /\ step \in {"connecting", "closing"} => events = << >> /\ ~socket

\* A browser that answers each request at most once owes answers to the awaited
\* request and to abandoned ones only, and what is retained are answers to these
\* that it no longer owes.
OweInv ==
  honest_peer =>
    /\ unanswered \subseteq abandoned \cup {awaited}
    /\ \A r \in pending_responses : r.id \in abandoned /\ r.id \notin unanswered
    /\ result = "PendingResponseLimit" => step = "ready" /\ Cardinality(abandoned) > MaxPending

IInv == TypeOK /\ QueueInv /\ ResponseInv /\ CallInv

-----------------------------------------------------------------------------

\* VecDeque::remove closes the gap: the other elements keep their order.
LEMMA RemoveAtElements ==
  ASSUME NEW S, NEW s \in Seq(S), NEW k \in 1..Len(s)
  PROVE  /\ RemoveAt(s, k) \in Seq(S)
         /\ Len(RemoveAt(s, k)) = Len(s) - 1
         /\ \A i \in 1..Len(s) - 1 :
              RemoveAt(s, k)[i] = IF i < k THEN s[i] ELSE s[i + 1]
<1> DEFINE front == SubSeq(s, 1, k - 1)
           back  == SubSeq(s, k + 1, Len(s))
<1>1. Len(s) \in Nat /\ \A i \in 1..Len(s) : s[i] \in S
  OBVIOUS
<1>2. front \in Seq(S) /\ Len(front) = k - 1 /\ \A i \in 1..k - 1 : front[i] = s[i]
  BY <1>1
<1>3. back \in Seq(S) /\ Len(back) = Len(s) - k /\ \A i \in 1..Len(s) - k : back[i] = s[k + i]
  BY <1>1
<1> HIDE DEF front, back
<1>4. front \o back \in Seq(S) /\ Len(front \o back) = Len(s) - 1
  <2>1. front \o back \in Seq(S) /\ Len(front \o back) = Len(front) + Len(back)
    BY <1>2, <1>3, ConcatProperties
  <2> QED  BY <2>1, <1>1, <1>2, <1>3
<1>5. ASSUME NEW i \in 1..Len(s) - 1
      PROVE  (front \o back)[i] = IF i < k THEN s[i] ELSE s[i + 1]
  <2>1. CASE i < k
    <3>1. i \in 1..Len(front)
      BY <2>1, <1>2, <1>1
    <3> QED  BY <3>1, <2>1, <1>2, <1>3, <1>1, ConcatProperties
  <2>2. CASE ~(i < k)
    <3>1. i > Len(front) /\ i - Len(front) \in 1..Len(s) - k /\ i \in 1..Len(front) + Len(back)
      BY <2>2, <1>2, <1>3, <1>1
    <3>2. (front \o back)[i] = back[i - Len(front)]
      BY <3>1, <1>2, <1>3, <1>1, ConcatProperties
    <3> QED  BY <3>1, <3>2, <2>2, <1>2, <1>3, <1>1
  <2> QED  BY <2>1, <2>2
<1> QED
  BY <1>4, <1>5 DEF RemoveAt, front, back

\* pop_front is the removal of the first element.
LEMMA TailRemovesFirst ==
  ASSUME NEW S, NEW s \in Seq(S), s # << >>
  PROVE  1 \in DOMAIN s /\ Head(s) = s[1] /\ Tail(s) = RemoveAt(s, 1)
<1>1. Len(s) \in Nat /\ Len(s) >= 1 /\ DOMAIN s = 1..Len(s)
  OBVIOUS
<1>2. SubSeq(s, 1, 1 - 1) = << >>
  BY SubSeqEmpty
<1>3. SubSeq(s, 1 + 1, Len(s)) = Tail(s)
  BY TailIsSubSeq
<1>4. Tail(s) \in Seq(S) /\ Head(s) = s[1]
  OBVIOUS
<1>5. << >> \o Tail(s) = Tail(s)
  BY <1>4, ConcatEmptySeq
<1> QED
  BY <1>1, <1>2, <1>3, <1>4, <1>5 DEF RemoveAt

\* Removing a queued event leaves a queue that is as good as before.
LEMMA RemoveAtKeepsQueue ==
  ASSUME IInv, NEW k \in DOMAIN events, events' = RemoveAt(events, k),
         connection' = connection, arrived' = arrived
  PROVE  events' \in Seq(Event) /\ QueueInv'
<1>1. /\ events \in Seq(Event) /\ Len(events) \in Nat /\ DOMAIN events = 1..Len(events)
      /\ \A i \in 1..Len(events) : events[i] \in Event
  BY DEF IInv, TypeOK
<1>2. /\ events' \in Seq(Event)
      /\ Len(events') = Len(events) - 1
      /\ \A i \in 1..Len(events) - 1 :
           events'[i] = IF i < k THEN events[i] ELSE events[i + 1]
  <2> HIDE DEF IInv
  <2>1. k \in 1..Len(events)
    BY <1>1
  <2> QED  BY <1>1, <2>1, RemoveAtElements
<1>3. DOMAIN events' = 1..Len(events) - 1
  BY <1>1, <1>2
<1>4. \A i, j \in 1..Len(events) : i < j => events[i].serial < events[j].serial
  BY <1>1 DEF IInv, QueueInv, EventsInArrivalOrder
<1>5. \A i \in 1..Len(events) : events[i].connection = connection /\ events[i].serial <= arrived
  BY <1>1 DEF IInv, QueueInv
<1>6. \A i \in DOMAIN events' : events'[i].connection = connection /\ events'[i].serial <= arrived
  BY <1>1, <1>2, <1>3, <1>5
<1>7. EventsInArrivalOrder'
  BY <1>1, <1>2, <1>3, <1>4 DEF EventsInArrivalOrder
<1> QED
  BY <1>1, <1>2, <1>6, <1>7, LimitsAssumption DEF IInv, QueueInv

\* An operation that ends leaves its own variables in order.
LEMMA EndKeepsCall ==
  ASSUME TypeOK, NEW how \in Results, NEW event \in Event \cup {NoEvent}, NEW sent \in SUBSET RequestIds,
         End(how, event, sent)
  PROVE  /\ step' = "ready" /\ awaited' = 0 /\ wanted' = NoMethod
         /\ step' \in Steps /\ awaited' \in RequestIds \cup {0} /\ wanted' \in Methods \cup {NoMethod}
         /\ result' \in Results /\ delivered' \in Event \cup {NoEvent} /\ abandoned' \in SUBSET RequestIds
BY DEF TypeOK, End, Steps

LEMMA InitIInv == Init => IInv
BY LimitsAssumption, FS_EmptySet
DEF Init, IInv, TypeOK, QueueInv, ResponseInv, CallInv,
    EventsInArrivalOrder, RequestIds, Steps, Results, Event, Response

LEMMA QueueFrame ==
  ASSUME QueueInv, UNCHANGED <<events, connection, arrived>>
  PROVE  QueueInv'
BY DEF QueueInv, EventsInArrivalOrder

\* The set of retained replies does not grow, and no older id is awaited.
LEMMA ResponseFrame ==
  ASSUME TypeOK, ResponseInv, UNCHANGED <<pending_responses, connection, socket>>,
         next_request_id' \in Nat, next_request_id' >= next_request_id,
         awaited' \in {0, awaited, next_request_id}
  PROVE  ResponseInv'
BY DEF TypeOK, ResponseInv, RequestIds, Response

\* An operation that ends without reading anything disturbs nothing else.
LEMMA EndIInv ==
  ASSUME IInv, NEW how \in Results, End(how, NoEvent, unanswered),
         UNCHANGED <<state, connection, unanswered, arrived, honest_peer>>
  PROVE  IInv'
<1>1. /\ step' = "ready" /\ awaited' = 0 /\ wanted' = NoMethod
      /\ result' \in Results /\ delivered' \in Event \cup {NoEvent} /\ abandoned' \in SUBSET RequestIds
  BY EndKeepsCall DEF IInv, TypeOK
<1>2. TypeOK' /\ CallInv'
  BY <1>1, LimitsAssumption DEF IInv, TypeOK, CallInv, Steps, RequestIds, state
<1>3. QueueInv'
  BY QueueFrame DEF IInv, state
<1>4. ResponseInv'
  BY <1>1, ResponseFrame DEF IInv, TypeOK, RequestIds, state
<1> QED  BY <1>2, <1>3, <1>4 DEF IInv

\* A fatal error takes the retained replies with the socket.
LEMMA InvalidateIInv ==
  ASSUME IInv, NEW how \in Results, InvalidateTransport, End(how, NoEvent, unanswered),
         UNCHANGED <<next_request_id, connection, unanswered, arrived, honest_peer>>
  PROVE  IInv'
<1>1. /\ step' = "ready" /\ awaited' = 0 /\ wanted' = NoMethod
      /\ result' \in Results /\ delivered' \in Event \cup {NoEvent} /\ abandoned' \in SUBSET RequestIds
  BY EndKeepsCall DEF IInv, TypeOK
<1>2. socket' = FALSE /\ pending_responses' = {} /\ UNCHANGED events
  BY DEF InvalidateTransport
<1>3. TypeOK'
  BY <1>1, <1>2 DEF IInv, TypeOK, Steps
<1>4. CallInv'
  BY <1>1, <1>2, LimitsAssumption DEF IInv, TypeOK, CallInv, RequestIds
<1>5. QueueInv'
  BY <1>2, QueueFrame DEF IInv
<1>6. ResponseInv'
  BY <1>2, FS_EmptySet, LimitsAssumption DEF ResponseInv
<1> QED  BY <1>3, <1>4, <1>5, <1>6 DEF IInv

LEMMA SendIInv == ASSUME IInv, Send, UNCHANGED honest_peer PROVE IInv'
<1> USE LimitsAssumption DEF IInv
<1>1. CASE SendExhausted
  <2>1. PICK how \in Results : End(how, NoEvent, unanswered)
    BY <1>1 DEF SendExhausted, Results
  <2> QED  BY <1>1, <2>1, EndIInv DEF SendExhausted
<1>2. CASE SendRefused
  <2>1. TypeOK' /\ CallInv'
    <3>1. \E how \in Results : End(how, NoEvent, unanswered)
      BY <1>2 DEF SendRefused, Results
    <3>2. /\ step' = "ready" /\ awaited' = 0 /\ wanted' = NoMethod
          /\ result' \in Results /\ delivered' \in Event \cup {NoEvent} /\ abandoned' \in SUBSET RequestIds
      BY <3>1, EndKeepsCall DEF TypeOK
    <3> QED  BY <1>2, <3>2 DEF SendRefused, TypeOK, CallInv, Steps, RequestIds, Exhausted, AllocateRequestId
  <2>2. QueueInv'
    BY <1>2, QueueFrame DEF SendRefused
  <2>3. ResponseInv'
    BY <1>2, ResponseFrame DEF SendRefused, AllocateRequestId, End, TypeOK, RequestIds
  <2> QED  BY <2>1, <2>2, <2>3
<1>3. CASE SendBegin
  <2>1. TypeOK' /\ CallInv'
    BY <1>3 DEF SendBegin, Begin, Exhausted, AllocateRequestId, TypeOK, CallInv, Results, Steps, RequestIds
  <2>2. QueueInv'
    BY <1>3, QueueFrame DEF SendBegin
  <2>3. ResponseInv'
    BY <1>3, ResponseFrame DEF SendBegin, Begin, AllocateRequestId, TypeOK, RequestIds
  <2> QED  BY <2>1, <2>2, <2>3
<1>4. CASE SendDone
  <2>1. {response \in pending_responses : response.id = awaited} = {}
    BY DEF ResponseInv
  <2>2. /\ unanswered' = unanswered \cup {awaited}
        /\ step = "sending" /\ step' = "receiving"
        /\ UNCHANGED <<socket, next_request_id, events, pending_responses, awaited, wanted, result,
                       delivered, connection, abandoned, arrived>>
    BY <1>4, <2>1 DEF SendDone
  <2>3. TypeOK' /\ CallInv'
    BY <2>2 DEF TypeOK, CallInv, Steps
  <2>4. QueueInv'
    BY <2>2, QueueFrame
  <2>5. ResponseInv'
    BY <2>2, ResponseFrame DEF TypeOK, RequestIds
  <2> QED  BY <2>3, <2>4, <2>5
<1>5. CASE SendFails
  <2>1. PICK how \in Results : End(how, NoEvent, unanswered)
    BY <1>5 DEF SendFails, Results
  <2> QED  BY <1>5, <2>1, InvalidateIInv DEF SendFails
<1>6. CASE SendBackpressure
  <2>1. PICK how \in Results : End(how, NoEvent, unanswered)
    BY <1>6 DEF SendBackpressure, Results
  <2> QED  BY <1>6, <2>1, EndIInv DEF SendBackpressure
<1>7. CASE SendInterrupted
  <2>1. PICK sent \in {unanswered, unanswered \cup {awaited}}, how \in {"Timeout", "dropped"} :
          unanswered' = sent /\ End(how, NoEvent, sent)
    BY <1>7 DEF SendInterrupted
  <2>2. sent \in SUBSET RequestIds
    BY <1>7 DEF SendInterrupted, TypeOK, CallInv
  <2>3. TypeOK' /\ CallInv'
    <3>1. /\ step' = "ready" /\ awaited' = 0 /\ wanted' = NoMethod
          /\ result' \in Results /\ delivered' \in Event \cup {NoEvent} /\ abandoned' \in SUBSET RequestIds
      <4>1. how \in Results
        BY DEF Results
      <4> QED  BY <2>1, <2>2, <4>1, EndKeepsCall
    <3> QED  BY <1>7, <2>1, <2>2, <3>1 DEF SendInterrupted, TypeOK, CallInv, Steps, RequestIds, state
  <2>4. QueueInv'
    BY <1>7, QueueFrame DEF SendInterrupted, state
  <2>5. ResponseInv'
    BY <1>7, <2>1, ResponseFrame DEF SendInterrupted, End, state, TypeOK, RequestIds
  <2> QED  BY <2>3, <2>4, <2>5
<1> QED
  BY <1>1, <1>2, <1>3, <1>4, <1>5, <1>6, <1>7 DEF Send

LEMMA WaitIInv == ASSUME IInv, Wait, UNCHANGED honest_peer PROVE IInv'
<1> USE LimitsAssumption DEF IInv
<1>1. ASSUME NEW k \in DOMAIN events, events' = RemoveAt(events, k), step = "ready",
             End("event", events[k], unanswered),
             UNCHANGED <<socket, next_request_id, pending_responses, connection, unanswered, arrived>>
      PROVE  IInv'
  <2>1. events' \in Seq(Event) /\ QueueInv'
    BY <1>1, RemoveAtKeepsQueue
  <2>2. events[k] \in Event \cup {NoEvent} /\ "event" \in Results
    BY <1>1 DEF TypeOK, Results
  <2>3. /\ step' = "ready" /\ awaited' = 0 /\ wanted' = NoMethod
        /\ result' \in Results /\ delivered' \in Event \cup {NoEvent} /\ abandoned' \in SUBSET RequestIds
    BY <1>1, <2>2, EndKeepsCall DEF TypeOK
  <2>4. TypeOK' /\ CallInv'
    BY <1>1, <2>1, <2>3 DEF TypeOK, CallInv, Steps, RequestIds
  <2>5. ResponseInv'
    BY <1>1, <2>3, ResponseFrame DEF TypeOK, RequestIds
  <2> QED  BY <2>1, <2>4, <2>5
<1>2. CASE WaitForQueuedEvent
  <2>1. PICK index \in DOMAIN events :
          events' = RemoveAt(events, index) /\ End("event", events[index], unanswered)
    BY <1>2 DEF WaitForQueuedEvent, Matching
  <2> QED  BY <1>2, <2>1, <1>1 DEF WaitForQueuedEvent
<1>3. CASE WaitForEvent
  <2>1. PICK method \in Methods :
          IF socket THEN Begin("receiving", 0, method) /\ UNCHANGED abandoned
                    ELSE End("Closed", NoEvent, unanswered)
    BY <1>3 DEF WaitForEvent
  <2>2. CASE socket
    <3>1. TypeOK' /\ CallInv'
      BY <1>3, <2>1, <2>2 DEF WaitForEvent, Begin, TypeOK, CallInv, Steps, Results, RequestIds, state
    <3>2. QueueInv'
      BY <1>3, QueueFrame DEF WaitForEvent, state
    <3>3. ResponseInv'
      BY <1>3, <2>1, <2>2, ResponseFrame DEF WaitForEvent, Begin, TypeOK, RequestIds, state
    <3> QED  BY <3>1, <3>2, <3>3
  <2>3. CASE ~socket
    <3>1. "Closed" \in Results
      BY DEF Results
    <3> QED  BY <1>3, <2>1, <2>3, <3>1, EndIInv DEF WaitForEvent
  <2> QED  BY <2>2, <2>3
<1>4. CASE NextEvent
  <2>1. events \in Seq(Event) /\ events # << >>
    BY <1>4 DEF NextEvent, TypeOK
  <2>2. 1 \in DOMAIN events /\ Head(events) = events[1] /\ Tail(events) = RemoveAt(events, 1)
    BY <2>1, TailRemovesFirst
  <2> QED  BY <1>4, <2>2, <1>1 DEF NextEvent
<1> QED
  BY <1>2, <1>3, <1>4 DEF Wait

LEMMA ReceiveIInv == ASSUME IInv, Receive, UNCHANGED honest_peer PROVE IInv'
<1> USE LimitsAssumption DEF IInv
<1>1. CASE ReceiveAwaitedReply
  <2>1. unanswered' \in SUBSET RequestIds /\ "reply" \in Results
    BY <1>1 DEF ReceiveAwaitedReply, TypeOK, Results
  <2>2. /\ step' = "ready" /\ awaited' = 0 /\ wanted' = NoMethod
        /\ result' \in Results /\ delivered' \in Event \cup {NoEvent} /\ abandoned' \in SUBSET RequestIds
    BY <1>1, <2>1, EndKeepsCall DEF ReceiveAwaitedReply, TypeOK
  <2>3. TypeOK' /\ CallInv'
    BY <1>1, <2>1, <2>2 DEF ReceiveAwaitedReply, TypeOK, CallInv, Steps, RequestIds, state
  <2>4. QueueInv'
    BY <1>1, QueueFrame DEF ReceiveAwaitedReply, state
  <2>5. ResponseInv'
    BY <1>1, <2>2, ResponseFrame DEF ReceiveAwaitedReply, TypeOK, RequestIds, state
  <2> QED  BY <2>3, <2>4, <2>5
<1>2. CASE ReceiveOtherReply
  <2>1. PICK id \in ReplyIds \ {awaited} :
          /\ unanswered' = unanswered \ {id}
          /\ IF PushResponse(id) = "kept"
             THEN /\ pending_responses' =
                       pending_responses \cup {[id |-> id, connection |-> connection]}
                  /\ UNCHANGED <<step, awaited, wanted, result, delivered, abandoned>>
             ELSE End(PushResponse(id), NoEvent, unanswered) /\ UNCHANGED pending_responses
    BY <1>2 DEF ReceiveOtherReply
  <2>2. /\ step = "receiving" /\ id \in RequestIds
        /\ UNCHANGED <<socket, next_request_id, events, connection, arrived>>
    BY <1>2 DEF ReceiveOtherReply, ReplyIds, TypeOK
  <2>3. QueueInv'
    BY <2>2, QueueFrame
  <2>4. CASE PushResponse(id) = "kept"
    <3> DEFINE response == [id |-> id, connection |-> connection]
    <3>1. /\ id < next_request_id /\ Cardinality(pending_responses) < MaxPending
          /\ \A r \in pending_responses : r.id # id
      <4>1. ~(id >= next_request_id) /\ ~(Cardinality(pending_responses) >= MaxPending)
            /\ ~(\E r \in pending_responses : r.id = id)
        BY <2>4 DEF PushResponse
      <4>2. Cardinality(pending_responses) \in Nat
        BY FS_CardinalityType DEF ResponseInv
      <4> QED  BY <2>2, <4>1, <4>2 DEF TypeOK, RequestIds
    <3>2. pending_responses' = pending_responses \cup {response} /\ response \in Response
      BY <2>1, <2>2, <2>4 DEF TypeOK, Response
    <3>3. TypeOK' /\ CallInv'
      BY <2>1, <2>2, <2>4, <3>2 DEF TypeOK, CallInv
    <3>4. IsFiniteSet(pending_responses') /\ Cardinality(pending_responses') <= MaxPending
      <4>1. response \notin pending_responses /\ Cardinality(pending_responses) \in Nat
        BY <3>1, FS_CardinalityType DEF ResponseInv
      <4>2. /\ IsFiniteSet(pending_responses \cup {response})
            /\ Cardinality(pending_responses \cup {response}) = Cardinality(pending_responses) + 1
        BY <4>1, FS_AddElement DEF ResponseInv
      <4> QED  BY <3>1, <3>2, <4>1, <4>2
    <3>5. ResponseInv'
      <4>1. socket /\ id # awaited
        BY <2>1, <2>2 DEF CallInv
      <4>2. UNCHANGED <<socket, connection, next_request_id, awaited>>
        BY <2>1, <2>2, <2>4
      <4> QED  BY <3>1, <3>2, <3>4, <4>1, <4>2 DEF ResponseInv
    <3> QED  BY <2>3, <3>3, <3>5
  <2>5. CASE PushResponse(id) # "kept"
    <3>1. PushResponse(id) \in Results /\ unanswered \in SUBSET RequestIds
      <4>1. PushResponse(id) \in {"ProtocolViolation", "PendingResponseLimit", "kept"}
        BY DEF PushResponse
      <4> QED  BY <2>5, <4>1 DEF Results, TypeOK
    <3>2. /\ step' = "ready" /\ awaited' = 0 /\ wanted' = NoMethod
          /\ result' \in Results /\ delivered' \in Event \cup {NoEvent} /\ abandoned' \in SUBSET RequestIds
      BY <2>1, <2>5, <3>1, EndKeepsCall
    <3>3. TypeOK' /\ CallInv'
      BY <2>1, <2>2, <2>5, <3>2 DEF TypeOK, CallInv, Steps, RequestIds
    <3>4. ResponseInv'
      BY <2>1, <2>2, <2>5, <3>2, ResponseFrame DEF TypeOK, RequestIds
    <3> QED  BY <2>3, <3>3, <3>4
  <2> QED  BY <2>4, <2>5
<1>3. CASE ReceiveEvent
  <2>1. PICK method \in Methods :
          LET event == [method |-> method, serial |-> arrived', connection |-> connection] IN
            IF method = wanted
            THEN End("event", event, unanswered) /\ UNCHANGED events
            ELSE PushEvent(event)
    BY <1>3 DEF ReceiveEvent
  <2> DEFINE event == [method |-> method, serial |-> arrived', connection |-> connection]
  <2>2. /\ step = "receiving" /\ socket /\ arrived' = arrived + 1 /\ arrived' \in Nat
        /\ UNCHANGED <<socket, next_request_id, pending_responses, connection, unanswered>>
    BY <1>3 DEF ReceiveEvent, TypeOK, CallInv
  <2>3. event \in Event
    BY <2>2 DEF Event, TypeOK
  <2>4. CASE UNCHANGED events /\ \E how \in Results, e \in {NoEvent, event} : End(how, e, unanswered)
    <3>1. PICK how \in Results, e \in {NoEvent, event} : End(how, e, unanswered)
      BY <2>4
    <3>2. /\ step' = "ready" /\ awaited' = 0 /\ wanted' = NoMethod
          /\ result' \in Results /\ delivered' \in Event \cup {NoEvent} /\ abandoned' \in SUBSET RequestIds
      <4>1. e \in Event \cup {NoEvent} /\ unanswered \in SUBSET RequestIds
        BY <2>3 DEF TypeOK
      <4> QED  BY <3>1, <4>1, EndKeepsCall
    <3>3. TypeOK' /\ CallInv'
      BY <2>2, <2>4, <3>2 DEF TypeOK, CallInv, Steps, RequestIds
    <3>4. QueueInv'
      <4>1. DOMAIN events = 1..Len(events) /\ Len(events) \in Nat /\ \A i \in 1..Len(events) : events[i] \in Event
        BY DEF TypeOK
      <4> QED  BY <4>1, <2>2, <2>4 DEF QueueInv, EventsInArrivalOrder, Event, TypeOK
    <3>5. ResponseInv'
      BY <2>2, <3>2, ResponseFrame DEF TypeOK, RequestIds
    <3> QED  BY <3>3, <3>4, <3>5
  <2>5. CASE /\ Len(events) < MaxEvents
             /\ events' = Append(events, event)
             /\ UNCHANGED <<step, awaited, wanted, result, delivered, abandoned>>
    <3>1. /\ events \in Seq(Event) /\ Len(events) \in Nat /\ DOMAIN events = 1..Len(events)
          /\ \A i \in 1..Len(events) : events[i] \in Event
      BY DEF TypeOK
    <3>2. /\ events' \in Seq(Event) /\ Len(events') = Len(events) + 1 /\ DOMAIN events' = 1..Len(events) + 1
          /\ \A i \in 1..Len(events) : events'[i] = events[i]
          /\ events'[Len(events) + 1] = event
      <4> HIDE DEF event
      <4> QED  BY <2>3, <2>5, <3>1
    <3>3. event.serial = arrived + 1 /\ event.connection = connection
      BY <2>2
    <3> HIDE DEF event
    <3>4. TypeOK' /\ CallInv'
      BY <2>2, <2>5, <3>2 DEF TypeOK, CallInv
    <3>5. \A i \in DOMAIN events' : events'[i].connection = connection /\ events'[i].serial <= arrived + 1
      <4>1. \A i \in 1..Len(events) :
              events[i].connection = connection /\ events[i].serial <= arrived /\ events[i].serial \in Nat
        BY <3>1 DEF QueueInv, Event
      <4> QED  BY <3>1, <3>2, <3>3, <4>1 DEF TypeOK
    <3>6. EventsInArrivalOrder'
      <4>1. \A i, j \in 1..Len(events) : i < j => events[i].serial < events[j].serial
        BY <3>1 DEF QueueInv, EventsInArrivalOrder
      <4>2. \A i \in 1..Len(events) : events[i].serial < arrived + 1
        BY <3>1 DEF QueueInv, Event, TypeOK
      <4>3. \A i, j \in DOMAIN events' : i < j => i \in 1..Len(events) /\ (j \in 1..Len(events) \/ j = Len(events) + 1)
        BY <3>1, <3>2
      <4> QED  BY <3>1, <3>2, <3>3, <4>1, <4>2, <4>3 DEF EventsInArrivalOrder
    <3>7. QueueInv'
      BY <2>2, <2>5, <3>1, <3>2, <3>5, <3>6 DEF QueueInv
    <3>8. ResponseInv'
      BY <2>2, <2>5, ResponseFrame DEF TypeOK, RequestIds
    <3> QED  BY <3>4, <3>7, <3>8
  <2>6. "event" \in Results /\ "EventLimit" \in Results /\ Len(events) \in Nat
    BY DEF Results, TypeOK
  <2>7. ~(Len(events) >= MaxEvents) => Len(events) < MaxEvents
    BY <2>6
  <2> HIDE DEF event
  <2> QED  BY <2>1, <2>4, <2>5, <2>6, <2>7 DEF PushEvent, event
<1>4. CASE ReceivePing \/ FlushDone
  <2>1. /\ step \in {"receiving", "flushing"} /\ step' \in {"receiving", "flushing"}
        /\ UNCHANGED <<state, awaited, wanted, result, delivered, history>>
    BY <1>4 DEF ReceivePing, FlushDone
  <2>2. TypeOK' /\ CallInv'
    BY <2>1 DEF TypeOK, CallInv, Steps, state, history
  <2>3. QueueInv'
    BY <2>1, QueueFrame DEF state, history
  <2>4. ResponseInv'
    BY <2>1, ResponseFrame DEF TypeOK, RequestIds, state, history
  <2> QED  BY <2>2, <2>3, <2>4
<1>5. CASE ReceiveFails
  <2>1. PICK how \in Results : End(how, NoEvent, unanswered)
    BY <1>5 DEF ReceiveFails, Results
  <2> QED  BY <1>5, <2>1, InvalidateIInv DEF ReceiveFails
<1>6. CASE ReceiveInterrupted
  <2>1. PICK how \in Results : End(how, NoEvent, unanswered)
    BY <1>6 DEF ReceiveInterrupted, Results
  <2> QED  BY <1>6, <2>1, EndIInv DEF ReceiveInterrupted
<1> QED
  BY <1>1, <1>2, <1>3, <1>4, <1>5, <1>6 DEF Receive

LEMMA ReconnectIInv == ASSUME IInv, Reconnect, UNCHANGED honest_peer PROVE IInv'
<1> USE LimitsAssumption DEF IInv
<1>1. CASE CloseAgain
  <2>1. PICK how \in Results : End(how, NoEvent, unanswered)
    BY <1>1 DEF CloseAgain, Results
  <2> QED  BY <1>1, <2>1, EndIInv DEF CloseAgain
<1>2. CASE CloseBegin \/ ReconnectBegin
  <2>1. /\ DropTransport /\ step' \in {"closing", "connecting"} /\ awaited' = 0 /\ wanted' = NoMethod
        /\ result' = "none" /\ delivered' = NoEvent /\ UNCHANGED <<next_request_id, history>>
    BY <1>2 DEF CloseBegin, ReconnectBegin, Begin
  <2>2. TypeOK' /\ CallInv'
    <3>1. socket' = FALSE /\ pending_responses' = {} /\ events' = << >> /\ events' \in Seq(Event)
      BY <2>1 DEF DropTransport
    <3>2. TypeOK'
      BY <2>1, <3>1 DEF TypeOK, Steps, Results, history
    <3> QED  BY <2>1, <3>1, <3>2 DEF TypeOK, CallInv, RequestIds, history
  <2>3. QueueInv'
    BY <2>1 DEF DropTransport, QueueInv, EventsInArrivalOrder
  <2>4. ResponseInv'
    BY <2>1, FS_EmptySet DEF DropTransport, ResponseInv
  <2> QED  BY <2>2, <2>3, <2>4
<1>3. CASE CloseEnd
  <2>1. PICK how \in Results : End(how, NoEvent, unanswered)
    BY <1>3 DEF CloseEnd, Results
  <2> QED  BY <1>3, <2>1, EndIInv DEF CloseEnd
<1>4. CASE ReconnectDone
  <2>1. /\ step = "connecting" /\ step' = "ready" /\ socket' = TRUE /\ connection' = connection + 1
        /\ unanswered' = {} /\ abandoned' = {} /\ result' = "done"
        /\ UNCHANGED <<next_request_id, events, pending_responses, awaited, wanted, delivered, arrived>>
    BY <1>4 DEF ReconnectDone
  <2>2. events = << >> /\ ~socket /\ awaited = 0
    BY <2>1 DEF CallInv
  <2>3. pending_responses = {}
    BY <2>2 DEF ResponseInv
  <2>4. TypeOK' /\ CallInv'
    <3>1. TypeOK'
      BY <2>1, <2>2, <2>3 DEF TypeOK, Steps, Results
    <3> QED  BY <2>1, <2>2, <3>1 DEF TypeOK, CallInv, RequestIds
  <2>5. QueueInv'
    BY <2>1, <2>2 DEF QueueInv, EventsInArrivalOrder
  <2>6. ResponseInv'
    BY <2>1, <2>3, FS_EmptySet DEF ResponseInv
  <2> QED  BY <2>4, <2>5, <2>6
<1>5. CASE ReconnectFails
  <2>1. PICK how \in Results : End(how, NoEvent, unanswered)
    BY <1>5 DEF ReconnectFails, Results
  <2> QED  BY <1>5, <2>1, EndIInv DEF ReconnectFails
<1> QED
  BY <1>1, <1>2, <1>3, <1>4, <1>5 DEF Reconnect

LEMMA NextIInv == IInv /\ [Next]_vars => IInv'
<1> SUFFICES ASSUME IInv, [Next]_vars PROVE IInv'
  OBVIOUS
<1>1. CASE UNCHANGED vars
  <2>1. TypeOK' /\ CallInv'
    BY <1>1 DEF IInv, TypeOK, CallInv, vars, state, call, history
  <2>2. QueueInv'
    BY <1>1, QueueFrame DEF IInv, vars, state, history
  <2>3. ResponseInv'
    BY <1>1, ResponseFrame DEF IInv, TypeOK, RequestIds, vars, state, call, history
  <2> QED  BY <2>1, <2>2, <2>3 DEF IInv
<1> QED
  BY <1>1, SendIInv, WaitIInv, ReceiveIInv, ReconnectIInv DEF Next

LEMMA InductiveInvariant == Spec => []IInv
BY InitIInv, NextIInv, PTL DEF Spec

-----------------------------------------------------------------------------

\* Every reachable state has the declared shape.
THEOREM TypeCorrect == Spec => []TypeOK
BY InductiveInvariant, PTL DEF IInv

\* No browser makes a session hold more events or replies than its limits, or
\* two replies under one id.
THEOREM BuffersStayBounded == Spec => []BuffersBounded
<1>1. IInv => BuffersBounded
  BY DEF IInv, QueueInv, ResponseInv, BuffersBounded
<1> QED  BY <1>1, InductiveInvariant, PTL

\* What is retained was read from the current connection: reconnecting, closing
\* and fatal errors never carry a reply or an event over.
THEOREM NothingCarriedOver == Spec => []RetainedFromThisConnection
<1>1. IInv => RetainedFromThisConnection
  BY DEF IInv, QueueInv, ResponseInv, RetainedFromThisConnection
<1> QED  BY <1>1, InductiveInvariant, PTL

\* No reply read before a request was sent is ever taken for its answer.
THEOREM RepliesAreFresh == Spec => []AwaitedReplyIsFresh
<1>1. IInv => AwaitedReplyIsFresh
  BY DEF IInv, ResponseInv, AwaitedReplyIsFresh
<1> QED  BY <1>1, InductiveInvariant, PTL

-----------------------------------------------------------------------------
(* Which event a caller gets. *)

\* Nothing was delivered by an operation that still runs, and no event of the
\* kind it waits for is queued.
WaitInv ==
  /\ step # "ready" => delivered = NoEvent
  /\ wanted # NoMethod => \A i \in DOMAIN events : events[i].method # wanted
  /\ step \notin {"receiving", "flushing"} => wanted = NoMethod

LEMMA InitWaitInv == Init => WaitInv
BY DEF Init, WaitInv, NoEvent

LEMMA NextWaitInv == IInv /\ WaitInv /\ [Next]_vars => WaitInv'
<1> SUFFICES ASSUME IInv, WaitInv, [Next]_vars PROVE WaitInv'
  OBVIOUS
<1> USE DEF WaitInv, state, call, history
<1>1. CASE Send
  BY <1>1 DEF Send, SendExhausted, SendRefused, SendBegin, SendDone, SendFails, SendBackpressure,
              SendInterrupted, Begin, End
<1>2. CASE Wait
  <2>1. CASE WaitForQueuedEvent \/ NextEvent
    BY <2>1 DEF WaitForQueuedEvent, NextEvent, End
  <2>2. CASE WaitForEvent
    <3>1. PICK method \in Methods :
            /\ Matching(method) = {}
            /\ IF socket THEN Begin("receiving", 0, method) ELSE End("Closed", NoEvent, unanswered)
      BY <2>2 DEF WaitForEvent
    <3>2. \A i \in DOMAIN events : events[i].method # method
      BY <3>1 DEF Matching
    <3>3. events' = events
      BY <2>2 DEF WaitForEvent
    <3> QED BY <3>1, <3>2, <3>3 DEF Begin, End
  <2> QED BY <1>2, <2>1, <2>2 DEF Wait
<1>3. CASE Receive
  <2>1. CASE ReceiveEvent
    <3>1. PICK method \in Methods :
            IF method = wanted
            THEN End("event", [method |-> method, serial |-> arrived', connection |-> connection], unanswered)
            ELSE PushEvent([method |-> method, serial |-> arrived', connection |-> connection])
      BY <2>1 DEF ReceiveEvent
    <3> DEFINE event == [method |-> method, serial |-> arrived', connection |-> connection]
    <3>2. CASE End("event", event, unanswered) \/ End("EventLimit", NoEvent, unanswered)
      BY <3>2 DEF End
    <3>3. CASE method # wanted /\ events' = Append(events, event) /\ UNCHANGED <<step, wanted, delivered>>
      <4>1. event.method # wanted
        BY <3>3
      <4> HIDE DEF event
      <4>2. events \in Seq(Event)
        BY DEF IInv, TypeOK
      <4>3. \A i \in DOMAIN events' : (i \in DOMAIN events /\ events'[i] = events[i]) \/ events'[i] = event
        BY <3>3, <4>2
      <4> QED BY <3>3, <4>1, <4>3
    <3> QED BY <3>1, <3>2, <3>3 DEF PushEvent
  <2>2. CASE ReceiveOtherReply
    BY <2>2 DEF ReceiveOtherReply, End
  <2>3. CASE ReceiveAwaitedReply \/ ReceivePing \/ FlushDone \/ ReceiveFails \/ ReceiveInterrupted
    BY <2>3 DEF ReceiveAwaitedReply, ReceivePing, FlushDone, ReceiveFails, ReceiveInterrupted, End
  <2> QED BY <1>3, <2>1, <2>2, <2>3 DEF Receive
<1>4. CASE Reconnect
  BY <1>4 DEF Reconnect, CloseAgain, CloseBegin, CloseEnd, ReconnectBegin, ReconnectDone,
              ReconnectFails, Begin, End
<1>5. CASE UNCHANGED vars
  BY <1>5 DEF vars
<1> QED BY <1>1, <1>2, <1>3, <1>4, <1>5 DEF Next

\* What is left after a removal is newer than the oldest event of its kind.
LEMMA OldestRemoved ==
  ASSUME IInv, NEW k \in DOMAIN events, events' = RemoveAt(events, k),
         \A i \in DOMAIN events : events[i].method = events[k].method => k <= i
  PROVE  \A i \in DOMAIN events' :
           events'[i].method = events[k].method => events[k].serial < events'[i].serial
<1>1. events \in Seq(Event) /\ k \in 1..Len(events) /\ DOMAIN events = 1..Len(events) /\ Len(events) \in Nat
  BY DEF IInv, TypeOK
<1>2. /\ events' \in Seq(Event)
      /\ Len(events') = Len(events) - 1
      /\ \A i \in 1..Len(events) - 1 : events'[i] = IF i < k THEN events[i] ELSE events[i + 1]
  <2> HIDE DEF IInv
  <2> QED BY <1>1, RemoveAtElements
<1>3. \A i, j \in 1..Len(events) : i < j => events[i].serial < events[j].serial
  BY <1>1 DEF IInv, QueueInv, EventsInArrivalOrder
<1> SUFFICES ASSUME NEW i \in DOMAIN events', events'[i].method = events[k].method
             PROVE  events[k].serial < events'[i].serial
  OBVIOUS
<1>4. i \in 1..Len(events) - 1
  BY <1>1, <1>2
<1>5. ~(i < k)
  <2> SUFFICES ASSUME i < k PROVE FALSE
    OBVIOUS
  <2>1. i \in DOMAIN events /\ events[i].method = events[k].method
    BY <1>1, <1>2, <1>4
  <2> QED BY <2>1, <1>1, <1>4
<1>6. events'[i] = events[i + 1] /\ i + 1 \in 1..Len(events) /\ k < i + 1
  BY <1>1, <1>2, <1>4, <1>5
<1> QED BY <1>1, <1>3, <1>6

\* An event handed to a caller is older than every event of its kind left in
\* the queue, whether it was queued or just read.
THEOREM OldestDelivered == Spec => OldestFirst
<1> DEFINE Oldest == delivered' # NoEvent =>
       \A i \in DOMAIN events' :
         events'[i].method = delivered'.method => delivered'.serial < events'[i].serial
<1>1. IInv /\ WaitInv /\ [Next]_vars => [Oldest]_vars
  <2> SUFFICES ASSUME IInv, WaitInv, Next PROVE Oldest
    OBVIOUS
  <2>1. CASE Send
    BY <2>1 DEF WaitInv, Send, SendExhausted, SendRefused, SendBegin, SendDone, SendFails, SendBackpressure,
                SendInterrupted, Begin, End
  <2>2. CASE WaitForQueuedEvent
    <3>1. PICK method \in Methods : \E index \in Matching(method) :
            /\ \A other \in Matching(method) : index <= other
            /\ events' = RemoveAt(events, index)
            /\ delivered' = events[index]
      BY <2>2 DEF WaitForQueuedEvent, End
    <3>2. PICK index \in Matching(method) :
            /\ \A other \in Matching(method) : index <= other
            /\ events' = RemoveAt(events, index)
            /\ delivered' = events[index]
      BY <3>1
    <3>3. index \in DOMAIN events /\ \A i \in DOMAIN events : events[i].method = events[index].method => index <= i
      BY <3>2 DEF Matching
    <3> QED BY <3>2, <3>3, OldestRemoved
  <2>3. CASE WaitForEvent
    BY <2>3 DEF WaitForEvent, Begin, End
  <2>4. CASE NextEvent
    <3>1. events \in Seq(Event) /\ events # << >> /\ events' = Tail(events) /\ delivered' = Head(events)
      BY <2>4 DEF NextEvent, End, IInv, TypeOK
    <3>2. 1 \in DOMAIN events /\ Head(events) = events[1] /\ Tail(events) = RemoveAt(events, 1)
      BY <3>1, TailRemovesFirst
    <3>3. \A i \in DOMAIN events : 1 <= i
      BY <3>1
    <3> QED BY <3>1, <3>2, <3>3, OldestRemoved
  <2>5. CASE ReceiveEvent
    <3>1. PICK method \in Methods :
            IF method = wanted
            THEN /\ End("event", [method |-> method, serial |-> arrived', connection |-> connection], unanswered)
                 /\ UNCHANGED events
            ELSE PushEvent([method |-> method, serial |-> arrived', connection |-> connection])
      BY <2>5 DEF ReceiveEvent
    <3>2. CASE method = wanted
      <4>1. \A i \in DOMAIN events : events[i].method # method
        BY <3>2, LimitsAssumption DEF WaitInv
      <4> QED BY <3>1, <3>2, <4>1 DEF End
    <3>3. CASE method # wanted
      BY <2>5, <3>1, <3>3 DEF ReceiveEvent, WaitInv, PushEvent, End
    <3> QED BY <3>2, <3>3
  <2>6. CASE Receive /\ ~ReceiveEvent
    BY <2>6 DEF WaitInv, Receive, ReceiveAwaitedReply, ReceiveOtherReply, ReceivePing,
                FlushDone, ReceiveFails, ReceiveInterrupted, End
  <2>7. CASE Reconnect
    BY <2>7 DEF WaitInv, Reconnect, CloseAgain, CloseBegin, CloseEnd, ReconnectBegin, ReconnectDone,
                ReconnectFails, Begin, End
  <2> QED BY <2>1, <2>2, <2>3, <2>4, <2>5, <2>6, <2>7 DEF Next, Wait
<1>2. Spec => []WaitInv
  BY InitIInv, NextIInv, InitWaitInv, NextWaitInv, PTL DEF Spec
<1> QED BY <1>1, <1>2, InductiveInvariant, PTL DEF Spec, OldestFirst
-----------------------------------------------------------------------------
(* Whose fault a full map of retained replies is. *)

LEMMA FiniteAbandoned ==
  ASSUME TypeOK
  PROVE  IsFiniteSet(abandoned) /\ Cardinality(abandoned) \in Nat
<1>1. IsFiniteSet(RequestIds)
  BY LimitsAssumption, FS_Interval DEF RequestIds
<1> QED BY <1>1, FS_Subset, FS_CardinalityType DEF TypeOK

\* More requests were abandoned than their answers are retained, when one more
\* such answer arrives.
LEMMA MoreAbandoned ==
  ASSUME IInv, OweInv, honest_peer, NEW id \in abandoned, \A r \in pending_responses : r.id # id
  PROVE  Cardinality(abandoned) > Cardinality(pending_responses)
<1> DEFINE others == abandoned \ {id}
           idOf == [r \in pending_responses |-> r.id]
<1>1. IsFiniteSet(abandoned) /\ Cardinality(abandoned) \in Nat
  BY FiniteAbandoned DEF IInv
<1>2. IsFiniteSet(others) /\ Cardinality(others) = Cardinality(abandoned) - 1
  BY <1>1, FS_RemoveElement
<1>3. \A r \in pending_responses : r.id \in others
  BY DEF OweInv
<1>4. \A r1, r2 \in pending_responses : r1.id = r2.id => r1 = r2
  BY DEF IInv, ResponseInv
<1> HIDE DEF others
<1>5. idOf \in Injection(pending_responses, others)
  <2>1. idOf \in [pending_responses -> others]
    BY <1>3
  <2>2. \A a, b \in pending_responses : idOf[a] = idOf[b] => a = b
    BY <1>4
  <2> QED BY <2>1, <2>2 DEF Injection, IsInjective
<1>6. Cardinality(pending_responses) <= Cardinality(others)
  BY <1>2, <1>5, FS_Injection
<1>7. Cardinality(pending_responses) \in Nat
  BY FS_CardinalityType DEF IInv, ResponseInv
<1> QED BY <1>1, <1>2, <1>6, <1>7

LEMMA InitOweInv == Init => OweInv
BY DEF Init, OweInv

\* An operation that ends abandons the request it waited for, and no other.
LEMMA EndOweInv ==
  ASSUME IInv, OweInv, NEW how, NEW event, NEW sent \in SUBSET RequestIds,
         End(how, event, sent), UNCHANGED honest_peer,
         honest_peer =>
           /\ unanswered' \subseteq abandoned \cup (IF how = "reply" THEN {} ELSE {awaited} \cap sent)
           /\ pending_responses' \subseteq pending_responses
           /\ \A r \in pending_responses' : r.id \notin unanswered'
           /\ how = "PendingResponseLimit" => Cardinality(abandoned) > MaxPending
  PROVE  OweInv'
<1> SUFFICES ASSUME honest_peer PROVE OweInv'
  BY DEF OweInv
<1>1. /\ abandoned' = IF how = "reply" THEN abandoned ELSE abandoned \cup ({awaited} \cap sent)
      /\ awaited' = 0 /\ step' = "ready" /\ result' = how
  BY DEF End
<1>2. abandoned \subseteq abandoned' /\ unanswered' \subseteq abandoned'
  BY <1>1
<1>3. \A r \in pending_responses' : r.id \in abandoned'
  BY <1>2 DEF OweInv
<1>4. how = "PendingResponseLimit" => Cardinality(abandoned') > MaxPending
  <2>1. abandoned' \in SUBSET RequestIds
    BY <1>1 DEF IInv, TypeOK
  <2>2. IsFiniteSet(abandoned') /\ Cardinality(abandoned') \in Nat
    <3>1. IsFiniteSet(RequestIds)
      BY LimitsAssumption, FS_Interval DEF RequestIds
    <3>2. IsFiniteSet(abandoned')
      BY <2>1, <3>1, FS_Subset
    <3> QED BY <3>2, FS_CardinalityType
  <2>3. Cardinality(abandoned) <= Cardinality(abandoned')
    BY <1>2, <2>2, FS_Subset
  <2>4. Cardinality(abandoned) \in Nat
    BY FiniteAbandoned DEF IInv
  <2> QED BY <2>2, <2>3, <2>4, LimitsAssumption
<1> QED BY <1>1, <1>2, <1>3, <1>4 DEF OweInv

\* An operation that ends without having read anything.
LEMMA EndsOweInv ==
  ASSUME IInv, OweInv, NEW how \in Results \ {"reply", "PendingResponseLimit"}, NEW event,
         End(how, event, unanswered), UNCHANGED honest_peer,
         unanswered' = unanswered, pending_responses' \subseteq pending_responses
  PROVE  OweInv'
<1>1. unanswered \in SUBSET RequestIds
  BY DEF IInv, TypeOK
<1> QED BY <1>1, EndOweInv DEF OweInv

LEMMA SendOweInv == ASSUME IInv, OweInv, Send, UNCHANGED honest_peer PROVE OweInv'
<1> USE DEF state
<1>1. CASE SendExhausted \/ SendRefused \/ SendFails \/ SendBackpressure
  <2>1. PICK how \in Results \ {"reply", "PendingResponseLimit"} : End(how, NoEvent, unanswered)
    BY <1>1 DEF SendExhausted, SendRefused, SendFails, SendBackpressure, Results
  <2>2. unanswered' = unanswered /\ pending_responses' \subseteq pending_responses
    BY <1>1 DEF SendExhausted, SendRefused, SendFails, SendBackpressure, InvalidateTransport
  <2> QED BY <2>1, <2>2, EndsOweInv
<1>2. CASE SendBegin
  <2>1. awaited = 0 /\ unanswered \subseteq RequestIds /\ 0 \notin RequestIds
    BY <1>2 DEF SendBegin, IInv, CallInv, TypeOK, RequestIds
  <2>2. UNCHANGED <<unanswered, abandoned, pending_responses>> /\ result' = "none"
    BY <1>2 DEF SendBegin, Begin
  <2> QED BY <2>1, <2>2 DEF OweInv
<1>3. CASE SendDone
  <2>1. {response \in pending_responses : response.id = awaited} = {}
    BY DEF IInv, ResponseInv
  <2>2. /\ unanswered' = unanswered \cup {awaited}
        /\ UNCHANGED <<pending_responses, awaited, result, abandoned>>
        /\ step = "sending"
    BY <1>3, <2>1 DEF SendDone
  <2>3. \A r \in pending_responses : r.id # awaited
    BY <2>1
  <2> QED BY <2>2, <2>3 DEF OweInv
<1>4. CASE SendInterrupted
  <2>1. PICK sent \in {unanswered, unanswered \cup {awaited}}, how \in {"Timeout", "dropped"} :
          unanswered' = sent /\ End(how, NoEvent, sent)
    BY <1>4 DEF SendInterrupted
  <2>2. sent \in SUBSET RequestIds
    BY <1>4, <2>1 DEF SendInterrupted, IInv, TypeOK, CallInv
  <2>3. pending_responses' = pending_responses /\ \A r \in pending_responses : r.id # awaited
    BY <1>4 DEF SendInterrupted, IInv, ResponseInv
  <2>4. honest_peer => sent \subseteq abandoned \cup ({awaited} \cap sent)
    BY <2>1 DEF OweInv
  <2>5. honest_peer => \A r \in pending_responses' : r.id \notin sent
    BY <2>1, <2>3 DEF OweInv
  <2> QED BY <2>1, <2>2, <2>3, <2>4, <2>5, EndOweInv
<1> QED BY <1>1, <1>2, <1>3, <1>4 DEF Send

LEMMA WaitOweInv == ASSUME IInv, OweInv, Wait, UNCHANGED honest_peer PROVE OweInv'
<1> USE DEF state
<1>1. unanswered' = unanswered /\ pending_responses' = pending_responses /\ step = "ready"
  BY DEF Wait, WaitForQueuedEvent, WaitForEvent, NextEvent
<1>2. CASE \E how \in {"event", "Closed"}, event \in {delivered'} : End(how, event, unanswered)
  <2>1. PICK how \in Results \ {"reply", "PendingResponseLimit"}, event \in {delivered'} : End(how, event, unanswered)
    BY <1>2 DEF Results
  <2> QED BY <2>1, <1>1, EndsOweInv
<1>3. CASE \E method \in Methods : Begin("receiving", 0, method) /\ UNCHANGED abandoned
  <2>1. awaited = 0 /\ awaited' = 0 /\ result' = "none"
    BY <1>1, <1>3 DEF Begin, IInv, CallInv
  <2> QED BY <1>1, <1>3, <2>1 DEF OweInv
<1> QED BY <1>2, <1>3 DEF Wait, WaitForQueuedEvent, WaitForEvent, NextEvent, End

LEMMA ReceiveOweInv == ASSUME IInv, OweInv, Receive, UNCHANGED honest_peer PROVE OweInv'
<1> USE DEF state
<1>1. CASE ReceiveAwaitedReply
  <2>1. unanswered' = unanswered \ {awaited} /\ pending_responses' = pending_responses /\ End("reply", NoEvent, unanswered)
    BY <1>1 DEF ReceiveAwaitedReply
  <2>2. unanswered \in SUBSET RequestIds
    BY DEF IInv, TypeOK
  <2> QED BY <2>1, <2>2, EndOweInv DEF OweInv
<1>2. CASE ReceiveOtherReply
  <2> SUFFICES ASSUME honest_peer PROVE OweInv'
    BY <1>2 DEF OweInv
  <2>1. PICK id \in unanswered \ {awaited} :
          /\ unanswered' = unanswered \ {id}
          /\ IF PushResponse(id) = "kept"
             THEN /\ pending_responses' =
                       pending_responses \cup {[id |-> id, connection |-> connection]}
                  /\ UNCHANGED <<step, awaited, wanted, result, delivered, abandoned>>
             ELSE End(PushResponse(id), NoEvent, unanswered) /\ UNCHANGED pending_responses
    BY <1>2 DEF ReceiveOtherReply, ReplyIds
  <2>2. id \in abandoned /\ unanswered \in SUBSET RequestIds
    BY <2>1 DEF OweInv, IInv, TypeOK
  <2>3. \A r \in pending_responses : r.id # id
    BY <2>1 DEF OweInv
  <2>4. CASE PushResponse(id) = "kept"
    BY <2>1, <2>2, <2>3, <2>4 DEF OweInv
  <2>5. CASE PushResponse(id) # "kept"
    <3> DEFINE how == PushResponse(id)
    <3>1. End(how, NoEvent, unanswered) /\ UNCHANGED pending_responses
      BY <2>1, <2>5
    <3>2. how # "reply"
      BY DEF PushResponse
    <3>3. how = "PendingResponseLimit" => Cardinality(abandoned) > MaxPending
      <4>1. how = "PendingResponseLimit" => Cardinality(pending_responses) >= MaxPending
        BY <2>3 DEF PushResponse
      <4>2. Cardinality(abandoned) > Cardinality(pending_responses)
        BY <2>2, <2>3, MoreAbandoned
      <4>3. Cardinality(abandoned) \in Nat /\ Cardinality(pending_responses) \in Nat
        BY FiniteAbandoned, FS_CardinalityType DEF IInv, ResponseInv
      <4> QED BY <4>1, <4>2, <4>3, LimitsAssumption
    <3> HIDE DEF how
    <3>4. unanswered' \subseteq abandoned \cup ({awaited} \cap unanswered)
      BY <2>1 DEF OweInv
    <3> QED BY <2>1, <2>2, <3>1, <3>2, <3>3, <3>4, EndOweInv DEF OweInv
  <2> QED BY <2>4, <2>5
<1>3. CASE ReceiveEvent \/ ReceiveFails \/ ReceiveInterrupted
  <2>1. unanswered' = unanswered /\ pending_responses' \subseteq pending_responses
    BY <1>3 DEF ReceiveEvent, ReceiveFails, ReceiveInterrupted, InvalidateTransport
  <2>2. CASE \E how \in Results \ {"reply", "PendingResponseLimit"}, event \in {delivered'} : End(how, event, unanswered)
    BY <2>1, <2>2, EndsOweInv
  <2>3. CASE UNCHANGED <<step, awaited, wanted, result, delivered, abandoned>>
    BY <2>1, <2>3 DEF OweInv
  <2> QED BY <1>3, <2>2, <2>3 DEF ReceiveEvent, PushEvent, ReceiveFails, ReceiveInterrupted, Results, End
<1>4. CASE ReceivePing \/ FlushDone
  <2>1. UNCHANGED <<unanswered, abandoned, awaited, pending_responses, result>> /\ step # "ready"
    BY <1>4 DEF ReceivePing, FlushDone, history
  <2> QED BY <2>1 DEF OweInv
<1> QED BY <1>1, <1>2, <1>3, <1>4 DEF Receive

LEMMA ReconnectOweInv == ASSUME IInv, OweInv, Reconnect, UNCHANGED honest_peer PROVE OweInv'
<1> USE DEF state
<1>1. CASE CloseAgain \/ CloseEnd \/ ReconnectFails
  <2>1. PICK how \in Results \ {"reply", "PendingResponseLimit"} : End(how, NoEvent, unanswered)
    BY <1>1 DEF CloseAgain, CloseEnd, ReconnectFails, Results
  <2>2. unanswered' = unanswered /\ pending_responses' = pending_responses
    BY <1>1 DEF CloseAgain, CloseEnd, ReconnectFails
  <2> QED BY <2>1, <2>2, EndsOweInv
<1>2. CASE CloseBegin \/ ReconnectBegin
  <2>1. /\ awaited = 0 /\ awaited' = 0 /\ result' = "none" /\ pending_responses' = {}
        /\ UNCHANGED <<unanswered, abandoned>>
    BY <1>2 DEF CloseBegin, ReconnectBegin, DropTransport, Begin, history, IInv, CallInv
  <2> QED BY <2>1 DEF OweInv
<1>3. CASE ReconnectDone
  <2>1. pending_responses = {}
    BY <1>3 DEF ReconnectDone, IInv, CallInv, ResponseInv
  <2>2. unanswered' = {} /\ pending_responses' = {} /\ result' = "done"
    BY <1>3, <2>1 DEF ReconnectDone
  <2> QED BY <2>2 DEF OweInv
<1> QED BY <1>1, <1>2, <1>3 DEF Reconnect

LEMMA NextOweInv == IInv /\ OweInv /\ [Next]_vars => OweInv'
<1>1. IInv /\ OweInv /\ UNCHANGED vars => OweInv'
  BY DEF OweInv, vars, state, call, history
<1> QED BY <1>1, SendOweInv, WaitOweInv, ReceiveOweInv, ReconnectOweInv DEF Next

\* Against a browser that answers each request at most once, the map of retained
\* replies is only full of answers nobody waited for: a session fails on it only
\* after more of its operations were given up than the map has places.
THEOREM LimitFollowsAbandonment == Spec => []LimitOnlyAfterAbandonment
<1>1. OweInv => LimitOnlyAfterAbandonment
  BY DEF OweInv, LimitOnlyAfterAbandonment
<1>2. Spec => []OweInv
  BY InitIInv, NextIInv, InitOweInv, NextOweInv, PTL DEF Spec
<1> QED BY <1>1, <1>2, PTL

-----------------------------------------------------------------------------
(* Which events leave the queue. *)

\* Only the removed event is missing after a removal.
LEMMA RemoveAtLosesOne ==
  ASSUME IInv, NEW k \in DOMAIN events, events' = RemoveAt(events, k), NEW event \in ToSet(events)
  PROVE  event \in ToSet(events') \/ event = events[k]
<1>1. events \in Seq(Event) /\ k \in 1..Len(events) /\ DOMAIN events = 1..Len(events) /\ Len(events) \in Nat
  BY DEF IInv, TypeOK
<1>2. /\ events' \in Seq(Event)
      /\ Len(events') = Len(events) - 1
      /\ \A i \in 1..Len(events) - 1 : events'[i] = IF i < k THEN events[i] ELSE events[i + 1]
  <2> HIDE DEF IInv
  <2> QED BY <1>1, RemoveAtElements
<1>3. DOMAIN events' = 1..Len(events) - 1
  BY <1>1, <1>2
<1>4. PICK i \in 1..Len(events) : event = events[i]
  BY <1>1 DEF ToSet
<1>5. CASE i < k
  <2>1. i \in DOMAIN events' /\ events'[i] = event
    BY <1>1, <1>2, <1>3, <1>4, <1>5
  <2> QED BY <2>1 DEF ToSet
<1>6. CASE i > k
  <2>1. i - 1 \in 1..Len(events) - 1 /\ ~(i - 1 < k) /\ (i - 1) + 1 = i
    BY <1>1, <1>6
  <2>2. i - 1 \in DOMAIN events' /\ events'[i - 1] = event
    BY <1>2, <1>3, <1>4, <2>1
  <2> QED BY <2>2 DEF ToSet
<1> QED BY <1>1, <1>4, <1>5, <1>6

\* A queued event leaves the queue by being handed to a caller, or with the
\* session: a lost transport, a full queue and an interrupted wait take none.
THEOREM EventsLeaveByDelivery == Spec => EventsKept
<1> DEFINE Kept == \A event \in ToSet(events) :
       event \in ToSet(events') \/ event = delivered' \/ step' \in {"closing", "connecting"}
<1>1. IInv /\ [Next]_vars => [Kept]_vars
  <2> SUFFICES ASSUME IInv, Next PROVE Kept
    OBVIOUS
  <2>1. CASE events' = events
    BY <2>1
  <2>2. CASE WaitForQueuedEvent
    <3>1. PICK index \in DOMAIN events : events' = RemoveAt(events, index) /\ delivered' = events[index]
      BY <2>2 DEF WaitForQueuedEvent, Matching, End
    <3> QED BY <3>1, RemoveAtLosesOne
  <2>3. CASE NextEvent
    <3>1. events \in Seq(Event) /\ events # << >> /\ events' = Tail(events) /\ delivered' = Head(events)
      BY <2>3 DEF NextEvent, End, IInv, TypeOK
    <3>2. 1 \in DOMAIN events /\ Head(events) = events[1] /\ Tail(events) = RemoveAt(events, 1)
      BY <3>1, TailRemovesFirst
    <3> QED BY <3>1, <3>2, RemoveAtLosesOne
  <2>4. CASE ReceiveEvent /\ events' # events
    <3>1. PICK event : events' = Append(events, event)
      BY <2>4 DEF ReceiveEvent, PushEvent
    <3>2. events \in Seq(Event)
      BY DEF IInv, TypeOK
    <3>3. \A i \in DOMAIN events : i \in DOMAIN events' /\ events'[i] = events[i]
      BY <3>1, <3>2
    <3> QED BY <3>3 DEF ToSet
  <2>5. CASE CloseBegin \/ ReconnectBegin
    BY <2>5 DEF CloseBegin, ReconnectBegin, Begin
  <2>6. \/ WaitForQueuedEvent \/ NextEvent \/ ReceiveEvent \/ CloseBegin \/ ReconnectBegin
        \/ events' = events
    BY DEF Next, Send, Wait, Receive, Reconnect, SendExhausted, SendRefused, SendBegin, SendDone, SendFails,
           SendBackpressure, SendInterrupted, WaitForEvent, ReceiveAwaitedReply, ReceiveOtherReply, ReceivePing,
           FlushDone, ReceiveFails, ReceiveInterrupted, CloseAgain, CloseEnd, ReconnectDone, ReconnectFails,
           InvalidateTransport, state
  <2> QED BY <2>1, <2>2, <2>3, <2>4, <2>5, <2>6
<1> QED BY <1>1, InductiveInvariant, PTL DEF Spec, EventsKept
=============================================================================
