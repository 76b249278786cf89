----------------------------- MODULE CdpSession -----------------------------
(***************************************************************************)
(* One DevTools WebSocket session: CdpSession of                           *)
(* crates/tg-network/src/cdp.rs.                                           *)
(*                                                                         *)
(* A session owns one socket, allocates request ids, and runs at most one  *)
(* operation at a time (every operation borrows it mutably).  While an     *)
(* operation waits, whatever the browser sends is correlated by id or      *)
(* queued.  A pending operation may time out or be dropped at any await.   *)
(*                                                                         *)
(* The browser is the environment: a frame may be any reply, any event,    *)
(* a ping, or something that breaks the protocol, whenever the session     *)
(* reads.  An honest one answers each request of the current connection at *)
(* most once, at any later time and in any order.                          *)
(***************************************************************************)
EXTENDS Integers, FiniteSets, SequencesExt

CONSTANTS
  MaxRequestId,   \* u64::MAX of next_request_id, scaled down
  MaxEvents,      \* CdpLimits.max_events
  MaxPending,     \* CdpLimits.max_pending_responses
  Methods,        \* what wait_for_event compares: a method and a sessionId
  NoMethod,       \* waiting for no event
  MaxConnections, \* bound: sockets opened in one behaviour
  MaxArrivals     \* bound: events received in one behaviour

ASSUME LimitsAssumption ==
  /\ MaxRequestId \in Nat \ {0}
  /\ MaxEvents \in Nat \ {0}
  /\ MaxPending \in Nat \ {0}
  /\ NoMethod \notin Methods
  /\ MaxConnections \in Nat \ {0}
  /\ MaxArrivals \in Nat

NoEvent  == [method |-> NoMethod, serial |-> 0, connection |-> 0]

VARIABLES
  socket,            \* whether the Option<Socket> is Some
  next_request_id,   \* the id the next request takes
  events,            \* queue of unsolicited events
  pending_responses, \* replies read while another id was awaited
  step,              \* where the running operation is suspended
  awaited,           \* request id the operation waits for, 0 when none
  wanted,            \* event the operation waits for, NoMethod when none
  result,            \* how the last operation ended
  delivered,         \* the event it returned, NoEvent when none
  connection,        \* history: number of the current socket
  unanswered,        \* history: requests handed to this socket, not replied to
  abandoned,         \* history: those whose operation ended without a reply
  arrived,           \* history: events received so far
  honest_peer        \* whether replies only answer requests of this connection

state   == <<socket, next_request_id, events, pending_responses>>
call    == <<step, awaited, wanted>>
history == <<connection, unanswered, abandoned, arrived>>
vars    == <<state, call, result, delivered, history, honest_peer>>

RequestIds == 1..MaxRequestId
Event      == [method : Methods, serial : Nat, connection : Nat]
Response   == [id : RequestIds, connection : Nat]
Steps      == {"ready", "sending", "receiving", "flushing", "connecting", "closing"}
Results    == {"none", "reply", "event", "done", "Timeout", "Closed", "Backpressure",
               "ProtocolViolation", "MessageTooLarge", "RequestIdExhausted",
               "EventLimit", "PendingResponseLimit", "dropped"}

Init ==
  /\ socket = TRUE
  /\ next_request_id = 1
  /\ events = << >>
  /\ pending_responses = {}
  /\ step = "ready"
  /\ awaited = 0
  /\ wanted = NoMethod
  /\ result = "none"
  /\ delivered = NoEvent
  /\ connection = 1
  /\ unanswered = {}
  /\ abandoned = {}
  /\ arrived = 0
  /\ honest_peer \in BOOLEAN

-----------------------------------------------------------------------------
(* How an operation begins and ends. *)

Begin(where, id, method) ==
  /\ step' = where
  /\ awaited' = id
  /\ wanted' = method
  /\ result' = "none"
  /\ delivered' = NoEvent

\* A request the socket has taken (the set sent) is abandoned when its
\* operation ends without a reply.
End(how, event, sent) ==
  /\ step' = "ready"
  /\ awaited' = 0
  /\ wanted' = NoMethod
  /\ result' = how
  /\ delivered' = event
  /\ abandoned' = IF how = "reply" THEN abandoned ELSE abandoned \cup ({awaited} \cap sent)

Mut_InvalidateKeepsResponses ==
  /\ socket' = FALSE
  /\ UNCHANGED <<events, pending_responses>>

\* The socket is gone, replies retained for it too; queued events stay readable.
InvalidateTransport ==
  /\ socket' = FALSE
  /\ pending_responses' = {}
  /\ UNCHANGED events

\* reconnect and close forget everything read from the old socket.
DropTransport ==
  /\ socket' = FALSE
  /\ pending_responses' = {}
  /\ events' = << >>

-----------------------------------------------------------------------------
(* Sending a command. *)

\* checked_add: the last id is never handed out.
Exhausted == next_request_id = MaxRequestId

AllocateRequestId ==
  next_request_id' = next_request_id + 1

SendExhausted ==
  /\ step = "ready"
  /\ Exhausted
  /\ End("RequestIdExhausted", NoEvent, unanswered)
  /\ UNCHANGED <<state, connection, unanswered, arrived>>

\* The id is consumed even though the message is refused: too long, or no
\* socket to write it to.
SendRefused ==
  /\ step = "ready"
  /\ ~Exhausted
  /\ \E how \in {"MessageTooLarge"} \cup (IF socket THEN {} ELSE {"Closed"}) :
       End(how, NoEvent, unanswered)
  /\ AllocateRequestId
  /\ UNCHANGED <<socket, events, pending_responses, connection, unanswered, arrived>>

SendBegin ==
  /\ step = "ready"
  /\ ~Exhausted
  /\ socket
  /\ AllocateRequestId
  /\ Begin("sending", next_request_id, NoMethod)
  /\ UNCHANGED <<socket, events, pending_responses, connection, unanswered, abandoned, arrived>>

\* Before it reads, the operation looks for its reply among those kept.
SendDone ==
  /\ step = "sending"
  /\ unanswered' = unanswered \cup {awaited}
  /\ LET kept == {response \in pending_responses : response.id = awaited} IN
       IF kept # {}
       THEN /\ pending_responses' = pending_responses \ kept
            /\ End("reply", NoEvent, unanswered)
       ELSE /\ step' = "receiving"
            /\ UNCHANGED <<pending_responses, awaited, wanted, result, delivered, abandoned>>
  /\ UNCHANGED <<socket, next_request_id, events, connection, arrived>>

\* A terminal socket error drops the transport.
SendFails ==
  /\ step \in {"sending", "flushing"}
  /\ InvalidateTransport
  /\ End("Closed", NoEvent, unanswered)
  /\ UNCHANGED <<next_request_id, connection, unanswered, arrived>>

\* A full write buffer is not terminal.
SendBackpressure ==
  /\ step \in {"sending", "flushing"}
  /\ End("Backpressure", NoEvent, unanswered)
  /\ UNCHANGED <<state, connection, unanswered, arrived>>

\* The deadline, or the caller dropping the future: the text may or may not
\* have reached the socket.  Neither touches the transport.
SendInterrupted ==
  /\ step = "sending"
  /\ \E sent \in {unanswered, unanswered \cup {awaited}}, how \in {"Timeout", "dropped"} :
       /\ unanswered' = sent
       /\ End(how, NoEvent, sent)
  /\ UNCHANGED <<state, connection, arrived>>

-----------------------------------------------------------------------------
(* Waiting for an event, or taking one. *)

Matching(method) == {i \in DOMAIN events : events[i].method = method}

\* The oldest queued match is returned at once, connected or not.
WaitForQueuedEvent ==
  /\ step = "ready"
  /\ \E method \in Methods : \E index \in Matching(method) :
       /\ \A other \in Matching(method) : index <= other
       /\ events' = RemoveAt(events, index)
       /\ End("event", events[index], unanswered)
  /\ UNCHANGED <<socket, next_request_id, pending_responses, connection, unanswered, arrived>>

Mut_WaitIgnoresQueue ==
  /\ step = "ready"
  /\ \E method \in Methods :
       IF socket
       THEN Begin("receiving", 0, method) /\ UNCHANGED abandoned
       ELSE End("Closed", NoEvent, unanswered)
  /\ UNCHANGED <<state, connection, unanswered, arrived>>

WaitForEvent ==
  /\ step = "ready"
  /\ \E method \in Methods :
       /\ Matching(method) = {}
       /\ IF socket
          THEN Begin("receiving", 0, method) /\ UNCHANGED abandoned
          ELSE End("Closed", NoEvent, unanswered)
  /\ UNCHANGED <<state, connection, unanswered, arrived>>

NextEvent ==
  /\ step = "ready"
  /\ events # << >>
  /\ events' = Tail(events)
  /\ End("event", Head(events), unanswered)
  /\ UNCHANGED <<socket, next_request_id, pending_responses, connection, unanswered, arrived>>

-----------------------------------------------------------------------------
(* Receiving: wait_for_response, wait_for_event_in_session and the loop of  *)
(* receive_incoming under both.                                            *)

\* Ids a reply may carry: with an honest peer, one it still owes.
ReplyIds == IF honest_peer THEN unanswered ELSE RequestIds

ReceiveAwaitedReply ==
  /\ step = "receiving"
  /\ awaited \in ReplyIds
  /\ unanswered' = unanswered \ {awaited}
  /\ End("reply", NoEvent, unanswered)
  /\ UNCHANGED <<state, connection, arrived>>

Mut_PushUnknownResponse(id) ==
  IF \/ \E r \in pending_responses : r.id = id
     \/ Cardinality(pending_responses) >= MaxPending
  THEN "PendingResponseLimit"
  ELSE "kept"

Mut_PushResponseOffByOne(id) ==
  IF id >= next_request_id THEN "ProtocolViolation"
  ELSE IF \/ \E r \in pending_responses : r.id = id
          \/ Cardinality(pending_responses) >= MaxPending - 1
  THEN "PendingResponseLimit"
  ELSE "kept"

\* push_response: what becomes of a reply to another request.
PushResponse(id) ==
  IF id >= next_request_id THEN "ProtocolViolation"
  ELSE IF \/ \E r \in pending_responses : r.id = id
          \/ Cardinality(pending_responses) >= MaxPending
  THEN "PendingResponseLimit"
  ELSE "kept"

\* A refused reply ends the operation with an error and is lost; the
\* transport stays up.
ReceiveOtherReply ==
  /\ step = "receiving"
  /\ \E id \in ReplyIds \ {awaited} :
       /\ unanswered' = unanswered \ {id}
       /\ IF PushResponse(id) = "kept"
          THEN /\ pending_responses' =
                    pending_responses \cup {[id |-> id, connection |-> connection]}
               /\ UNCHANGED <<step, awaited, wanted, result, delivered, abandoned>>
          ELSE /\ End(PushResponse(id), NoEvent, unanswered)
               /\ UNCHANGED pending_responses
  /\ UNCHANGED <<socket, next_request_id, events, connection, arrived>>

Mut_PushEventDropsOldest(event) ==
  /\ events' = IF Len(events) >= MaxEvents THEN Append(Tail(events), event) ELSE Append(events, event)
  /\ UNCHANGED <<step, awaited, wanted, result, delivered, abandoned>>

\* push_event: an event that finds the queue full is lost, with its operation.
PushEvent(event) ==
  IF Len(events) >= MaxEvents
  THEN End("EventLimit", NoEvent, unanswered) /\ UNCHANGED events
  ELSE /\ events' = Append(events, event)
       /\ UNCHANGED <<step, awaited, wanted, result, delivered, abandoned>>

ReceiveEvent ==
  /\ step = "receiving"
  /\ arrived < MaxArrivals
  /\ arrived' = arrived + 1
  /\ \E method \in Methods :
       LET event == [method |-> method, serial |-> arrived', connection |-> connection] IN
         IF method = wanted
         THEN End("event", event, unanswered) /\ UNCHANGED events
         ELSE PushEvent(event)
  /\ UNCHANGED <<socket, next_request_id, pending_responses, connection, unanswered>>

\* A ping or pong makes the session flush, under the operation's deadline.
ReceivePing ==
  /\ step = "receiving"
  /\ step' = "flushing"
  /\ UNCHANGED <<state, awaited, wanted, result, delivered, history>>

FlushDone ==
  /\ step = "flushing"
  /\ step' = "receiving"
  /\ UNCHANGED <<state, awaited, wanted, result, delivered, history>>

\* End of stream, a close frame or a terminal error; a binary, raw, malformed
\* or oversized message.
ReceiveFails ==
  /\ step = "receiving"
  /\ InvalidateTransport
  /\ \E how \in {"Closed", "ProtocolViolation", "MessageTooLarge"} : End(how, NoEvent, unanswered)
  /\ UNCHANGED <<next_request_id, connection, unanswered, arrived>>

Mut_TimeoutOnlyWhileReceiving ==
  /\ step = "receiving"
  /\ \E how \in {"Timeout", "dropped"} : End(how, NoEvent, unanswered)
  /\ UNCHANGED <<state, connection, unanswered, arrived>>

\* The deadline, or the caller dropping the future, leaves the transport as it is.
ReceiveInterrupted ==
  /\ step \in {"receiving", "flushing"}
  /\ \E how \in {"Timeout", "dropped"} : End(how, NoEvent, unanswered)
  /\ UNCHANGED <<state, connection, unanswered, arrived>>

-----------------------------------------------------------------------------
(* Closing and reconnecting. *)

\* Closing twice is not an error, and keeps events a lost transport left.
CloseAgain ==
  /\ step = "ready"
  /\ ~socket
  /\ End("done", NoEvent, unanswered)
  /\ UNCHANGED <<state, connection, unanswered, arrived>>

CloseBegin ==
  /\ step = "ready"
  /\ socket
  /\ DropTransport
  /\ Begin("closing", 0, NoMethod)
  /\ UNCHANGED <<next_request_id, history>>

CloseEnd ==
  /\ step = "closing"
  /\ \E how \in {"done", "Timeout", "Closed", "dropped"} : End(how, NoEvent, unanswered)
  /\ UNCHANGED <<state, connection, unanswered, arrived>>

ReconnectBegin ==
  /\ step = "ready"
  /\ connection < MaxConnections
  /\ DropTransport
  /\ Begin("connecting", 0, NoMethod)
  /\ UNCHANGED <<next_request_id, history>>

ReconnectDone ==
  /\ step = "connecting"
  /\ socket' = TRUE
  /\ connection' = connection + 1
  /\ unanswered' = {}
  /\ abandoned' = {}
  /\ step' = "ready"
  /\ result' = "done"
  /\ UNCHANGED <<next_request_id, events, pending_responses, awaited, wanted, delivered, arrived>>

ReconnectFails ==
  /\ step = "connecting"
  /\ \E how \in {"Timeout", "Closed", "dropped"} : End(how, NoEvent, unanswered)
  /\ UNCHANGED <<state, connection, unanswered, arrived>>

-----------------------------------------------------------------------------

Send      == SendExhausted \/ SendRefused \/ SendBegin \/ SendDone
               \/ SendFails \/ SendBackpressure \/ SendInterrupted
Wait      == WaitForQueuedEvent \/ WaitForEvent \/ NextEvent
Receive   == ReceiveAwaitedReply \/ ReceiveOtherReply \/ ReceiveEvent
               \/ ReceivePing \/ FlushDone \/ ReceiveFails \/ ReceiveInterrupted
Reconnect == CloseAgain \/ CloseBegin \/ CloseEnd
               \/ ReconnectBegin \/ ReconnectDone \/ ReconnectFails

\* What kind of browser it is does not change.
Next == (Send \/ Wait \/ Receive \/ Reconnect) /\ UNCHANGED honest_peer

Spec == Init /\ [][Next]_vars

\* Every await of the session is under timeout_at with a deadline fixed when
\* the operation begins, so an operation that waits is interrupted in the end.
Fairness ==
  /\ WF_vars(SendInterrupted /\ UNCHANGED honest_peer)
  /\ WF_vars(ReceiveInterrupted /\ UNCHANGED honest_peer)
  /\ WF_vars(CloseEnd /\ UNCHANGED honest_peer)
  /\ WF_vars(ReconnectFails /\ UNCHANGED honest_peer)

FairSpec == Spec /\ Fairness

-----------------------------------------------------------------------------
(* Properties. *)

\* The state has its declared shape: the one type invariant of the module.
TypeOK ==
  /\ socket \in BOOLEAN
  /\ next_request_id \in RequestIds
  /\ events \in Seq(Event)
  /\ pending_responses \in SUBSET Response
  /\ step \in Steps
  /\ awaited \in RequestIds \cup {0}
  /\ wanted \in Methods \cup {NoMethod}
  /\ result \in Results
  /\ delivered \in Event \cup {NoEvent}
  /\ connection \in Nat \ {0}
  /\ unanswered \in SUBSET RequestIds
  /\ abandoned \in SUBSET RequestIds
  /\ arrived \in Nat
  /\ honest_peer \in BOOLEAN

\* Whatever a peer sends, push_event and push_response keep both buffers
\* within CdpLimits, and no two retained replies share an id.
BuffersBounded ==
  /\ Len(events) <= MaxEvents
  /\ Cardinality(pending_responses) <= MaxPending
  /\ \A r1, r2 \in pending_responses : r1.id = r2.id => r1 = r2

\* Nothing read from a socket that reconnect, close or a fatal error replaced is
\* ever used on the next one: replies go with their socket, events with reconnect.
RetainedFromThisConnection ==
  /\ \A r \in pending_responses : socket /\ r.connection = connection
  /\ \A i \in DOMAIN events : events[i].connection = connection

\* A reply read before a request was sent can never answer it, even when the
\* browser answers ids that were not issued yet: wait_for_response takes a
\* retained reply by id alone.
AwaitedReplyIsFresh == \A r \in pending_responses : r.id # awaited

\* Against a browser that answers each request at most once, an operation fails
\* with PendingResponseLimit only after more than max_pending_responses
\* operations on the same connection gave up waiting for their own reply.
LimitOnlyAfterAbandonment ==
  honest_peer /\ result = "PendingResponseLimit" => Cardinality(abandoned) > MaxPending

\* An event handed to a caller by wait_for_event or next_event is older than
\* every event of its kind still queued, whether it was queued or just read.
OldestFirst ==
  [][delivered' # NoEvent =>
       \A i \in DOMAIN events' :
         events'[i].method = delivered'.method => delivered'.serial < events'[i].serial]_vars

\* A queued event leaves the queue only by being handed to a caller, or when the
\* session closes or reconnects: a lost transport or a full queue takes none.
EventsKept ==
  [][\A event \in ToSet(events) :
       event \in ToSet(events') \/ event = delivered' \/ step' \in {"closing", "connecting"}]_vars

\* Whatever the browser sends, pings without end included, an operation ends.
OperationEnds == step # "ready" ~> step = "ready"
=============================================================================
