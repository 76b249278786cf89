------------------------ MODULE PageNavigation_proof ------------------------
(***************************************************************************)
(* Proofs about PageNavigation, for every number of documents, relaunches  *)
(* and queued events: which load events may be on their way when a wait    *)
(* begins, and why the wait then ends with the right one.                  *)
(***************************************************************************)
EXTENDS PageNavigation, SequenceTheorems, TLAPS

Shape ==
  /\ pc \in {"navigate", "load", "select", "command", "failed"}
  /\ {requested, target, entered} \subseteq Addresses
  /\ relaunches \in 0..MaxRelaunches
  /\ events \in Seq(Event) /\ Len(events) <= MaxEvents
  /\ wire \in Seq(Event)
  /\ document \in [address : Addresses \cup {Blank}, number : 1..MaxNavigations]
  /\ awaited \in 0..MaxNavigations
  /\ answered \in 0..MaxNavigations

\* The events that a wait may still take.
Outstanding == Range(events) \cup Range(wire)

LoadsIncrease(s) ==
  \A i, j \in DOMAIN s :
    i < j /\ s[i].method = Load /\ s[j].method = Load => s[i].document < s[j].document

LoadsPrecede(s, t) ==
  \A i \in DOMAIN s, j \in DOMAIN t :
    s[i].method = Load /\ t[j].method = Load => s[i].document < t[j].document

\* Each load event is sent once, in the order of the documents, and read in that
\* order too.
InOrder == LoadsIncrease(events) /\ LoadsIncrease(wire) /\ LoadsPrecede(events, wire)

\* What is outstanding has not answered a wait.
Unanswered ==
  /\ answered <= document.number
  /\ answered = document.number => loaded
  /\ \A e \in Outstanding :
       e.method = Load => /\ answered < e.document
                          /\ e.document <= document.number
                          /\ e.document = document.number => loaded

\* Where the session is going, in terms of what the user asked for.
Aimed ==
  /\ pc \in {"navigate", "load"} => requested = entered /\ (opening => target = requested)
  /\ pc \in {"select", "command"} => target = entered /\ ~opening

\* In a browser that went nowhere by itself no load is outstanding but that of
\* the document a wait is for.
NothingStrayed ==
  ~strayed =>
    /\ pc = "navigate" /\ ~taken => loaded /\ \A e \in Outstanding : e.method # Load
    /\ (pc = "navigate" /\ taken) \/ pc = "load" =>
         /\ document.address = requested /\ awaited = document.number
         /\ \A e \in Outstanding : e.method = Load => e.document = document.number
    /\ pc \in {"select", "command"} =>
         /\ document.address = entered /\ loaded
         /\ answered = awaited /\ awaited = document.number

IInv == Shape /\ InOrder /\ Unanswered /\ Aimed /\ NothingStrayed

LEMMA InitIInv == Init => IInv
<1> SUFFICES ASSUME Init PROVE IInv
  OBVIOUS
<1> USE ConstantsAssumption DEF Init
<1>1. Range(events) = {} /\ Range(wire) = {} /\ DOMAIN events = {} /\ DOMAIN wire = {}
  BY DEF Range
<1>2. Shape
  BY DEF Shape
<1>3. InOrder
  BY <1>1 DEF InOrder, LoadsIncrease, LoadsPrecede
<1>4. Outstanding = {} /\ document.number = 1 /\ answered = 0 /\ pc = "navigate" /\ (~strayed => loaded)
  BY <1>1 DEF Outstanding
<1>5. Unanswered /\ Aimed /\ NothingStrayed
  BY <1>4 DEF Unanswered, Aimed, NothingStrayed
<1> QED BY <1>2, <1>3, <1>5 DEF IInv

-----------------------------------------------------------------------------
(* Sequences of events. *)

LEMMA Elements ==
  ASSUME NEW s \in Seq(Event)
  PROVE  /\ Len(s) \in Nat /\ DOMAIN s = 1..Len(s)
         /\ \A i \in 1..Len(s) : s[i] \in Event
         /\ Range(s) \subseteq Event
         /\ \A e \in Range(s) : \E i \in DOMAIN s : e = s[i]
         /\ \A i \in DOMAIN s : s[i] \in Range(s)
BY DEF Range

\* VecDeque::remove closes the gap: the other elements keep their order.
LEMMA RemoveAtElements ==
  ASSUME NEW S, NEW s \in Seq(S), NEW k \in 1..Len(s)
  PROVE  /\ RemoveAt(s, k) \in Seq(S)
         /\ Len(RemoveAt(s, k)) = Len(s) - 1
         /\ \A i \in 1..Len(s) - 1 :
              RemoveAt(s, k)[i] = IF i < k THEN s[i] ELSE s[i + 1]
<1> DEFINE front == SubSeq(s, 1, k - 1)
           back  == SubSeq(s, k + 1, Len(s))
<1>1. Len(s) \in Nat /\ \A i \in 1..Len(s) : s[i] \in S
  OBVIOUS
<1>2. front \in Seq(S) /\ Len(front) = k - 1 /\ \A i \in 1..k - 1 : front[i] = s[i]
  BY <1>1
<1>3. back \in Seq(S) /\ Len(back) = Len(s) - k /\ \A i \in 1..Len(s) - k : back[i] = s[k + i]
  BY <1>1
<1> HIDE DEF front, back
<1>4. front \o back \in Seq(S) /\ Len(front \o back) = Len(s) - 1
  <2>1. front \o back \in Seq(S) /\ Len(front \o back) = Len(front) + Len(back)
    BY <1>2, <1>3, ConcatProperties
  <2> QED  BY <2>1, <1>1, <1>2, <1>3
<1>5. ASSUME NEW i \in 1..Len(s) - 1
      PROVE  (front \o back)[i] = IF i < k THEN s[i] ELSE s[i + 1]
  <2>1. CASE i < k
    <3>1. i \in 1..Len(front)
      BY <2>1, <1>2, <1>1
    <3> QED  BY <3>1, <2>1, <1>2, <1>3, <1>1, ConcatProperties
  <2>2. CASE ~(i < k)
    <3>1. i > Len(front) /\ i - Len(front) \in 1..Len(s) - k /\ i \in 1..Len(front) + Len(back)
      BY <2>2, <1>2, <1>3, <1>1
    <3>2. (front \o back)[i] = back[i - Len(front)]
      BY <3>1, <1>2, <1>3, <1>1, ConcatProperties
    <3> QED  BY <3>1, <3>2, <2>2, <1>2, <1>3, <1>1
  <2> QED  BY <2>1, <2>2
<1> QED
  BY <1>4, <1>5 DEF RemoveAt, front, back

LEMMA AppendLoads ==
  ASSUME NEW s \in Seq(Event), NEW e \in Event, LoadsIncrease(s),
         e.method = Load => \A i \in DOMAIN s : s[i].method = Load => s[i].document < e.document
  PROVE  /\ Append(s, e) \in Seq(Event) /\ Len(Append(s, e)) = Len(s) + 1
         /\ Range(Append(s, e)) = Range(s) \cup {e}
         /\ LoadsIncrease(Append(s, e))
<1>1. /\ Append(s, e) \in Seq(Event) /\ Len(Append(s, e)) = Len(s) + 1 /\ Len(s) \in Nat
      /\ DOMAIN s = 1..Len(s) /\ DOMAIN Append(s, e) = 1..Len(s) + 1
      /\ \A i \in 1..Len(s) : Append(s, e)[i] = s[i]
      /\ Append(s, e)[Len(s) + 1] = e
  OBVIOUS
<1> DEFINE a == Append(s, e)
<1> HIDE DEF a
<1>2. Range(a) = Range(s) \cup {e}
  BY <1>1 DEF Range, a
<1>3. LoadsIncrease(a)
  <2> SUFFICES ASSUME NEW i \in 1..Len(s) + 1, NEW j \in 1..Len(s) + 1, i < j,
                      a[i].method = Load, a[j].method = Load
               PROVE  a[i].document < a[j].document
    BY <1>1 DEF LoadsIncrease, a
  <2>1. i \in 1..Len(s) /\ a[i] = s[i]
    BY <1>1 DEF a
  <2>2. CASE j = Len(s) + 1
    BY <2>1, <2>2, <1>1 DEF a
  <2>3. CASE j \in 1..Len(s)
    BY <2>1, <2>3, <1>1 DEF a, LoadsIncrease
  <2> QED BY <1>1, <2>2, <2>3
<1> QED BY <1>1, <1>2, <1>3 DEF a

LEMMA RemoveLoads ==
  ASSUME NEW s \in Seq(Event), NEW k \in 1..Len(s), LoadsIncrease(s)
  PROVE  /\ RemoveAt(s, k) \in Seq(Event) /\ Len(RemoveAt(s, k)) = Len(s) - 1
         /\ LoadsIncrease(RemoveAt(s, k))
         /\ \A i \in DOMAIN RemoveAt(s, k) : \E j \in DOMAIN s \ {k} : RemoveAt(s, k)[i] = s[j]
<1> DEFINE r == RemoveAt(s, k)
           Was(i) == IF i < k THEN i ELSE i + 1
<1>1. r \in Seq(Event) /\ Len(r) = Len(s) - 1 /\ \A i \in 1..Len(s) - 1 : r[i] = IF i < k THEN s[i] ELSE s[i + 1]
  BY RemoveAtElements
<1> HIDE DEF r
<1>2. Len(s) \in Nat /\ DOMAIN s = 1..Len(s) /\ DOMAIN r = 1..Len(s) - 1
  BY <1>1
<1>3. ASSUME NEW i \in 1..Len(s) - 1
      PROVE  Was(i) \in DOMAIN s \ {k} /\ r[i] = s[Was(i)]
  BY <1>1, <1>2
<1>4. \A i, j \in 1..Len(s) - 1 : i < j => Was(i) < Was(j)
  BY <1>2
<1> HIDE DEF Was
<1>5. LoadsIncrease(r)
  <2> SUFFICES ASSUME NEW i \in 1..Len(s) - 1, NEW j \in 1..Len(s) - 1, i < j,
                      r[i].method = Load, r[j].method = Load
               PROVE  r[i].document < r[j].document
    BY <1>2 DEF LoadsIncrease
  <2>1. Was(i) \in DOMAIN s /\ Was(j) \in DOMAIN s /\ Was(i) < Was(j) /\ r[i] = s[Was(i)] /\ r[j] = s[Was(j)]
    BY <1>3, <1>4
  <2> QED BY <2>1 DEF LoadsIncrease
<1>6. \A i \in DOMAIN r : \E j \in DOMAIN s \ {k} : r[i] = s[j]
  BY <1>2, <1>3
<1> QED BY <1>1, <1>5, <1>6 DEF r

\* Moving the front of one queue to the end of the other.
LEMMA MoveLoads ==
  ASSUME NEW s \in Seq(Event), NEW t \in Seq(Event), NEW n \in 0..Len(t),
         LoadsIncrease(s), LoadsIncrease(t), LoadsPrecede(s, t)
  PROVE  LET u == s \o SubSeq(t, 1, n)
             v == SubSeq(t, n + 1, Len(t))
         IN  /\ u \in Seq(Event) /\ Len(u) = Len(s) + n /\ v \in Seq(Event)
             /\ LoadsIncrease(u) /\ LoadsIncrease(v) /\ LoadsPrecede(u, v)
             /\ Range(u) \cup Range(v) \subseteq Range(s) \cup Range(t)
<1> DEFINE front == SubSeq(t, 1, n)
           u == s \o front
           v == SubSeq(t, n + 1, Len(t))
<1>1. Len(s) \in Nat /\ Len(t) \in Nat /\ n \in Nat /\ n <= Len(t) /\ DOMAIN s = 1..Len(s) /\ DOMAIN t = 1..Len(t)
  OBVIOUS
<1>2. front \in Seq(Event) /\ Len(front) = n /\ \A i \in 1..n : front[i] = t[i]
  BY <1>1
<1>3. v \in Seq(Event) /\ Len(v) = Len(t) - n /\ \A i \in 1..Len(t) - n : v[i] = t[n + i]
  <2>1. v \in Seq(Event) /\ Len(v) = Len(t) - n
    <3>1. \A i \in n + 1..Len(t) : t[i] \in Event
      BY <1>1
    <3> DEFINE m == n + 1
    <3>2. m \in Int /\ Len(t) \in Int
      BY <1>1
    <3> HIDE DEF m
    <3>3. SubSeq(t, m, Len(t)) \in Seq(Event) /\ Len(SubSeq(t, m, Len(t))) = IF m <= Len(t) THEN Len(t) - m + 1 ELSE 0
      BY <3>1, <3>2, SubSeqProperties DEF m
    <3>4. v = SubSeq(t, m, Len(t)) /\ m = n + 1
      BY DEF v, m
    <3> HIDE DEF v
    <3>5. v \in Seq(Event) /\ Len(v) = IF m <= Len(t) THEN Len(t) - m + 1 ELSE 0
      BY <3>3, <3>4, Zenon
    <3>6. m = n + 1
      BY <3>4
    <3>7. \A a \in Nat, b \in Nat : b <= a => (a < b + 1 => a - b = 0) /\ a - (b + 1) + 1 = a - b
      OBVIOUS
    <3>8. CASE m <= Len(t)
      <4>1. Len(v) = Len(t) - (n + 1) + 1
        BY <3>5, <3>6, <3>8
      <4> QED BY <4>1, <3>7, <3>5, <1>1
    <3>9. CASE ~(m <= Len(t))
      <4>1. Len(v) = 0
        BY <3>5, <3>9
      <4>2. Len(t) < n + 1
        BY <3>6, <3>9, <1>1
      <4> QED BY <4>1, <4>2, <3>7, <3>5, <1>1
    <3> QED BY <3>8, <3>9
  <2>2. \A i \in 1..Len(t) - n : v[i] = t[(n + 1) + i - 1] /\ (n + 1) + i - 1 = n + i
    BY <1>1
  <2> QED BY <2>1, <2>2
<1> HIDE DEF front, v
<1>4. u \in Seq(Event) /\ Len(u) = Len(s) + n
  BY <1>1, <1>2, ConcatProperties
<1>5. \A i \in 1..Len(s) : u[i] = s[i]
  BY <1>1, <1>2, ConcatProperties
<1>6. \A i \in Len(s) + 1..Len(s) + n : i - Len(s) \in 1..n /\ u[i] = t[i - Len(s)]
  BY <1>1, <1>2, ConcatProperties
<1> HIDE DEF u
<1>7. DOMAIN u = 1..Len(s) + n /\ DOMAIN v = 1..Len(t) - n
  BY <1>3, <1>4
<1>8. LoadsIncrease(u)
  <2> SUFFICES ASSUME NEW i \in 1..Len(s) + n, NEW j \in 1..Len(s) + n, i < j,
                      u[i].method = Load, u[j].method = Load
               PROVE  u[i].document < u[j].document
    BY <1>7 DEF LoadsIncrease
  <2>1. CASE j \in 1..Len(s)
    BY <1>1, <1>5, <2>1 DEF LoadsIncrease
  <2>2. CASE i \in 1..Len(s) /\ j \in Len(s) + 1..Len(s) + n
    BY SMTT(30), <1>1, <1>5, <1>6, <2>2 DEF LoadsPrecede
  <2>3. CASE i \in Len(s) + 1..Len(s) + n /\ j \in Len(s) + 1..Len(s) + n
    <3>1. i - Len(s) \in DOMAIN t /\ j - Len(s) \in DOMAIN t /\ i - Len(s) < j - Len(s)
      BY <1>1, <2>3
    <3>2. u[i] = t[i - Len(s)] /\ u[j] = t[j - Len(s)]
      BY <1>6, <2>3
    <3> QED BY <3>1, <3>2 DEF LoadsIncrease
  <2> QED BY <1>1, <2>1, <2>2, <2>3
<1>9. LoadsIncrease(v)
  <2> SUFFICES ASSUME NEW i \in 1..Len(t) - n, NEW j \in 1..Len(t) - n, i < j,
                      v[i].method = Load, v[j].method = Load
               PROVE  v[i].document < v[j].document
    BY <1>7 DEF LoadsIncrease
  <2>1. n + i \in DOMAIN t /\ n + j \in DOMAIN t /\ n + i < n + j /\ v[i] = t[n + i] /\ v[j] = t[n + j]
    BY <1>1, <1>3
  <2> QED BY <2>1 DEF LoadsIncrease
<1>10. LoadsPrecede(u, v)
  <2> SUFFICES ASSUME NEW i \in 1..Len(s) + n, NEW j \in 1..Len(t) - n, u[i].method = Load, v[j].method = Load
               PROVE  u[i].document < v[j].document
    BY <1>7 DEF LoadsPrecede
  <2>1. v[j] = t[n + j] /\ n + j \in DOMAIN t
    BY <1>1, <1>3
  <2>2. CASE i \in 1..Len(s)
    BY <1>1, <1>5, <2>1, <2>2 DEF LoadsPrecede
  <2>3. CASE i \in Len(s) + 1..Len(s) + n
    <3>1. i - Len(s) \in DOMAIN t /\ i - Len(s) < n + j
      BY <1>1, <2>3
    <3>2. u[i] = t[i - Len(s)]
      BY <1>6, <2>3
    <3> QED BY <2>1, <3>1, <3>2 DEF LoadsIncrease
  <2> QED BY <1>1, <2>2, <2>3
<1>11. Range(u) \subseteq Range(s) \cup Range(t)
  <2> SUFFICES ASSUME NEW i \in 1..Len(s) + n PROVE u[i] \in Range(s) \cup Range(t)
    BY <1>7 DEF Range
  <2>1. CASE i \in 1..Len(s)
    BY <1>1, <1>5, <2>1 DEF Range
  <2>2. CASE i \in Len(s) + 1..Len(s) + n
    BY SMTT(30), <1>1, <1>6, <2>2 DEF Range
  <2> QED BY <1>1, <2>1, <2>2
<1>12. Range(v) \subseteq Range(t)
  <2> SUFFICES ASSUME NEW i \in 1..Len(t) - n PROVE v[i] \in Range(t)
    BY <1>7 DEF Range
  <2>1. n + i \in DOMAIN t /\ v[i] = t[n + i]
    BY <1>1, <1>3
  <2> QED BY <2>1 DEF Range
<1> QED BY <1>3, <1>4, <1>8, <1>9, <1>10, <1>11, <1>12 DEF u, v, front

-----------------------------------------------------------------------------
(* What the steps do to the queues. *)

LEMMA SendEvent ==
  ASSUME IInv, NEW e \in Event, wire' = Append(wire, e), UNCHANGED events,
         e.method = Load => \A f \in Outstanding : f.method = Load => f.document < e.document
  PROVE  wire' \in Seq(Event) /\ InOrder' /\ Outstanding' = Outstanding \cup {e}
<1>1. events \in Seq(Event) /\ wire \in Seq(Event)
  BY DEF IInv, Shape
<1>2. LoadsIncrease(events) /\ LoadsIncrease(wire) /\ LoadsPrecede(events, wire)
  BY DEF IInv, InOrder
<1>3. /\ \A i \in DOMAIN wire : wire[i] \in Outstanding
      /\ \A i \in DOMAIN events : events[i] \in Outstanding
  BY <1>1, Elements DEF Outstanding
<1>4. /\ wire' \in Seq(Event) /\ Range(wire') = Range(wire) \cup {e} /\ LoadsIncrease(wire')
  BY <1>1, <1>2, <1>3, AppendLoads
<1>5. LoadsPrecede(events, wire')
  <2>1. \A j \in DOMAIN wire' : wire'[j] = e \/ (j \in DOMAIN wire /\ wire'[j] = wire[j])
    BY <1>1
  <2> QED BY <1>2, <1>3, <2>1 DEF LoadsPrecede
<1> QED BY <1>2, <1>4, <1>5 DEF InOrder, Outstanding

LEMMA ReadEvents ==
  ASSUME IInv, NEW count \in 0..Len(wire), ~Overflows(count),
         events' = events \o SubSeq(wire, 1, count),
         wire' = SubSeq(wire, count + 1, Len(wire))
  PROVE  /\ events' \in Seq(Event) /\ Len(events') <= MaxEvents /\ wire' \in Seq(Event)
         /\ InOrder' /\ Outstanding' \subseteq Outstanding
<1>1. events \in Seq(Event) /\ wire \in Seq(Event)
  BY DEF IInv, Shape
<1>2. LoadsIncrease(events) /\ LoadsIncrease(wire) /\ LoadsPrecede(events, wire)
  BY DEF IInv, InOrder
<1>3. /\ events' \in Seq(Event) /\ Len(events') = Len(events) + count /\ wire' \in Seq(Event)
      /\ LoadsIncrease(events') /\ LoadsIncrease(wire') /\ LoadsPrecede(events', wire')
      /\ Range(events') \cup Range(wire') \subseteq Range(events) \cup Range(wire)
  BY <1>1, <1>2, MoveLoads
<1>4. Len(events') <= MaxEvents
  BY <1>1, <1>3, ConstantsAssumption DEF Overflows
<1> QED BY <1>3, <1>4 DEF InOrder, Outstanding

\* The oldest load event in the queue leaves it.
LEMMA TakeFromQueue ==
  ASSUME IInv, NEW index \in DOMAIN events, events[index].method = Load,
         \A earlier \in 1..(index - 1) : events[earlier].method # Load,
         events' = RemoveAt(events, index), UNCHANGED wire
  PROVE  /\ events' \in Seq(Event) /\ Len(events') <= MaxEvents /\ wire' \in Seq(Event)
         /\ events[index] \in Outstanding
         /\ InOrder' /\ Outstanding' \subseteq Outstanding
         /\ \A f \in Outstanding' : f.method = Load => events[index].document < f.document
<1>1. events \in Seq(Event) /\ Len(events) <= MaxEvents /\ wire \in Seq(Event) /\ index \in 1..Len(events)
      /\ DOMAIN events = 1..Len(events) /\ Len(events) \in Nat
  BY DEF IInv, Shape
<1>2. LoadsIncrease(events) /\ LoadsIncrease(wire) /\ LoadsPrecede(events, wire)
  BY DEF IInv, InOrder
<1>3. /\ events' \in Seq(Event) /\ Len(events') = Len(events) - 1 /\ LoadsIncrease(events')
      /\ \A i \in DOMAIN events' : \E j \in DOMAIN events \ {index} : events'[i] = events[j]
  <2> DEFINE r == RemoveAt(events, index)
  <2>1. /\ r \in Seq(Event) /\ Len(r) = Len(events) - 1 /\ LoadsIncrease(r)
        /\ \A i \in DOMAIN r : \E j \in DOMAIN events \ {index} : r[i] = events[j]
    BY <1>1, <1>2, RemoveLoads
  <2>2. events' = r
    OBVIOUS
  <2> HIDE DEF r
  <2> QED BY <2>1, <2>2
<1>4. \A f \in Range(events') : \E j \in DOMAIN events \ {index} : f = events[j]
  BY <1>3 DEF Range
<1>5. LoadsPrecede(events', wire)
  BY <1>2, <1>3 DEF LoadsPrecede
<1>6. ASSUME NEW f \in Outstanding', f.method = Load PROVE events[index].document < f.document
  <2>1. CASE f \in Range(events')
    <3>1. PICK j \in DOMAIN events \ {index} : f = events[j]
      BY <1>4, <2>1
    <3>2. index < j
      BY <1>1, <1>6, <3>1
    <3> QED BY <1>2, <1>6, <3>1, <3>2 DEF LoadsIncrease
  <2>2. CASE f \in Range(wire)
    <3>1. PICK j \in DOMAIN wire : f = wire[j]
      BY <2>2 DEF Range
    <3> QED BY <1>2, <1>6, <3>1 DEF LoadsPrecede
  <2> QED BY <2>1, <2>2 DEF Outstanding
<1>7. events[index] \in Outstanding /\ Outstanding' \subseteq Outstanding
  BY <1>4 DEF Outstanding, Range
<1>8. Len(events') <= MaxEvents
  BY <1>1, <1>3, ConstantsAssumption
<1> QED BY <1>1, <1>2, <1>3, <1>5, <1>6, <1>7, <1>8 DEF InOrder

\* Without one, the load event that is read first is the oldest there is.
LEMMA TakeFromWire ==
  ASSUME IInv, \A index \in DOMAIN events : events[index].method # Load, wire # << >>,
         wire' = Tail(wire), UNCHANGED events
  PROVE  /\ wire' \in Seq(Event) /\ Head(wire) \in Event /\ Head(wire) \in Outstanding
         /\ InOrder' /\ Outstanding' \subseteq Outstanding
         /\ Head(wire).method = Load => \A f \in Outstanding' : f.method = Load => Head(wire).document < f.document
<1>1. events \in Seq(Event) /\ wire \in Seq(Event)
  BY DEF IInv, Shape
<1>2. LoadsIncrease(events) /\ LoadsIncrease(wire) /\ LoadsPrecede(events, wire)
  BY DEF IInv, InOrder
<1>3. /\ Head(wire) = wire[1] /\ 1 \in DOMAIN wire /\ Head(wire) \in Event
      /\ wire' \in Seq(Event) /\ Len(wire) \in Nat /\ DOMAIN wire = 1..Len(wire) /\ DOMAIN wire' = 1..Len(wire) - 1
      /\ \A i \in 1..Len(wire) - 1 : wire'[i] = wire[i + 1]
  BY <1>1, HeadTailProperties
<1>4. \A i \in DOMAIN wire' : i + 1 \in DOMAIN wire /\ 1 < i + 1 /\ wire'[i] = wire[i + 1]
  BY <1>3
<1>5. LoadsIncrease(wire')
  <2> SUFFICES ASSUME NEW i \in DOMAIN wire', NEW j \in DOMAIN wire', i < j,
                      wire'[i].method = Load, wire'[j].method = Load
               PROVE  wire'[i].document < wire'[j].document
    BY DEF LoadsIncrease
  <2>1. i + 1 < j + 1
    BY <1>3
  <2> QED BY <1>2, <1>4, <2>1 DEF LoadsIncrease
<1>6. LoadsPrecede(events, wire')
  BY <1>2, <1>4 DEF LoadsPrecede
<1>7. \A f \in Range(wire') : \E i \in DOMAIN wire : 1 < i /\ f = wire[i]
  BY <1>4 DEF Range
<1>8. Head(wire) \in Outstanding /\ Outstanding' \subseteq Outstanding
  BY <1>3, <1>7 DEF Outstanding, Range
<1>9. ASSUME Head(wire).method = Load, NEW f \in Outstanding', f.method = Load
      PROVE  Head(wire).document < f.document
  <2>1. f \in Range(wire')
    BY <1>9 DEF Outstanding, Range
  <2> QED BY <1>2, <1>3, <1>7, <1>9, <2>1 DEF LoadsIncrease
<1> QED BY <1>2, <1>3, <1>5, <1>6, <1>8, <1>9 DEF InOrder

-----------------------------------------------------------------------------
(* The steps. *)

\* A load event that is taken answers the wait for the document it belongs to, if
\* nothing strayed, and is newer than the last one taken.
LEMMA ArriveKeeps ==
  ASSUME IInv, pc = "load", NEW e \in Outstanding, e.method = Load, Arrive(e),
         events' \in Seq(Event) /\ Len(events') <= MaxEvents /\ wire' \in Seq(Event),
         InOrder', Outstanding' \subseteq Outstanding,
         \A f \in Outstanding' : f.method = Load => e.document < f.document
  PROVE  IInv' /\ answered < answered'
<1>1. e \in Event /\ document.number \in Nat
  BY Elements DEF IInv, Shape, Outstanding
<1>2. answered < e.document /\ e.document <= document.number /\ (e.document = document.number => loaded)
  BY DEF IInv, Unanswered
<1>3. Shape'
  BY <1>1 DEF IInv, Shape, Arrive, chrome, Event
<1>4. Unanswered'
  BY <1>2 DEF IInv, Unanswered, Arrive, chrome
<1>5. Aimed'
  BY DEF IInv, Aimed, Arrive
<1>6. NothingStrayed'
  BY <1>2 DEF IInv, NothingStrayed, Aimed, Arrive, chrome
<1> QED BY <1>2, <1>3, <1>4, <1>5, <1>6 DEF IInv, Arrive

LEMMA FailKeeps ==
  ASSUME IInv, Fail
  PROVE  IInv'
BY DEF Fail, IInv, Shape, InOrder, Unanswered, Outstanding, Aimed, NothingStrayed, chrome, history

LEMMA ReadReplyKeeps ==
  ASSUME IInv, NEW next \in {"load", "select"}, ReadReply(next),
         (pc = "navigate" /\ taken /\ next = "load") \/ (pc = "command" /\ next = "select")
  PROVE  IInv'
<1>1. PICK count \in 0..Len(wire) :
        IF Overflows(count) THEN Fail
        ELSE /\ events' = events \o SubSeq(wire, 1, count)
             /\ wire' = SubSeq(wire, count + 1, Len(wire))
             /\ pc' = next
             /\ UNCHANGED <<opening, requested, target, relaunches, chrome, history>>
  BY DEF ReadReply
<1>2. CASE Overflows(count)
  BY <1>1, <1>2, FailKeeps
<1>3. CASE ~Overflows(count)
  <2>1. /\ events' \in Seq(Event) /\ Len(events') <= MaxEvents /\ wire' \in Seq(Event)
        /\ InOrder' /\ Outstanding' \subseteq Outstanding
    BY <1>1, <1>3, ReadEvents
  <2>2. pc' = next /\ UNCHANGED <<opening, requested, target, relaunches, chrome, history>>
    BY <1>1, <1>3
  <2>3. Shape'
    BY <2>1, <2>2 DEF IInv, Shape, chrome, history
  <2>4. Unanswered'
    BY <2>1, <2>2 DEF IInv, Unanswered, chrome, history
  <2>5. Aimed' /\ NothingStrayed'
    BY <2>1, <2>2 DEF IInv, Aimed, NothingStrayed, chrome, history
  <2> QED BY <2>1, <2>3, <2>4, <2>5 DEF IInv
<1> QED BY <1>2, <1>3

LEMMA BrowserKeeps ==
  ASSUME IInv, Browser
  PROVE  IInv'
<1> USE ConstantsAssumption
<1>0. document.number \in 1..MaxNavigations /\ answered \in 0..MaxNavigations
  BY DEF IInv, Shape
<1>1. ASSUME NEW address \in Addresses, Commit(address), UNCHANGED events
      PROVE  /\ wire' \in Seq(Event) /\ InOrder' /\ Outstanding' = Outstanding \cup {Navigated(document.number + 1)}
             /\ document' \in [address : Addresses \cup {Blank}, number : 1..MaxNavigations]
             /\ document'.number = document.number + 1 /\ document'.address = address /\ loaded' = FALSE
             /\ document.number + 1 \in 1..MaxNavigations
             /\ \A e \in Outstanding' : e.method = Load => e \in Outstanding
  <2>1. Navigated(document.number + 1) \in Event /\ Navigated(document.number + 1).method # Load
    BY <1>0, <1>1 DEF Commit, Navigated, Event, Load
  <2>2. wire' \in Seq(Event) /\ InOrder' /\ Outstanding' = Outstanding \cup {Navigated(document.number + 1)}
    BY <1>1, <2>1, SendEvent DEF Commit
  <2>3. document' = [address |-> address, number |-> document.number + 1] /\ document.number < MaxNavigations
    BY <1>1 DEF Commit
  <2>4. \A e \in Outstanding' : e.method = Load => e \in Outstanding
    BY <2>1, <2>2
  <2> QED BY <1>0, <1>1, <2>2, <2>3, <2>4 DEF Commit
<1>2. ASSUME NEW address \in Addresses, Commit(address), UNCHANGED <<events, answered>>
      PROVE  Unanswered'
  <2>1. \A e \in Outstanding : e \in Event
    BY Elements DEF IInv, Shape, Outstanding
  <2>2. /\ document'.number = document.number + 1
        /\ \A e \in Outstanding' : e.method = Load => e \in Outstanding
    BY <1>1, <1>2
  <2>3. \A e \in Outstanding' : e.method = Load => answered < e.document /\ e.document < document'.number
    BY <1>0, <2>1, <2>2 DEF IInv, Unanswered, Event
  <2>4. answered < document'.number
    BY <1>0, <2>2 DEF IInv, Unanswered
  <2>5. \A e \in Outstanding' : e.method = Load => e.document \in Nat
    BY <2>1, <2>2 DEF Event
  <2> QED BY <1>0, <1>2, <2>2, <2>3, <2>4, <2>5 DEF Unanswered
<1>3. CASE Strays
  <2>1. PICK address \in Addresses : Commit(address)
    BY <1>3 DEF Strays
  <2>2. UNCHANGED <<session, events, taken, awaited, answered, entered>> /\ strayed'
    BY <1>3 DEF Strays
  <2>3. Shape'
    BY <1>1, <2>1, <2>2 DEF IInv, Shape, session
  <2>4. Aimed' /\ NothingStrayed'
    BY <2>2 DEF IInv, Aimed, NothingStrayed, session
  <2> QED BY <1>1, <1>2, <2>1, <2>2, <2>3, <2>4 DEF IInv
<1>4. CASE Navigates
  <2>1. Commit(requested) /\ requested \in Addresses
    BY <1>4 DEF Navigates, IInv, Shape
  <2>2. /\ pc = "navigate" /\ ~taken /\ taken' /\ awaited' = document.number + 1
        /\ UNCHANGED <<session, events, answered, entered, strayed>>
    BY <1>4 DEF Navigates
  <2>6. /\ wire' \in Seq(Event) /\ InOrder' /\ document.number + 1 \in 1..MaxNavigations
        /\ document' \in [address : Addresses \cup {Blank}, number : 1..MaxNavigations]
        /\ document'.number = document.number + 1 /\ document'.address = requested
        /\ \A e \in Outstanding' : e.method = Load => e \in Outstanding
    BY <1>1, <2>1, <2>2
  <2>3. Shape'
    BY <2>2, <2>6 DEF IInv, Shape, session
  <2>4. Aimed'
    BY <2>2 DEF IInv, Aimed, session
  <2>5. NothingStrayed'
    <3>1. ~strayed => \A e \in Outstanding : e.method # Load
      BY <2>2 DEF IInv, NothingStrayed
    <3>2. ~strayed => \A e \in Outstanding' : e.method # Load
      BY <2>6, <3>1
    <3> QED BY <2>2, <2>6, <3>2 DEF NothingStrayed, session
  <2> QED BY <1>2, <2>1, <2>2, <2>3, <2>4, <2>5, <2>6 DEF IInv
<1>5. CASE Loads
  <2>1. /\ ~loaded /\ loaded' /\ wire' = Append(wire, Loaded(document.number))
        /\ UNCHANGED <<session, events, document, taken, history>>
    BY <1>5 DEF Loads
  <2>2. Loaded(document.number) \in Event /\ Loaded(document.number).document = document.number
    BY <1>0 DEF Loaded, Event, Load
  <2>3. \A f \in Outstanding : f \in Event /\ (f.method = Load => f.document < document.number)
    <3>1. \A f \in Outstanding : f \in Event
      BY Elements DEF IInv, Shape, Outstanding
    <3> QED BY <1>0, <2>1, <3>1 DEF IInv, Unanswered, Event
  <2>4. wire' \in Seq(Event) /\ InOrder' /\ Outstanding' = Outstanding \cup {Loaded(document.number)}
    BY <2>1, <2>2, <2>3, SendEvent
  <2>5. Shape'
    BY <2>1, <2>4 DEF IInv, Shape, session, history
  <2>6. Unanswered'
    BY <1>0, <2>1, <2>2, <2>3, <2>4 DEF IInv, Unanswered, history
  <2>7. Aimed'
    BY <2>1 DEF IInv, Aimed, session, history
  <2>8. NothingStrayed'
    BY <2>1, <2>2, <2>4 DEF IInv, NothingStrayed, session, history
  <2> QED BY <2>4, <2>5, <2>6, <2>7, <2>8 DEF IInv
<1> QED BY <1>3, <1>4, <1>5 DEF Browser

LEMMA WaitKeeps ==
  ASSUME IInv, Wait
  PROVE  IInv' /\ (pc = "load" /\ pc' = "select" => answered < answered')
<1>1. CASE NavigateDone
  <2>1. pc = "navigate" /\ taken /\ ReadReply("load")
    BY <1>1 DEF NavigateDone
  <2>2. IInv'
    BY <2>1, ReadReplyKeeps
  <2> QED BY <2>1, <2>2
<1>2. CASE TakeQueued
  <2>1. PICK index \in DOMAIN events :
          /\ events[index].method = Load
          /\ \A earlier \in 1..(index - 1) : events[earlier].method # Load
          /\ events' = RemoveAt(events, index)
          /\ Arrive(events[index])
    BY <1>2 DEF TakeQueued
  <2>2. /\ events' \in Seq(Event) /\ Len(events') <= MaxEvents /\ wire' \in Seq(Event)
        /\ events[index] \in Outstanding /\ InOrder' /\ Outstanding' \subseteq Outstanding
        /\ \A f \in Outstanding' : f.method = Load => events[index].document < f.document
    BY <1>2, <2>1, TakeFromQueue DEF TakeQueued
  <2> QED BY <1>2, <2>1, <2>2, ArriveKeeps DEF TakeQueued
<1>3. CASE TakeArriving
  <2>1. pc = "load" /\ (\A index \in DOMAIN events : events[index].method # Load) /\ wire # << >>
    BY <1>3 DEF TakeArriving
  <2>2. CASE Head(wire).method = Load
    <3>1. Arrive(Head(wire)) /\ wire' = Tail(wire) /\ UNCHANGED events
      BY <1>3, <2>2 DEF TakeArriving
    <3>2. /\ wire' \in Seq(Event) /\ Head(wire) \in Outstanding /\ InOrder' /\ Outstanding' \subseteq Outstanding
          /\ \A f \in Outstanding' : f.method = Load => Head(wire).document < f.document
      BY <2>1, <2>2, <3>1, TakeFromWire
    <3>3. events' \in Seq(Event) /\ Len(events') <= MaxEvents
      BY <3>1 DEF IInv, Shape
    <3> QED BY <2>1, <2>2, <3>1, <3>2, <3>3, ArriveKeeps
  <2>3. CASE Head(wire).method # Load /\ Overflows(1)
    BY <1>3, <2>3, FailKeeps DEF TakeArriving, Fail
  <2>4. CASE Head(wire).method # Load /\ ~Overflows(1)
    <3>1. events' = Append(events, Head(wire)) /\ wire' = Tail(wire) /\ UNCHANGED <<session, chrome, history>>
      BY <1>3, <2>4 DEF TakeArriving
    <3>2. wire \in Seq(Event) /\ events \in Seq(Event) /\ Len(wire) \in Nat /\ 1 \in 0..Len(wire)
      BY <2>1 DEF IInv, Shape
    <3>3. events' = events \o SubSeq(wire, 1, 1) /\ wire' = SubSeq(wire, 1 + 1, Len(wire))
      BY <2>1, <3>1, <3>2, TailIsSubSeq
    <3>4. /\ events' \in Seq(Event) /\ Len(events') <= MaxEvents /\ wire' \in Seq(Event)
          /\ InOrder' /\ Outstanding' \subseteq Outstanding
      BY <2>4, <3>2, <3>3, ReadEvents
    <3>5. Shape'
      BY <3>1, <3>4 DEF IInv, Shape, session, chrome, history
    <3>6. Unanswered' /\ Aimed' /\ NothingStrayed'
      BY <3>1, <3>4 DEF IInv, Unanswered, Aimed, NothingStrayed, session, chrome, history
    <3> QED BY <2>1, <3>1, <3>4, <3>5, <3>6 DEF IInv, session
  <2> QED BY <2>2, <2>3, <2>4
<1>4. CASE OperationFails
  BY <1>4, FailKeeps DEF OperationFails, Fail
<1> QED BY <1>1, <1>2, <1>3, <1>4 DEF Wait, NavigateDone

LEMMA NextKeeps == IInv /\ [Next]_vars => IInv' /\ (pc = "load" /\ pc' = "select" => answered < answered')
<1> SUFFICES ASSUME IInv, [Next]_vars
             PROVE  IInv' /\ (pc = "load" /\ pc' = "select" => answered < answered')
  OBVIOUS
<1>1. CASE Browser
  BY <1>1, BrowserKeeps DEF Browser, Strays, Navigates, Loads, session
<1>2. CASE Wait
  BY <1>2, WaitKeeps
<1>3. CASE Submit
  <2>1. UNCHANGED <<opening, target, relaunches, events, wire, document, loaded, awaited, answered, strayed>>
        /\ pc = "select" /\ pc' = "navigate" /\ ~taken' /\ requested' = entered' /\ entered' \in Addresses
    BY <1>3 DEF Submit
  <2>2. Shape'
    BY <2>1 DEF IInv, Shape
  <2>3. InOrder' /\ Outstanding' = Outstanding /\ Unanswered'
    BY <2>1 DEF IInv, InOrder, Unanswered, Outstanding
  <2>4. Aimed'
    BY <2>1 DEF IInv, Aimed
  <2>5. NothingStrayed'
    <3> SUFFICES ASSUME ~strayed PROVE loaded /\ \A e \in Outstanding : e.method # Load
      BY <2>1, <2>3 DEF NothingStrayed
    <3>1. loaded /\ answered = document.number
      BY <2>1 DEF IInv, NothingStrayed
    <3>2. \A e \in Outstanding : e \in Event
      BY Elements DEF IInv, Shape, Outstanding
    <3>3. document.number \in Nat
      BY DEF IInv, Shape
    <3> QED BY <3>1, <3>2, <3>3 DEF IInv, Unanswered, Event
  <2> QED BY <2>1, <2>2, <2>3, <2>4, <2>5 DEF IInv
<1>4. CASE Command
  BY <1>4 DEF Command, IInv, Shape, InOrder, Unanswered, Outstanding, Aimed, NothingStrayed, chrome, history
<1>5. CASE CommandDone
  BY <1>5, ReadReplyKeeps DEF CommandDone
<1>6. CASE Recover
  <2>1. /\ pc = "select" /\ pc' = "navigate" /\ opening' /\ requested' = target /\ ~taken'
        /\ events' = << >> /\ wire' = << >> /\ strayed' = ~loaded'
        /\ document' = [address |-> Blank, number |-> document.number + 1]
        /\ document.number < MaxNavigations /\ relaunches' = relaunches + 1 /\ relaunches < MaxRelaunches
        /\ UNCHANGED <<target, awaited, answered, entered>>
    BY <1>6 DEF Recover
  <2>2. document.number \in 1..MaxNavigations /\ answered \in 0..MaxNavigations /\ answered <= document.number
    BY DEF IInv, Shape, Unanswered
  <2>3. Range(events') = {} /\ Range(wire') = {} /\ DOMAIN events' = {} /\ DOMAIN wire' = {}
    BY <2>1 DEF Range
  <2>4. Shape'
    BY <2>1, <2>2, ConstantsAssumption DEF IInv, Shape
  <2>5. InOrder' /\ Outstanding' = {}
    BY <2>3 DEF InOrder, LoadsIncrease, LoadsPrecede, Outstanding
  <2>6. Unanswered'
    BY <2>1, <2>2, <2>5 DEF Unanswered
  <2>7. Aimed' /\ NothingStrayed'
    BY <2>1, <2>5 DEF IInv, Aimed, NothingStrayed
  <2> QED BY <2>1, <2>4, <2>5, <2>6, <2>7 DEF IInv
<1>7. CASE UNCHANGED vars
  BY <1>7 DEF vars, session, chrome, history, IInv, Shape, InOrder, Unanswered, Outstanding, Aimed, NothingStrayed
<1> QED BY <1>1, <1>2, <1>3, <1>4, <1>5, <1>6, <1>7 DEF Next, CommandDone

LEMMA Inductive == Spec => []IInv
BY InitIInv, NextKeeps, PTL DEF Spec

-----------------------------------------------------------------------------

\* In a browser that went nowhere by itself the session waits for events over the
\* loaded page that the user asked for last, whatever was navigated to, queued,
\* overflowed and recovered before (navigate_to_url, recover_if_browser_exited).
THEOREM ShowsWhatWasAskedFor == Spec => []ShownIsLoaded
<1>1. IInv => ShownIsLoaded
  BY DEF IInv, NothingStrayed, ShownIsLoaded
<1> QED BY <1>1, Inductive, PTL

\* No load event ends two waits, and none ends a wait after a newer one did
\* (wait_for_event_in_session).
THEOREM LoadsAnswerInOrder == Spec => LoadsAnswerOnce
<1>1. IInv /\ [Next]_vars => [pc = "load" /\ pc' = "select" => answered < answered']_vars
  BY NextKeeps
<1> QED BY <1>1, Inductive, PTL DEF Spec, LoadsAnswerOnce
=============================================================================
