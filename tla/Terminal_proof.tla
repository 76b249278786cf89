---------------------------- MODULE Terminal_proof ----------------------------
(***************************************************************************)
(* Proofs about the four components between the terminal and the page, one *)
(* after the other: InputDecoder and InputAdapter on the way in,           *)
(* FrameSequence and TerminalTransaction on the way out.                   *)
(*                                                                         *)
(* No step of one is a step of another: each part speaks of its own        *)
(* specification only, for any limits, keys, screenshots and numbers of    *)
(* frames.  Before FrameSequence come the operators it is built from, those*)
(* of CellDiff: what a terminal shows once a difference is written, for any*)
(* two rows.                                                               *)
(***************************************************************************)
EXTENDS InputDecoder, InputAdapter, FrameSequence, TerminalTransaction,
        FiniteSetTheorems, SequenceTheorems, WellFoundedInduction, TLAPS

(***************************************************************************)
(* InputDecoder.                                                             *)
(***************************************************************************)

\* The message as the terminal sends it, and how much of it was pushed.
Wire == Bytes(message)
Read == Len(Wire) - Len(left)

\* The bytes of the message before the marker that ends a paste.
Plain == Len(Wire) - IF Pasted THEN Len(End) ELSE 0

\* What is sent is the end of the message, and nothing but.
Suffix ==
  /\ left \in Seq(Byte) /\ Len(left) <= Len(Wire)
  /\ \A i \in 1..Len(left) : left[i] = Wire[Read + i]

\* What any message is made of: the marker has the only "1", and no message begins
\* as one goes on.
WireShape ==
  /\ Wire \in Seq(Byte) /\ Plain \in 1..Len(Wire)
  /\ \A i \in 1..Plain : Wire[i] # "1"
  /\ Wire[1] \notin {"[", "~"}
  /\ Pasted => /\ Plain >= Len(Start) /\ Wire[Plain + 1] = "ESC" /\ Wire[Plain + 2] = "["
               /\ Wire[Plain + 3] = "1" /\ Wire[Plain + 4] = "~"

-----------------------------------------------------------------------------
(* The messages. *)

LEMMA StartPrefix ==
  ASSUME NEW p \in Seq(Byte)
  PROVE  IsPrefix(Start, p) <=>
           Len(p) >= 4 /\ p[1] = "ESC" /\ p[2] = "[" /\ p[3] = "0" /\ p[4] = "~"
<1>1. Len(Start) = 4 /\ Start \in Seq(Byte)
  BY DEF Start, Byte
<1>2. Start[1] = "ESC" /\ Start[2] = "[" /\ Start[3] = "0" /\ Start[4] = "~"
  BY DEF Start
<1>3. ASSUME IsPrefix(Start, p)
      PROVE  Len(p) >= 4 /\ p[1] = "ESC" /\ p[2] = "[" /\ p[3] = "0" /\ p[4] = "~"
  <2>1. Len(p) >= 4 /\ SubSeq(Start, 1, 4) = SubSeq(p, 1, 4)
    BY <1>1, <1>3 DEF IsPrefix
  <2>2. \A i \in 1..4 : SubSeq(Start, 1, 4)[i] = Start[i] /\ SubSeq(p, 1, 4)[i] = p[i]
    BY <1>1, <2>1
  <2> QED BY <1>2, <2>1, <2>2
<1>4. ASSUME Len(p) >= 4, p[1] = "ESC" /\ p[2] = "[" /\ p[3] = "0" /\ p[4] = "~"
      PROVE  IsPrefix(Start, p)
  <2>1. \A i \in 1..4 : SubSeq(Start, 1, 4)[i] = Start[i] /\ SubSeq(p, 1, 4)[i] = p[i]
    BY <1>1, <1>4
  <2>2. \A i \in 1..4 : Start[i] = p[i]
    BY <1>2, <1>4
  <2>3. SubSeq(Start, 1, 4) \in Seq(Byte) /\ SubSeq(p, 1, 4) \in Seq(Byte)
    BY SMTT(30), <1>1, <1>4, SubSeqProperties
  <2>4. Len(SubSeq(Start, 1, 4)) = 4 /\ Len(SubSeq(p, 1, 4)) = 4
    BY <1>1, <1>4
  <2>5. SubSeq(Start, 1, 4) = SubSeq(p, 1, 4)
    BY <2>1, <2>2, <2>3, <2>4, SeqEqual
  <2> QED BY <1>1, <1>4, <2>5 DEF IsPrefix
<1> QED BY <1>3, <1>4

LEMMA ReverseKeeps ==
  ASSUME NEW p \in Seq(Byte)
  PROVE  Reverse(p) \in Seq(Byte) /\ Len(Reverse(p)) = Len(p)
<1>1. Len(p) \in Nat
  OBVIOUS
<1>2. \A i \in 1..Len(p) : (Len(p) - i) + 1 \in 1..Len(p)
  BY <1>1
<1>3. \A i \in 1..Len(p) : p[(Len(p) - i) + 1] \in Byte
  BY <1>2
<1> QED BY <1>1, <1>3 DEF Reverse

LEMMA EndSuffix ==
  ASSUME NEW p \in Seq(Byte)
  PROVE  /\ IsSuffix(End, p) => Len(p) >= 4 /\ p[Len(p) - 1] = "1"
         /\ /\ Len(p) >= 4 /\ p[Len(p) - 3] = "ESC" /\ p[Len(p) - 2] = "["
            /\ p[Len(p) - 1] = "1" /\ p[Len(p)] = "~"
            => IsSuffix(End, p)
<1> DEFINE a == Reverse(End)
           b == Reverse(p)
<1>1. End \in Seq(Byte) /\ Len(End) = 4
  BY DEF End, Byte
<1>2. a \in Seq(Byte) /\ Len(a) = 4 /\ b \in Seq(Byte) /\ Len(b) = Len(p)
  BY <1>1, ReverseKeeps
<1>3. \A i \in 1..Len(p) : b[i] = p[(Len(p) - i) + 1]
  BY DEF Reverse
<1>4. a[1] = "~" /\ a[2] = "1" /\ a[3] = "[" /\ a[4] = "ESC"
  BY DEF Reverse, End
<1>5. IsSuffix(End, p) <=> 4 <= Len(p) /\ SubSeq(a, 1, 4) = SubSeq(b, 1, 4)
  BY <1>2 DEF IsSuffix, IsPrefix
<1> HIDE DEF a, b
<1>6. \A i \in 1..4 : SubSeq(a, 1, 4)[i] = a[i]
  BY <1>2
<1>7. 4 <= Len(p) => \A i \in 1..4 : SubSeq(b, 1, 4)[i] = b[i]
  BY <1>2
<1>8. ASSUME IsSuffix(End, p)
      PROVE  Len(p) >= 4 /\ p[Len(p) - 1] = "1"
  <2>1. Len(p) >= 4 /\ b[2] = "1"
    BY <1>4, <1>5, <1>6, <1>7, <1>8
  <2>2. (Len(p) - 2) + 1 = Len(p) - 1 /\ 2 \in 1..Len(p)
    BY <2>1
  <2> QED BY <1>3, <2>1, <2>2
<1>9. ASSUME Len(p) >= 4, p[Len(p) - 3] = "ESC" /\ p[Len(p) - 2] = "[",
             p[Len(p) - 1] = "1" /\ p[Len(p)] = "~"
      PROVE  IsSuffix(End, p)
  <2>1. /\ (Len(p) - 1) + 1 = Len(p) /\ (Len(p) - 2) + 1 = Len(p) - 1
        /\ (Len(p) - 3) + 1 = Len(p) - 2 /\ (Len(p) - 4) + 1 = Len(p) - 3
        /\ 1 \in 1..Len(p) /\ 2 \in 1..Len(p) /\ 3 \in 1..Len(p) /\ 4 \in 1..Len(p)
    BY <1>9
  <2>2. b[1] = "~" /\ b[2] = "1" /\ b[3] = "[" /\ b[4] = "ESC"
    BY <1>3, <1>9, <2>1
  <2>7. (\A i \in 1..4 : a[i] \in Byte) /\ (\A i \in 1..4 : b[i] \in Byte)
    <3>1. \A i \in 1..4 : i \in 1..Len(a) /\ i \in 1..Len(b)
      BY <1>2, <1>9
    <3> QED BY <1>2, <3>1, ElementOfSeq
  <2>3. SubSeq(a, 1, 4) \in Seq(Byte) /\ SubSeq(b, 1, 4) \in Seq(Byte)
    BY <2>7, SubSeqProperties
  <2>4. Len(SubSeq(a, 1, 4)) = 4 /\ Len(SubSeq(b, 1, 4)) = 4
    BY <1>2, <1>9
  <2>5. \A i \in 1..4 : SubSeq(a, 1, 4)[i] = SubSeq(b, 1, 4)[i]
    BY <1>4, <1>6, <1>7, <1>9, <2>2
  <2>6. SubSeq(a, 1, 4) = SubSeq(b, 1, 4)
    BY <2>3, <2>4, <2>5, SeqEqual
  <2> QED BY <1>5, <1>9, <2>6
<1> QED BY <1>8, <1>9

\* A paste begins and ends with its markers, and its content has no "1".
LEMMA PasteShape ==
  ASSUME message \in [kind : {"paste"}, body : PasteContents]
  PROVE  /\ Pasted /\ message.body \in Seq(Byte)
         /\ \A i \in 1..Len(message.body) : message.body[i] \notin {"1"}
         /\ Wire \in Seq(Byte) /\ Len(Wire) = Len(message.body) + 8
         /\ Wire[1] = "ESC" /\ Wire[2] = "[" /\ Wire[3] = "0" /\ Wire[4] = "~"
         /\ \A i \in 1..Len(message.body) : Wire[4 + i] = message.body[i]
         /\ \A i \in 1..4 : Wire[4 + Len(message.body) + i] = End[i]
<1> DEFINE b == message.body
<1>1. Pasted /\ b \in PasteContents /\ Wire = (Start \o b) \o End
  BY DEF Pasted, Wire, Bytes
<1>2. PICK length \in 0..MaxContent, at \in 1..MaxContent, byte \in {"x", "ESC", "[", "lead"} :
        b = [i \in 1..length |-> IF i = at THEN byte
                                 ELSE IF i = at + 1 /\ byte = "lead" THEN "cont" ELSE "x"]
  BY <1>1 DEF PasteContents
<1>3. length \in Nat
  BY LimitsAssumption
<1>4. \A i \in 1..length : b[i] \in Byte \ {"1"}
  BY <1>2 DEF Byte
<1>5. b \in Seq(Byte) /\ Len(b) = length
  <2>1. DOMAIN b = 1..length
    BY <1>2
  <2>2. b = [i \in 1..length |-> b[i]]
    BY <1>2
  <2> HIDE DEF b
  <2>3. b \in [1..length -> Byte]
    BY <1>4, <2>2
  <2>4. b \in Seq(Byte)
    BY <1>3, <2>3
  <2> QED BY <1>3, <2>1, <2>4
<1> HIDE DEF b
<1>6. Start \in Seq(Byte) /\ Len(Start) = 4 /\ End \in Seq(Byte) /\ Len(End) = 4
  BY DEF Start, End, Byte
<1>7. /\ Start \o b \in Seq(Byte) /\ Len(Start \o b) = 4 + Len(b)
      /\ \A i \in 1..(4 + Len(b)) : (Start \o b)[i] = IF i <= 4 THEN Start[i] ELSE b[i - 4]
  <2>1. /\ Start \o b \in Seq(Byte) /\ Len(Start \o b) = Len(Start) + Len(b)
        /\ \A i \in 1 .. Len(Start) + Len(b) :
             (Start \o b)[i] = IF i <= Len(Start) THEN Start[i] ELSE b[i - Len(Start)]
    <3>1. ASSUME NEW s \in Seq(Byte), NEW t \in Seq(Byte)
          PROVE  /\ s \o t \in Seq(Byte) /\ Len(s \o t) = Len(s) + Len(t)
                 /\ \A i \in 1 .. Len(s) + Len(t) :
                      (s \o t)[i] = IF i <= Len(s) THEN s[i] ELSE t[i - Len(s)]
      BY <3>1, ConcatProperties
    <3> QED BY <1>5, <1>6, <3>1
  <2> QED BY <2>1, <1>6
<1>8. /\ Wire \in Seq(Byte) /\ Len(Wire) = (4 + Len(b)) + 4
      /\ \A i \in 1..((4 + Len(b)) + 4) :
           Wire[i] = IF i <= 4 + Len(b) THEN (Start \o b)[i] ELSE End[i - (4 + Len(b))]
  BY <1>1, <1>6, <1>7, ConcatProperties
<1>9. Len(b) \in Nat
  BY <1>5
<1>10. \A i \in 1..4 : Wire[i] = Start[i]
  BY <1>7, <1>8, <1>9
<1>11. \A i \in 1..Len(b) : Wire[4 + i] = b[i]
  <2> TAKE i \in 1..Len(b)
  <2>1. 4 + i \in 1..(4 + Len(b)) /\ ~(4 + i <= 4) /\ (4 + i) - 4 = i /\ 4 + i \in 1..((4 + Len(b)) + 4)
    BY <1>9
  <2> QED BY <1>7, <1>8, <2>1
<1>12. \A i \in 1..4 : Wire[4 + Len(b) + i] = End[i]
  <2> TAKE i \in 1..4
  <2>1. /\ 4 + Len(b) + i \in 1..((4 + Len(b)) + 4) /\ ~(4 + Len(b) + i <= 4 + Len(b))
        /\ (4 + Len(b) + i) - (4 + Len(b)) = i
    BY <1>9
  <2> QED BY <1>8, <2>1
<1>13. Wire[1] = "ESC" /\ Wire[2] = "[" /\ Wire[3] = "0" /\ Wire[4] = "~"
  BY <1>10 DEF Start
<1>14. Len(Wire) = Len(b) + 8
  BY <1>8, <1>9
<1> QED BY <1>1, <1>4, <1>5, <1>8, <1>11, <1>12, <1>13, <1>14 DEF b

Short == {<<"x">>, <<"0">>, <<"ESC">>, <<"lead", "cont">>, <<"ESC", "x">>,
          <<"ESC", "lead", "cont">>, <<"ESC", "O", "A">>, <<"ESC", "[", "O">>}

Parameters(bytes) ==
  /\ bytes \in Seq(Byte) /\ Len(bytes) >= 3
  /\ bytes[1] = "ESC" /\ bytes[2] = "[" /\ bytes[Len(bytes)] = "A"
  /\ \A i \in 3..(Len(bytes) - 1) : bytes[i] = "0"

LEMMA MessageKinds ==
  ASSUME message \in Messages
  PROVE  \/ \E body \in Short : message = [kind |-> "key", body |-> body]
         \/ \E digits \in 0..MaxDigits :
              message = [kind |-> "key", body |-> <<"ESC", "[">> \o [i \in 1..digits |-> "0"] \o <<"A">>]
         \/ message \in [kind : {"paste"}, body : PasteContents]
BY DEF Messages, Short

\* A key is one of a few, or a sequence with parameters.
LEMMA KeyShape ==
  ASSUME message \in Messages, message.kind # "paste"
  PROVE  /\ ~Pasted /\ message.kind = "key" /\ Wire = message.body
         /\ Wire \in Seq(Byte) /\ Len(Wire) >= 1
         /\ Wire \in Short \/ Parameters(Wire)
         /\ message = [kind |-> "key", body |-> Wire]
<1>1. ~Pasted /\ Wire = message.body
  BY DEF Pasted, Wire, Bytes
<1>2. CASE \E body \in Short : message = [kind |-> "key", body |-> body]
  <2>1. PICK body \in Short : message = [kind |-> "key", body |-> body]
    BY <1>2
  <2>2. /\ <<"x">> \in Seq(Byte) /\ <<"0">> \in Seq(Byte) /\ <<"ESC">> \in Seq(Byte)
        /\ <<"lead", "cont">> \in Seq(Byte) /\ <<"ESC", "x">> \in Seq(Byte)
    BY DEF Byte
  <2>3. /\ <<"ESC", "lead", "cont">> \in Seq(Byte) /\ <<"ESC", "O", "A">> \in Seq(Byte)
        /\ <<"ESC", "[", "O">> \in Seq(Byte)
    BY DEF Byte
  <2>5. \/ body = <<"x">> \/ body = <<"0">> \/ body = <<"ESC">> \/ body = <<"lead", "cont">>
        \/ body = <<"ESC", "x">> \/ body = <<"ESC", "lead", "cont">>
        \/ body = <<"ESC", "O", "A">> \/ body = <<"ESC", "[", "O">>
    BY DEF Short
  <2>6. body \in Seq(Byte)
    BY <2>2, <2>3, <2>5
  <2>7. Len(body) >= 1
    BY <2>5
  <2>4. body \in Seq(Byte) /\ Len(body) >= 1
    BY <2>6, <2>7
  <2> QED BY <1>1, <2>1, <2>4
<1>3. CASE \E digits \in 0..MaxDigits :
             message = [kind |-> "key", body |-> <<"ESC", "[">> \o [i \in 1..digits |-> "0"] \o <<"A">>]
  <2>1. PICK digits \in 0..MaxDigits :
          message = [kind |-> "key", body |-> <<"ESC", "[">> \o [i \in 1..digits |-> "0"] \o <<"A">>]
    BY <1>3
  <2> DEFINE zeros == [i \in 1..digits |-> "0"]
             open  == <<"ESC", "[">>
             last  == <<"A">>
  <2>2. digits \in Nat
    BY LimitsAssumption
  <2>3. zeros \in Seq(Byte) /\ Len(zeros) = digits /\ \A i \in 1..digits : zeros[i] = "0"
    BY <2>2 DEF Byte
  <2>4. open \in Seq(Byte) /\ Len(open) = 2 /\ open[1] = "ESC" /\ open[2] = "["
    BY DEF Byte
  <2>5. last \in Seq(Byte) /\ Len(last) = 1 /\ last[1] = "A"
    BY DEF Byte
  <2>6. Wire = (open \o zeros) \o last /\ message.kind = "key" /\ message = [kind |-> "key", body |-> Wire]
    BY <1>1, <2>1
  <2> HIDE DEF zeros, open, last
  <2>7. ASSUME NEW s \in Seq(Byte), NEW t \in Seq(Byte)
        PROVE  /\ s \o t \in Seq(Byte) /\ Len(s \o t) = Len(s) + Len(t)
               /\ \A i \in 1 .. Len(s) + Len(t) :
                    (s \o t)[i] = IF i <= Len(s) THEN s[i] ELSE t[i - Len(s)]
    BY <2>7, ConcatProperties
  <2>8. /\ open \o zeros \in Seq(Byte) /\ Len(open \o zeros) = 2 + digits
        /\ \A i \in 1..(2 + digits) : (open \o zeros)[i] = IF i <= 2 THEN open[i] ELSE zeros[i - 2]
    <3>1. /\ open \o zeros \in Seq(Byte) /\ Len(open \o zeros) = Len(open) + Len(zeros)
          /\ \A i \in 1 .. Len(open) + Len(zeros) :
               (open \o zeros)[i] = IF i <= Len(open) THEN open[i] ELSE zeros[i - Len(open)]
      BY <2>3, <2>4, <2>7
    <3> QED BY <3>1, <2>3, <2>4
  <2>9. /\ Wire \in Seq(Byte) /\ Len(Wire) = (2 + digits) + 1
        /\ \A i \in 1..((2 + digits) + 1) :
             Wire[i] = IF i <= 2 + digits THEN (open \o zeros)[i] ELSE last[i - (2 + digits)]
    <3>1. /\ (open \o zeros) \o last \in Seq(Byte)
          /\ Len((open \o zeros) \o last) = Len(open \o zeros) + Len(last)
          /\ \A i \in 1 .. Len(open \o zeros) + Len(last) :
               ((open \o zeros) \o last)[i] = IF i <= Len(open \o zeros) THEN (open \o zeros)[i]
                                              ELSE last[i - Len(open \o zeros)]
      BY <2>5, <2>7, <2>8
    <3> QED BY <3>1, <2>5, <2>6, <2>8
  <2>10. Wire[1] = "ESC" /\ Wire[2] = "["
    BY SMTT(30), <2>2, <2>4, <2>8, <2>9
  <2>11. \A i \in 3..(2 + digits) : Wire[i] = "0"
    <3> TAKE i \in 3..(2 + digits)
    <3>1. i \in 1..(2 + digits) /\ i \in 1..((2 + digits) + 1) /\ ~(i <= 2) /\ i - 2 \in 1..digits
      BY <2>2
    <3> QED BY SMTT(30), <2>3, <2>8, <2>9, <3>1
  <2>12. Wire[digits + 3] = "A"
    <3>1. /\ digits + 3 \in 1..((2 + digits) + 1) /\ ~(digits + 3 <= 2 + digits)
          /\ (digits + 3) - (2 + digits) = 1
      BY <2>2
    <3> QED BY <2>5, <2>9, <3>1
  <2>13. Len(Wire) = digits + 3 /\ Len(Wire) - 1 = 2 + digits
    BY <2>2, <2>9
  <2>14. Parameters(Wire)
    BY <2>2, <2>9, <2>10, <2>11, <2>12, <2>13 DEF Parameters
  <2>15. Len(Wire) >= 1
    BY <2>2, <2>13
  <2> QED BY <1>1, <2>6, <2>9, <2>14, <2>15
<1>4. message \notin [kind : {"paste"}, body : PasteContents]
  OBVIOUS
<1> QED BY <1>2, <1>3, <1>4, MessageKinds

LEMMA MessageShape ==
  ASSUME message \in Messages
  PROVE  WireShape
<1>1. CASE message.kind = "paste"
  <2>1. message \in [kind : {"paste"}, body : PasteContents]
    <3>1. \A b : message = [kind |-> "key", body |-> b] => message.kind = "key"
      OBVIOUS
    <3> QED BY <1>1, <3>1, MessageKinds
  <2> DEFINE l == Len(message.body)
  <2>2. l \in Nat
    BY <2>1, PasteShape
  <2>3. Pasted /\ Wire \in Seq(Byte) /\ Len(Wire) = l + 8
    BY <2>1, PasteShape
  <2>4. Plain = l + 4
    BY <2>2, <2>3 DEF Plain, End
  <2>5. \A i \in 1..Plain : Wire[i] # "1"
    <3> TAKE i \in 1..Plain
    <3>1. CASE i <= 4
      BY <2>1, <2>4, <3>1, PasteShape
    <3>2. CASE i > 4
      <4>1. i - 4 \in 1..l /\ 4 + (i - 4) = i
        BY <2>2, <2>4, <3>2
      <4> QED BY <2>1, <4>1, PasteShape
    <3> QED BY <2>2, <2>4, <3>1, <3>2
  <2>6. \A i \in 1..4 : Wire[Plain + i] = End[i]
    <3>1. Plain = 4 + l
      BY <2>2, <2>4
    <3> QED BY <2>1, <3>1, PasteShape
  <2>7. Wire[1] = "ESC"
    BY <2>1, PasteShape
  <2>8. Plain \in 1..Len(Wire) /\ Plain >= 4
    BY <2>2, <2>3, <2>4
  <2> QED BY <2>3, <2>5, <2>6, <2>7, <2>8 DEF WireShape, Start, End
<1>2. CASE message.kind # "paste"
  <2>1. /\ ~Pasted /\ Wire \in Seq(Byte) /\ Len(Wire) >= 1
        /\ Wire \in Short \/ Parameters(Wire)
    BY <1>2, KeyShape
  <2>2. Plain = Len(Wire)
    BY <2>1 DEF Plain
  <2>3. ASSUME Wire \in Short
        PROVE  (\A i \in 1..Len(Wire) : Wire[i] # "1") /\ Wire[1] \notin {"[", "~"}
    BY <2>3 DEF Short
  <2>4. ASSUME Parameters(Wire)
        PROVE  (\A i \in 1..Len(Wire) : Wire[i] # "1") /\ Wire[1] \notin {"[", "~"}
    BY <2>4 DEF Parameters
  <2> QED BY <2>1, <2>2, <2>3, <2>4 DEF WireShape
<1> QED BY <1>1, <1>2

-----------------------------------------------------------------------------
(* What next_sequence_length says of a message that is read byte by byte. *)

LEMMA MinOfOne ==
  ASSUME NEW a \in Int
  PROVE  Min({a}) = a
BY DEF Min

LEMMA NextOf ==
  ASSUME NEW p \in Seq(Byte), Len(p) >= 1
  PROVE  /\ IsPrefix(Start, p) => next_sequence_length(p) = EndOfPaste(p)
         /\ p[1] # "ESC" => next_sequence_length(p) = Character(p, 1)
         /\ p[1] = "ESC" /\ Len(p) = 1 =>
              next_sequence_length(p) = IF MaxSequenceBytes = 0 THEN Fails("SequenceLimit") ELSE Incomplete
         /\ p[1] = "ESC" /\ Len(p) >= 2 /\ ~IsPrefix(Start, p) =>
              next_sequence_length(p) = IF p[2] = "[" THEN EndOfCsi(p)
                                        ELSE IF p[2] = "O" THEN Fixed(p, 3)
                                        ELSE Character(p, 2)
<1>1. p # << >>
  OBVIOUS
<1>2. p[1] # "ESC" => ~IsPrefix(Start, p)
  BY StartPrefix
<1>3. Len(p) = 1 => ~IsPrefix(Start, p)
  BY StartPrefix
<1>4. p[1] = "ESC" /\ Len(p) = 1 => p = <<"ESC">>
  <2> SUFFICES ASSUME p[1] = "ESC", Len(p) = 1 PROVE p = <<"ESC">>
    OBVIOUS
  <2>1. <<"ESC">> \in Seq(Byte) /\ Len(<<"ESC">>) = 1 /\ <<"ESC">>[1] = "ESC"
    BY DEF Byte
  <2>2. \A i \in 1..Len(p) : p[i] = <<"ESC">>[i]
    BY <2>1
  <2> QED BY <2>1, <2>2, SeqEqual
<1>5. Len(p) >= 2 => p # <<"ESC">>
  <2> SUFFICES ASSUME Len(p) >= 2, p = <<"ESC">> PROVE FALSE
    OBVIOUS
  <2>1. Len(p) = 1
    OBVIOUS
  <2> QED BY <2>1
<1> QED BY <1>1, <1>2, <1>3, <1>4, <1>5 DEF next_sequence_length

LEMMA CsiOf ==
  ASSUME NEW p \in Seq(Byte), Len(p) >= 2
  PROVE  /\ (\A i \in 3..Len(p) : p[i] \notin Final) =>
              EndOfCsi(p) = IF Len(p) > MaxSequenceBytes THEN Fails("SequenceLimit") ELSE Incomplete
         /\ (Len(p) >= 3 /\ p[Len(p)] \in Final /\ \A i \in 3..(Len(p) - 1) : p[i] \notin Final) =>
              EndOfCsi(p) = IF Len(p) > MaxSequenceBytes THEN Fails("SequenceLimit") ELSE Complete(Len(p))
<1> DEFINE finals == {i \in 3..Len(p) : p[i] \in Final}
<1>1. EndOfCsi(p) =
        LET overlong == (IF finals # {} THEN Min(finals) ELSE Len(p)) > MaxSequenceBytes
        IN CASE overlong                 -> Fails("SequenceLimit")
             [] ~overlong /\ finals # {} -> Complete(Min(finals))
             [] OTHER                    -> Incomplete
  BY DEF EndOfCsi
<1>2. Len(p) \in Nat
  OBVIOUS
<1>3. ASSUME \A i \in 3..Len(p) : p[i] \notin Final
      PROVE  finals = {}
  BY <1>3
<1>4. ASSUME Len(p) >= 3, p[Len(p)] \in Final, \A i \in 3..(Len(p) - 1) : p[i] \notin Final
      PROVE  finals = {Len(p)} /\ Min(finals) = Len(p)
  <2>1. finals = {Len(p)}
    BY <1>2, <1>4
  <2> QED BY <1>2, <2>1, MinOfOne
<1> HIDE DEF finals
<1> QED BY <1>1, <1>3, <1>4

\* The bytes of the message up to k.
Prefix(p, k) == p \in Seq(Byte) /\ Len(p) = k /\ \A i \in 1..k : p[i] = Wire[i]

LEMMA PrefixWhole ==
  ASSUME WireShape, NEW p, Prefix(p, Len(Wire))
  PROVE  p = Wire
BY SeqEqual DEF WireShape, Prefix

\* EndLost, but for the escape key that is not finished.
Lost ==
  \/ ~Pasted /\ Len(message.body) > MaxSequenceBytes + 1
  \/ ~Pasted /\ Len(message.body) > MaxSequenceBytes /\ message.body \in Foretold
  \/ Pasted /\ Len(Start) > MaxSequenceBytes + 1
  \/ Pasted /\ Len(message.body) - MaxPaste \in 2..Len(End)

\* A prefix goes on, or is the message and gives its outcome, or is as much of a
\* paste as the limit allows.
Answered(p, k) ==
  LET next == next_sequence_length(p) IN
  \/ /\ next = Incomplete
     /\ k < Len(Wire) \/ (message = Escape /\ MaxSequenceBytes # 0)
     /\ Pasted => k <= MaxPaste + 8
  \/ k = Len(Wire) /\ next = Complete(k) /\ decode_input(p) = Outcome
  \/ /\ k = Len(Wire)
     /\ \E error \in {"SequenceLimit", "PasteLimit"} :
          /\ next = Fails(error) /\ Outcome = Error(error)
          /\ error = "PasteLimit" => IsSuffix(End, p)
  \/ /\ Pasted /\ k <= Plain /\ ~IsSuffix(End, p)
     /\ next = Fails("PasteLimit") /\ Outcome = Error("PasteLimit")

LEMMA KeyDecoded ==
  ASSUME message \in Messages, ~Pasted, ~IsPrefix(Start, Wire), Len(Wire) <= MaxSequenceBytes
  PROVE  decode_input(Wire) = Outcome
<1>1. Wire = message.body /\ message = [kind |-> "key", body |-> Wire] /\ Wire \in Seq(Byte)
  BY KeyShape DEF Pasted
<1>2. ~(Len(message.body) > MaxSequenceBytes)
  BY <1>1, LimitsAssumption
<1> QED BY <1>1, <1>2 DEF decode_input, Outcome

LEMMA KeyRefused ==
  ASSUME message \in Messages, ~Pasted, Len(Wire) > MaxSequenceBytes
  PROVE  Outcome = Error("SequenceLimit")
<1>1. Wire = message.body
  BY KeyShape DEF Pasted
<1> QED BY <1>1 DEF Outcome

LEMMA EndOfPasteOf ==
  ASSUME NEW p \in Seq(Byte), Len(p) >= 4
  PROVE  /\ (\A i \in 5..(Len(p) - 3) : p[i + 2] # "1") =>
              EndOfPaste(p) = IF Len(p) > MaxPaste + 8 THEN Fails("PasteLimit") ELSE Incomplete
         /\ /\ Len(p) >= 8 /\ p[Len(p) - 3] = "ESC" /\ p[Len(p) - 2] = "["
            /\ p[Len(p) - 1] = "1" /\ p[Len(p)] = "~"
            /\ \A i \in 5..(Len(p) - 4) : p[i + 2] # "1"
            => EndOfPaste(p) = IF Len(p) - 8 > MaxPaste THEN Fails("PasteLimit") ELSE Complete(Len(p))
<1> DEFINE ends == {i \in 5..(Len(p) - 3) : SubSeq(p, i, i + 3) = End}
<1>1. EndOfPaste(p) =
        LET overlong == IF ends # {} THEN Min(ends) - Len(Start) - 1 > MaxPaste
                        ELSE Len(p) > MaxPaste + Len(Start) + Len(End)
        IN CASE overlong                 -> Fails("PasteLimit")
             [] ~overlong /\ ends # {}   -> Complete(Min(ends) + Len(End) - 1)
             [] OTHER                    -> Incomplete
  <2>1. Len(Start) = 4 /\ Len(End) = 4
    BY DEF Start, End
  <2>2. Len(p) \in Nat
    OBVIOUS
  <2>3. Len(Start) + 1 .. Len(p) - Len(End) + 1 = 5..(Len(p) - 3)
    BY <2>1, <2>2
  <2>4. \A i \in 5..(Len(p) - 3) : i + Len(End) - 1 = i + 3
    BY <2>1, <2>2
  <2>5. {i \in Len(Start) + 1 .. Len(p) - Len(End) + 1 : SubSeq(p, i, i + Len(End) - 1) = End} = ends
    BY <2>3, <2>4
  <2> HIDE DEF ends
  <2> QED BY <2>5 DEF EndOfPaste
<1>2. Len(p) \in Nat
  OBVIOUS
<1>3. End[1] = "ESC" /\ End[2] = "[" /\ End[3] = "1" /\ End[4] = "~" /\ Len(End) = 4 /\ End \in Seq(Byte)
  BY DEF End, Byte
<1>4. \A i \in 5..(Len(p) - 3) :
         /\ SubSeq(p, i, i + 3) \in Seq(Byte) /\ Len(SubSeq(p, i, i + 3)) = 4
         /\ SubSeq(p, i, i + 3)[1] = p[i] /\ SubSeq(p, i, i + 3)[2] = p[i + 1]
         /\ SubSeq(p, i, i + 3)[3] = p[i + 2] /\ SubSeq(p, i, i + 3)[4] = p[i + 3]
  <2> TAKE i \in 5..(Len(p) - 3)
  <2>1. \A j \in i..(i + 3) : p[j] \in Byte
    <3> TAKE j \in i..(i + 3)
    <3>1. j \in 1..Len(p)
      BY <1>2
    <3> QED BY <3>1
  <2>2. i \in Int /\ i + 3 \in Int /\ (i + 3) - i + 1 = 4 /\ i <= i + 3
    OBVIOUS
  <2>3. /\ SubSeq(p, i, i + 3) \in Seq(Byte) /\ Len(SubSeq(p, i, i + 3)) = 4
        /\ \A j \in 1..4 : SubSeq(p, i, i + 3)[j] = p[i + j - 1]
    BY <2>1, <2>2, SubSeqProperties
  <2>4. i + 1 - 1 = i /\ i + 2 - 1 = i + 1 /\ i + 3 - 1 = i + 2 /\ i + 4 - 1 = i + 3
    OBVIOUS
  <2> QED BY <2>3, <2>4
<1>5. ASSUME \A i \in 5..(Len(p) - 3) : p[i + 2] # "1"
      PROVE  ends = {}
  BY ZenonT(40), <1>3, <1>4, <1>5
<1>6. ASSUME Len(p) >= 8, p[Len(p) - 3] = "ESC" /\ p[Len(p) - 2] = "[",
             p[Len(p) - 1] = "1" /\ p[Len(p)] = "~",
             \A i \in 5..(Len(p) - 4) : p[i + 2] # "1"
      PROVE  ends = {Len(p) - 3} /\ Min(ends) = Len(p) - 3
  <2>1. \A i \in 5..(Len(p) - 4) : SubSeq(p, i, i + 3) # End
    <3> TAKE i \in 5..(Len(p) - 4)
    <3>1. i \in 5..(Len(p) - 3)
      BY <1>2
    <3> QED BY <1>3, <1>4, <1>6, <3>1
  <2>2. SubSeq(p, Len(p) - 3, (Len(p) - 3) + 3) = End
    <3> DEFINE i == Len(p) - 3
    <3>1. i \in 5..(Len(p) - 3) /\ i + 1 = Len(p) - 2 /\ i + 2 = Len(p) - 1 /\ i + 3 = Len(p)
      BY <1>2, <1>6
    <3> HIDE DEF i
    <3>2. /\ SubSeq(p, i, i + 3)[1] = End[1] /\ SubSeq(p, i, i + 3)[2] = End[2]
          /\ SubSeq(p, i, i + 3)[3] = End[3] /\ SubSeq(p, i, i + 3)[4] = End[4]
      BY <1>3, <1>4, <1>6, <3>1 DEF i
    <3>3. ASSUME NEW s, s[1] = End[1] /\ s[2] = End[2] /\ s[3] = End[3] /\ s[4] = End[4]
          PROVE  \A j \in 1..4 : s[j] = End[j]
      BY <3>3
    <3>5. \A j \in 1..4 : SubSeq(p, i, i + 3)[j] = End[j]
      BY <3>2, <3>3
    <3>4. SubSeq(p, i, i + 3) = End
      BY <1>3, <1>4, <3>1, <3>5, SeqEqual
    <3> QED BY <3>4 DEF i
  <2>3. ends = {Len(p) - 3}
    <3>1. Len(p) - 3 \in ends
      BY <1>2, <1>6, <2>2
    <3>2. ASSUME NEW i \in ends
          PROVE  i = Len(p) - 3
      <4>1. i \in 5..(Len(p) - 3) /\ SubSeq(p, i, i + 3) = End
        OBVIOUS
      <4>2. i \in 5..(Len(p) - 4) \/ i = Len(p) - 3
        BY <1>2, <4>1
      <4> QED BY <2>1, <4>1, <4>2
    <3> HIDE DEF ends
    <3> QED BY <3>1, <3>2
  <2>4. Len(p) - 3 \in Int
    BY <1>2
  <2>5. Min({Len(p) - 3}) = Len(p) - 3
    BY <2>4, MinOfOne
  <2> HIDE DEF ends
  <2> QED BY <2>3, <2>5
<1> HIDE DEF ends
<1>7. ASSUME ends = {}
      PROVE  EndOfPaste(p) = IF Len(p) > MaxPaste + 8 THEN Fails("PasteLimit") ELSE Incomplete
  <2>1. MaxPaste + Len(Start) + Len(End) = MaxPaste + 8
    BY <1>3, LimitsAssumption DEF Start
  <2> QED BY <1>1, <1>7, <2>1
<1>8. ASSUME ends # {}, Min(ends) = Len(p) - 3
      PROVE  EndOfPaste(p) = IF Len(p) - 8 > MaxPaste THEN Fails("PasteLimit") ELSE Complete(Len(p))
  <2>1. (Len(p) - 3) - Len(Start) - 1 = Len(p) - 8 /\ (Len(p) - 3) + Len(End) - 1 = Len(p)
    BY <1>2, <1>3 DEF Start
  <2> QED BY <1>1, <1>8, <2>1
<1> QED BY <1>5, <1>6, <1>7, <1>8

\* A paste, up to the byte at which the limit refuses it.
LEMMA PasteAnswered ==
  ASSUME message \in Messages, Pasted, ~Lost,
         NEW k \in 1..Len(Wire), k <= MaxPaste + 9, NEW p, Prefix(p, k)
  PROVE  Answered(p, k)
<1> DEFINE l == Len(message.body)
<1>1. message \in [kind : {"paste"}, body : PasteContents]
  <2>1. \A b : message = [kind |-> "key", body |-> b] => message.kind = "key"
    OBVIOUS
  <2> QED BY <2>1, MessageKinds DEF Pasted
<1>2. /\ message.body \in Seq(Byte) /\ Wire \in Seq(Byte) /\ Len(Wire) = l + 8
      /\ Wire[1] = "ESC" /\ Wire[2] = "[" /\ Wire[3] = "0" /\ Wire[4] = "~"
      /\ \A i \in 1..l : Wire[4 + i] = message.body[i]
  BY <1>1, PasteShape
<1>3. l \in Nat /\ k \in Nat /\ MaxPaste \in Nat
  BY <1>2, LimitsAssumption
<1>4. Plain = l + 4
  BY <1>2, <1>3 DEF Plain, End
<1>5. WireShape
  BY MessageShape
<1>6. /\ \A i \in 1..(l + 4) : Wire[i] # "1"
      /\ Wire[l + 5] = "ESC" /\ Wire[l + 6] = "[" /\ Wire[l + 7] = "1" /\ Wire[l + 8] = "~"
  <2>1. Plain + 1 = l + 5 /\ Plain + 2 = l + 6 /\ Plain + 3 = l + 7 /\ Plain + 4 = l + 8
    BY <1>3, <1>4
  <2> QED BY <1>4, <1>5, <2>1 DEF WireShape
<1>7. p \in Seq(Byte) /\ Len(p) = k /\ \A i \in 1..k : p[i] = Wire[i]
  BY DEF Prefix
<1>8. MaxSequenceBytes \in Nat /\ MaxSequenceBytes >= 3
  BY LimitsAssumption DEF Lost, Start
<1>9. l - MaxPaste \notin 2..4
  BY DEF Lost, End
<1>10. Outcome = IF l > MaxPaste THEN Error("PasteLimit")
                 ELSE IF Utf8(message.body) THEN message ELSE Error("Invalid")
  BY DEF Outcome
<1> HIDE DEF l
<1>11. CASE k = 1
  <2>1. p[1] = "ESC"
    BY <1>2, <1>7, <1>11
  <2>3. Len(p) = 1 /\ Len(p) >= 1 /\ MaxSequenceBytes # 0
    BY <1>7, <1>8, <1>11
  <2>2. next_sequence_length(p) = Incomplete
    BY <1>7, <2>1, <2>3, NextOf
  <2> QED BY <1>2, <1>3, <1>11, <2>2 DEF Answered
<1>12. CASE k \in 2..3
  <2>1. p[1] = "ESC" /\ p[2] = "[" /\ ~IsPrefix(Start, p)
    BY <1>2, <1>7, <1>12, StartPrefix
  <2>2. next_sequence_length(p) = EndOfCsi(p)
    BY <1>7, <1>12, <2>1, NextOf
  <2>3. \A i \in 3..Len(p) : p[i] \notin Final
    <3> TAKE i \in 3..Len(p)
    <3>1. i = 3 /\ k = 3
      BY <1>7, <1>12
    <3>2. p[i] = "0"
      BY <1>2, <1>7, <3>1
    <3> QED BY <3>2 DEF Final
  <2>4. EndOfCsi(p) = Incomplete
    BY <1>7, <1>8, <1>12, <2>3, CsiOf
  <2> QED BY <1>2, <1>3, <1>12, <2>2, <2>4 DEF Answered
<1>13. CASE k >= 4 /\ k < Len(Wire)
  <2>1. IsPrefix(Start, p)
    <3>1. 1 \in 1..k /\ 2 \in 1..k /\ 3 \in 1..k /\ 4 \in 1..k
      BY <1>3, <1>13
    <3> QED BY <1>2, <1>7, <1>13, <3>1, StartPrefix
  <2>2. \A i \in 5..(Len(p) - 3) : p[i + 2] # "1"
    <3> TAKE i \in 5..(Len(p) - 3)
    <3>1. i + 2 \in 1..k /\ (i + 2 \in 1..(l + 4) \/ i + 2 = l + 5 \/ i + 2 = l + 6)
      BY <1>2, <1>3, <1>7, <1>13
    <3> QED BY <1>6, <1>7, <3>1
  <2>3. next_sequence_length(p) = IF k > MaxPaste + 8 THEN Fails("PasteLimit") ELSE Incomplete
    <3>1. EndOfPaste(p) = IF Len(p) > MaxPaste + 8 THEN Fails("PasteLimit") ELSE Incomplete
      BY <1>7, <1>13, <2>2, EndOfPasteOf
    <3> QED BY <1>3, <1>7, <1>13, <2>1, <3>1, NextOf
  <2>4. CASE k <= MaxPaste + 8
    <3>1. next_sequence_length(p) = Incomplete
      BY <1>3, <2>3, <2>4
    <3> QED BY <1>13, <2>4, <3>1 DEF Answered
  <2>5. CASE k > MaxPaste + 8
    <3>1. k = MaxPaste + 9 /\ l - MaxPaste > 4 /\ k <= l + 4 /\ l > MaxPaste
      BY <1>2, <1>3, <1>9, <1>13, <2>5
    <3>2. next_sequence_length(p) = Fails("PasteLimit")
      BY <2>3, <2>5
    <3>3. Outcome = Error("PasteLimit")
      BY <1>10, <3>1
    <3>4. ~IsSuffix(End, p)
      <4>1. k - 1 \in 1..k /\ k - 1 \in 1..(l + 4)
        BY <1>3, <1>13, <3>1
      <4>2. p[Len(p) - 1] # "1"
        BY <1>6, <1>7, <4>1
      <4> QED BY <1>7, <4>2, EndSuffix
    <3>5. k <= Plain
      BY <1>4, <3>1
    <3> QED BY <3>2, <3>3, <3>4, <3>5 DEF Answered
  <2> QED BY <1>3, <2>4, <2>5
<1>14. CASE k = Len(Wire)
  <2>1. p = Wire
    BY <1>5, <1>14, PrefixWhole
  <2>2. IsPrefix(Start, p)
    BY <1>2, <1>3, <2>1, StartPrefix
  <2>3. /\ Len(p) >= 8 /\ p[Len(p) - 3] = "ESC" /\ p[Len(p) - 2] = "["
        /\ p[Len(p) - 1] = "1" /\ p[Len(p)] = "~"
    <3>1. /\ Len(p) - 3 = l + 5 /\ Len(p) - 2 = l + 6 /\ Len(p) - 1 = l + 7 /\ Len(p) = l + 8
          /\ Len(p) >= 8
      BY <1>2, <1>3, <2>1
    <3> QED BY <1>6, <2>1, <3>1
  <2>4. \A i \in 5..(Len(p) - 4) : p[i + 2] # "1"
    <3> TAKE i \in 5..(Len(p) - 4)
    <3>1. i + 2 \in 1..(l + 4) \/ i + 2 = l + 5 \/ i + 2 = l + 6
      BY <1>2, <1>3, <2>1
    <3> QED BY <1>6, <2>1, <3>1
  <2>5. next_sequence_length(p) = IF l > MaxPaste THEN Fails("PasteLimit") ELSE Complete(k)
    <3>1. Len(p) - 8 = l /\ Len(p) = k /\ Len(p) >= 1 /\ Len(p) >= 4
      BY <1>2, <1>3, <1>14, <2>1
    <3>2. EndOfPaste(p) = IF Len(p) - 8 > MaxPaste THEN Fails("PasteLimit") ELSE Complete(Len(p))
      BY <1>7, <2>3, <2>4, <3>1, EndOfPasteOf
    <3>3. next_sequence_length(p) = EndOfPaste(p)
      BY <1>7, <2>2, <3>1, NextOf
    <3> QED BY <3>1, <3>2, <3>3
  <2>6. CASE l > MaxPaste
    <3>1. IsSuffix(End, p)
      BY <1>7, <2>3, EndSuffix
    <3>2. Outcome = Error("PasteLimit") /\ next_sequence_length(p) = Fails("PasteLimit")
      BY <1>10, <2>5, <2>6
    <3> QED BY <1>14, <3>1, <3>2 DEF Answered
  <2>7. CASE ~(l > MaxPaste)
    <3>1. SubSeq(p, Len(Start) + 1, Len(p) - Len(End)) = message.body
      <4>1. Len(Start) + 1 = 5 /\ Len(p) - Len(End) = l + 4
        BY <1>2, <1>3, <2>1 DEF Start, End
      <4>2. \A i \in 5..(l + 4) : p[i] = message.body[i - 4]
        <5> TAKE i \in 5..(l + 4)
        <5>1. i - 4 \in 1..l /\ 4 + (i - 4) = i
          BY <1>3
        <5> QED BY <1>2, <2>1, <5>1
      <4>3. \A i \in 5..(l + 4) : p[i] \in Byte
        <5> TAKE i \in 5..(l + 4)
        <5>1. i \in 1..Len(p)
          BY <1>2, <1>3, <2>1
        <5> QED BY <1>7, <5>1
      <4>4. /\ SubSeq(p, 5, l + 4) \in Seq(Byte)
            /\ Len(SubSeq(p, 5, l + 4)) = IF 5 <= l + 4 THEN (l + 4) - 5 + 1 ELSE 0
            /\ \A i \in 1..((l + 4) - 5 + 1) : SubSeq(p, 5, l + 4)[i] = p[5 + i - 1]
        <5>1. 5 \in Int /\ l + 4 \in Int
          BY <1>3
        <5> QED BY <4>3, <5>1, SubSeqProperties
      <4>5. Len(SubSeq(p, 5, l + 4)) = l /\ (l + 4) - 5 + 1 = l
        BY <1>3, <4>4
      <4>6. \A i \in 1..l : SubSeq(p, 5, l + 4)[i] = message.body[i]
        <5> TAKE i \in 1..l
        <5>1. i \in 1..((l + 4) - 5 + 1) /\ 5 + i - 1 \in 5..(l + 4) /\ (5 + i - 1) - 4 = i
          BY <1>3
        <5> QED BY <4>2, <4>4, <5>1
      <4>7. SubSeq(p, 5, l + 4) = message.body
        BY <1>2, <4>4, <4>5, <4>6, SeqEqual DEF l
      <4> QED BY <4>1, <4>7
    <3>2. decode_input(p) = IF Utf8(message.body) THEN [kind |-> "paste", body |-> message.body]
                            ELSE Error("Invalid")
      BY <2>2, <3>1 DEF decode_input
    <3>3. message = [kind |-> "paste", body |-> message.body]
      BY <1>1
    <3>4. decode_input(p) = Outcome
      BY <1>10, <2>7, <3>2, <3>3
    <3>5. next_sequence_length(p) = Complete(k)
      BY <2>5, <2>7
    <3> QED BY <1>14, <3>4, <3>5 DEF Answered
  <2> QED BY <2>6, <2>7
<1> QED BY <1>2, <1>3, <1>11, <1>12, <1>13, <1>14

\* A key is read whole, and then decoded or refused.
LEMMA WholeAnswered ==
  ASSUME message \in Messages, ~Pasted, ~IsPrefix(Start, Wire), NEW p, Prefix(p, Len(Wire)),
         next_sequence_length(p) = IF Len(Wire) > MaxSequenceBytes THEN Fails("SequenceLimit")
                                   ELSE Complete(Len(Wire))
  PROVE  Answered(p, Len(Wire))
<1>1. p = Wire
  BY MessageShape, PrefixWhole
<1>2. Len(Wire) \in Nat /\ MaxSequenceBytes \in Nat
  BY MessageShape, LimitsAssumption DEF WireShape
<1>3. CASE Len(Wire) > MaxSequenceBytes
  <2>1. next_sequence_length(p) = Fails("SequenceLimit")
    BY <1>3
  <2>2. Outcome = Error("SequenceLimit")
    BY <1>3, KeyRefused
  <2> QED BY <2>1, <2>2 DEF Answered
<1>4. CASE Len(Wire) <= MaxSequenceBytes
  <2>1. next_sequence_length(p) = Complete(Len(Wire))
    BY <1>2, <1>4
  <2>2. decode_input(p) = Outcome
    BY <1>1, <1>4, KeyDecoded
  <2> QED BY <2>1, <2>2 DEF Answered
<1> QED BY <1>2, <1>3, <1>4

LEMMA FixedAnswered ==
  ASSUME message \in Messages, ~Pasted, ~IsPrefix(Start, Wire),
         NEW k \in 1..Len(Wire), k = Len(Wire) \/ Len(Wire) <= MaxSequenceBytes,
         NEW p, Prefix(p, k), next_sequence_length(p) = Fixed(p, Len(Wire))
  PROVE  Answered(p, k)
<1>1. Len(Wire) \in Nat /\ MaxSequenceBytes \in Nat /\ Len(p) = k
  BY MessageShape, LimitsAssumption DEF WireShape, Prefix
<1>2. CASE k = Len(Wire)
  <2>1. next_sequence_length(p) = IF Len(Wire) > MaxSequenceBytes THEN Fails("SequenceLimit")
                                  ELSE Complete(Len(Wire))
    BY <1>1, <1>2 DEF Fixed
  <2> QED BY <1>2, <2>1, WholeAnswered
<1>3. CASE k < Len(Wire) /\ Len(Wire) <= MaxSequenceBytes
  <2>1. next_sequence_length(p) = Incomplete
    BY <1>1, <1>3 DEF Fixed
  <2> QED BY <1>3, <2>1 DEF Answered
<1> QED BY <1>1, <1>2, <1>3

\* The escape that begins a longer sequence.
LEMMA EscapeAnswered ==
  ASSUME message \in Messages, ~Pasted, Len(Wire) > 1, MaxSequenceBytes # 0, Wire[1] = "ESC",
         NEW p, Prefix(p, 1)
  PROVE  Answered(p, 1)
<1>1. p \in Seq(Byte) /\ Len(p) = 1 /\ p[1] = "ESC"
  BY DEF Prefix
<1>2. next_sequence_length(p) = Incomplete
  <2>1. Len(p) >= 1
    BY <1>1
  <2> QED BY <1>1, <2>1, NextOf
<1> QED BY <1>2 DEF Answered

LEMMA CsiAnswered ==
  ASSUME message \in Messages, ~Pasted, ~Lost,
         Len(Wire) >= 3, Wire[1] = "ESC", Wire[2] = "[", Wire[Len(Wire)] \in {"A", "O"},
         \A i \in 3..(Len(Wire) - 1) : Wire[i] = "0",
         NEW k \in 1..Len(Wire), NEW p, Prefix(p, k)
  PROVE  Answered(p, k)
<1>1. /\ Wire \in Seq(Byte) /\ Len(Wire) \in Nat /\ MaxSequenceBytes \in Nat /\ k \in Nat
      /\ Wire = message.body
  BY MessageShape, KeyShape, LimitsAssumption DEF WireShape, Pasted
<1>2. Len(Wire) <= MaxSequenceBytes + 1
  BY <1>1 DEF Lost
<1>3. p \in Seq(Byte) /\ Len(p) = k /\ \A i \in 1..k : p[i] = Wire[i]
  BY DEF Prefix
<1>4. ASSUME NEW q \in Seq(Byte), Len(q) <= Len(Wire), \A i \in 1..Len(q) : q[i] = Wire[i]
      PROVE  ~IsPrefix(Start, q)
  <2>1. CASE Len(q) >= 4
    <3>1. 4 \in 1..Len(q) /\ (4 \in 3..(Len(Wire) - 1) \/ 4 = Len(Wire))
      <4>1. Len(q) \in Nat /\ Len(q) <= Len(Wire) /\ Len(Wire) \in Nat
        BY <1>1, <1>4
      <4>2. ASSUME NEW m \in Nat, NEW n \in Nat, m <= n, m >= 4
            PROVE  4 \in 1..m /\ (4 \in 3..(n - 1) \/ 4 = n)
        BY <4>2
      <4> QED BY <2>1, <4>1, <4>2
    <3>2. q[4] # "~"
      BY <1>4, <3>1
    <3> QED BY <3>2, StartPrefix
  <2> QED BY <2>1, StartPrefix
<1>5. ~IsPrefix(Start, p) /\ ~IsPrefix(Start, Wire)
  BY <1>1, <1>3, <1>4
<1>6. CASE k = 1
  <2>1. Len(Wire) > 1 /\ MaxSequenceBytes # 0
    BY <1>1, <1>2
  <2> QED BY <1>6, <2>1, EscapeAnswered
<1>7. CASE k >= 2
  <2>1. p[1] = "ESC" /\ p[2] = "[" /\ Len(p) >= 1 /\ Len(p) >= 2
    BY <1>1, <1>3, <1>7
  <2>2. next_sequence_length(p) = EndOfCsi(p)
    BY <1>3, <1>5, <2>1, NextOf
  <2>3. CASE k < Len(Wire)
    <3>1. \A i \in 3..Len(p) : p[i] \notin Final
      <4> TAKE i \in 3..Len(p)
      <4>1. i \in 1..k /\ i \in 3..(Len(Wire) - 1)
        BY <1>1, <1>3, <2>3
      <4>2. p[i] = "0"
        BY <1>3, <4>1
      <4> QED BY <4>2 DEF Final
    <3>2. ~(Len(p) > MaxSequenceBytes)
      BY <1>1, <1>2, <1>3, <2>3
    <3>3. next_sequence_length(p) = Incomplete
      BY <1>3, <2>1, <2>2, <3>1, <3>2, CsiOf
    <3> QED BY <2>3, <3>3 DEF Answered
  <2>4. CASE k = Len(Wire)
    <3>1. \A i \in 3..(Len(p) - 1) : p[i] \notin Final
      <4> TAKE i \in 3..(Len(p) - 1)
      <4>1. i \in 1..k /\ i \in 3..(Len(Wire) - 1)
        BY <1>1, <1>3, <2>4
      <4>2. p[i] = "0"
        BY <1>3, <4>1
      <4> QED BY <4>2 DEF Final
    <3>2. p[Len(p)] \in Final /\ Len(p) >= 3
      <4>1. p[Len(p)] = Wire[Len(Wire)] /\ Len(p) >= 3
        BY <1>1, <1>3, <2>4
      <4> QED BY <4>1 DEF Final
    <3>3. next_sequence_length(p) = IF Len(Wire) > MaxSequenceBytes THEN Fails("SequenceLimit")
                                    ELSE Complete(Len(Wire))
      BY <1>3, <2>1, <2>2, <2>4, <3>1, <3>2, CsiOf
    <3> QED BY <1>5, <2>4, <3>3, WholeAnswered
  <2> QED BY <1>1, <2>3, <2>4
<1> QED BY <1>1, <1>6, <1>7

LEMMA ShortAnswered ==
  ASSUME message \in Messages, ~Pasted, ~Lost, Wire \in Short,
         NEW k \in 1..Len(Wire), NEW p, Prefix(p, k)
  PROVE  Answered(p, k)
<1>1. /\ Wire \in Seq(Byte) /\ MaxSequenceBytes \in Nat /\ Wire = message.body
      /\ message = [kind |-> "key", body |-> Wire]
  BY KeyShape, LimitsAssumption DEF Pasted
<1>2. /\ Len(Wire) <= MaxSequenceBytes + 1
      /\ Wire \in Foretold => Len(Wire) <= MaxSequenceBytes
  <2>1. Len(Wire) \in Nat
    BY <1>1
  <2> QED BY <1>1, <2>1 DEF Lost
<1>3. p \in Seq(Byte) /\ Len(p) = k /\ \A i \in 1..k : p[i] = Wire[i]
  BY DEF Prefix
<1>4. Len(Wire) <= 3 /\ Len(Wire) >= 1 /\ ~IsPrefix(Start, Wire)
  <2>1. Len(Wire) <= 3 /\ Len(Wire) >= 1
    <3>1. ASSUME NEW w \in Short
          PROVE  Len(w) <= 3 /\ Len(w) >= 1
      <4>1. \/ w = <<"x">> \/ w = <<"0">> \/ w = <<"ESC">> \/ w = <<"lead", "cont">>
            \/ w = <<"ESC", "x">> \/ w = <<"ESC", "lead", "cont">>
            \/ w = <<"ESC", "O", "A">> \/ w = <<"ESC", "[", "O">>
        BY DEF Short
      <4>2. w = <<"x">> => Len(w) <= 3 /\ Len(w) >= 1
        OBVIOUS
      <4>3. w = <<"0">> => Len(w) <= 3 /\ Len(w) >= 1
        OBVIOUS
      <4>4. w = <<"ESC">> => Len(w) <= 3 /\ Len(w) >= 1
        OBVIOUS
      <4>5. w = <<"lead", "cont">> => Len(w) <= 3 /\ Len(w) >= 1
        OBVIOUS
      <4>6. w = <<"ESC", "x">> => Len(w) <= 3 /\ Len(w) >= 1
        OBVIOUS
      <4>7. w = <<"ESC", "lead", "cont">> => Len(w) <= 3 /\ Len(w) >= 1
        OBVIOUS
      <4>8. w = <<"ESC", "O", "A">> => Len(w) <= 3 /\ Len(w) >= 1
        OBVIOUS
      <4>9. w = <<"ESC", "[", "O">> => Len(w) <= 3 /\ Len(w) >= 1
        OBVIOUS
      <4> QED BY <4>1, <4>2, <4>3, <4>4, <4>5, <4>6, <4>7, <4>8, <4>9
    <3> QED BY <3>1
  <2> QED BY <1>1, <2>1, StartPrefix
<1>5. k \in 1..3 /\ k <= Len(Wire) /\ Len(p) >= 1 /\ ~IsPrefix(Start, p)
  <2>1. k \in 1..3 /\ k <= Len(Wire) /\ Len(p) >= 1
    BY <1>1, <1>3, <1>4
  <2> QED BY <1>3, <2>1, StartPrefix
<1>6. p[1] = Wire[1] /\ (k >= 2 => p[2] = Wire[2])
  BY <1>3, <1>5
<1>7. ASSUME Wire[1] = "ESC", k = 1, Len(Wire) > 1
      PROVE  Answered(p, k)
  <2>1. MaxSequenceBytes # 0
    BY <1>1, <1>2, <1>7
  <2> QED BY <1>7, <2>1, EscapeAnswered
<1>8. CASE Wire \in {<<"x">>, <<"0">>}
  <2>1. Len(Wire) = 1 /\ k = 1 /\ Wire[1] \in {"x", "0"}
    <3>1. CASE Wire = <<"x">>
      BY <1>5, <3>1
    <3>2. CASE Wire = <<"0">>
      BY <1>5, <3>2
    <3> QED BY <1>8, <3>1, <3>2
  <2>2. next_sequence_length(p) = Character(p, 1)
    BY <1>3, <1>5, <1>6, <2>1, NextOf
  <2>3. Character(p, 1) = Fixed(p, 1)
    BY <1>6, <2>1 DEF Character, CharacterLength
  <2> QED BY <1>4, <2>1, <2>2, <2>3, FixedAnswered
<1>9. CASE Wire = <<"ESC">>
  <2>1. Len(Wire) = 1 /\ k = 1 /\ Wire[1] = "ESC" /\ message = Escape
    BY <1>1, <1>5, <1>9 DEF Escape
  <2>2. next_sequence_length(p) = IF MaxSequenceBytes = 0 THEN Fails("SequenceLimit") ELSE Incomplete
    BY <1>3, <1>5, <1>6, <2>1, NextOf
  <2>3. CASE MaxSequenceBytes = 0
    <3>1. Outcome = Error("SequenceLimit")
      BY <2>1, <2>3, KeyRefused
    <3> QED BY <2>1, <2>2, <2>3, <3>1 DEF Answered
  <2>4. CASE MaxSequenceBytes # 0
    BY <2>1, <2>2, <2>4 DEF Answered
  <2> QED BY <2>3, <2>4
<1>10. CASE Wire = <<"lead", "cont">>
  <2>1. Len(Wire) = 2 /\ Wire[1] = "lead" /\ Wire \in Foretold
    BY <1>10 DEF Foretold
  <2>2. next_sequence_length(p) = Character(p, 1)
    BY <1>3, <1>5, <1>6, <2>1, NextOf
  <2>3. Character(p, 1) = Fixed(p, 2)
    BY <1>6, <2>1 DEF Character, CharacterLength
  <2> QED BY <1>2, <1>4, <2>1, <2>2, <2>3, FixedAnswered
<1>11. CASE Wire = <<"ESC", "x">>
  <2>1. Len(Wire) = 2 /\ Wire[1] = "ESC" /\ Wire[2] = "x"
    BY <1>11
  <2>2. CASE k = 1
    BY <1>7, <2>1, <2>2
  <2>3. CASE k = 2
    <3>1. next_sequence_length(p) = Character(p, 2)
      BY <1>3, <1>5, <1>6, <2>1, <2>3, NextOf
    <3>2. Character(p, 2) = Fixed(p, 2)
      BY <1>6, <2>1, <2>3 DEF Character, CharacterLength
    <3> QED BY <1>4, <2>1, <2>3, <3>1, <3>2, FixedAnswered
  <2> QED BY <1>5, <2>1, <2>2, <2>3
<1>12. CASE Wire \in {<<"ESC", "lead", "cont">>, <<"ESC", "O", "A">>}
  <2>1. Len(Wire) = 3 /\ Wire[1] = "ESC" /\ Wire[2] \in {"lead", "O"} /\ Wire \in Foretold
    BY <1>12 DEF Foretold
  <2>2. CASE k = 1
    BY <1>7, <2>1, <2>2
  <2>3. CASE k >= 2
    <3>1. next_sequence_length(p) = IF p[2] = "O" THEN Fixed(p, 3) ELSE Character(p, 2)
      <4>1. p[1] = "ESC" /\ Len(p) >= 2 /\ p[2] # "["
        BY <1>3, <1>6, <2>1, <2>3
      <4> QED BY <1>3, <1>5, <4>1, NextOf
    <3>2. p[2] = "lead" => Character(p, 2) = Fixed(p, 3)
      BY DEF Character, CharacterLength
    <3>3. next_sequence_length(p) = Fixed(p, Len(Wire))
      BY <1>6, <2>1, <2>3, <3>1, <3>2
    <3> QED BY <1>2, <1>4, <2>1, <3>3, FixedAnswered
  <2> QED BY <1>5, <2>2, <2>3
<1>13. CASE Wire = <<"ESC", "[", "O">>
  <2>1. Len(Wire) = 3 /\ Wire[1] = "ESC" /\ Wire[2] = "[" /\ Wire[3] = "O"
    BY <1>13
  <2>2. \A i \in 3..(Len(Wire) - 1) : Wire[i] = "0"
    BY <2>1
  <2>3. Len(Wire) >= 3 /\ Wire[Len(Wire)] \in {"A", "O"}
    BY <2>1
  <2> QED BY <2>1, <2>2, <2>3, CsiAnswered
<1> QED BY <1>8, <1>9, <1>10, <1>11, <1>12, <1>13 DEF Short

\* Whatever the decoder has of a message, it does what it should with it.
LEMMA PrefixAnswered ==
  ASSUME message \in Messages, ~Lost, NEW k \in 1..Len(Wire), Pasted => k <= MaxPaste + 9,
         NEW p, Prefix(p, k)
  PROVE  Answered(p, k)
<1>1. CASE Pasted
  BY <1>1, PasteAnswered
<1>2. CASE ~Pasted
  <2>1. CASE Wire \in Short
    BY <1>2, <2>1, ShortAnswered
  <2>2. CASE Parameters(Wire)
    BY <1>2, <2>2, CsiAnswered DEF Parameters
  <2> QED BY <1>2, <2>1, <2>2, KeyShape DEF Pasted
<1> QED BY <1>1, <1>2

-----------------------------------------------------------------------------
(* The invariant. *)

\* A decoder that discards has matched of the marker what of it was pushed, and
\* never more of it than two bytes before it comes.
Tracked ==
  /\ Read \in 1..Plain => discard_match <= 2
  /\ Read > Plain => discard_match = Read - Plain

\* The message is being read, was answered, or is a paste whose rest is thrown away
\* after its answer.
Buffering ==
  /\ ~discarding_paste /\ got = << >>
  /\ Prefix(buffer, Read)
  /\ left # << >> \/ (message = Escape /\ MaxSequenceBytes # 0)
  /\ Pasted => Read <= MaxPaste + 8

Done == ~discarding_paste /\ buffer = << >> /\ left = << >> /\ got = <<Outcome>>

Overflowed ==
  /\ discarding_paste /\ buffer = << >> /\ left # << >> /\ got = <<Outcome>>
  /\ Pasted /\ Read >= 1 /\ Tracked

Discarded ==
  /\ got = << >> /\ buffer = << >>
  /\ IF discarding_paste THEN Tracked /\ (Pasted => left # << >>)
                         ELSE Pasted /\ left = << >>

DecoderInv ==
  /\ message \in Messages
  /\ start \in {"idle", "discarding"}
  /\ discard_match \in 0..3
  /\ discarding_paste \in BOOLEAN
  /\ discarding_paste => buffer = << >>
  /\ intact => Suffix
  /\ intact /\ start = "discarding" => Discarded
  /\ intact /\ start = "idle" /\ ~Lost => Buffering \/ Done \/ Overflowed

LEMMA ByteTaken ==
  ASSUME WireShape, Suffix, left # << >>, left' = Tail(left), message' = message
  PROVE  /\ Wire' = Wire /\ Plain' = Plain /\ Pasted' = Pasted /\ Read' = Read + 1 /\ Suffix'
         /\ Read \in 0..(Len(Wire) - 1) /\ Head(left) = Wire[Read + 1] /\ Head(left) \in Byte
         /\ left' = << >> <=> Read + 1 = Len(Wire)
<1>1. Wire' = Wire /\ Plain' = Plain /\ Pasted' = Pasted
  BY DEF Wire, Plain, Pasted
<1>2. Wire \in Seq(Byte) /\ left \in Seq(Byte) /\ Len(left) <= Len(Wire) /\ left # << >>
  BY DEF WireShape, Suffix
<1>3. Len(left) \in Nat /\ Len(Wire) \in Nat /\ Len(left) >= 1
  BY <1>2
<1>4. /\ Head(left) \in Byte /\ Tail(left) \in Seq(Byte) /\ Len(Tail(left)) = Len(left) - 1
      /\ \A i \in 1..Len(Tail(left)) : Tail(left)[i] = left[i + 1]
  BY <1>2, HeadTailProperties
<1>5. Read' = Read + 1 /\ Read \in 0..(Len(Wire) - 1)
  BY <1>1, <1>2, <1>3, <1>4 DEF Read
<1>6. Suffix'
  <2>1. \A i \in 1..Len(left') : left'[i] = Wire'[Read' + i]
    <3> TAKE i \in 1..Len(left')
    <3>1. i + 1 \in 1..Len(left) /\ i \in 1..Len(Tail(left)) /\ Read' + i = Read + (i + 1)
      BY <1>3, <1>4, <1>5
    <3>2. left[i + 1] = Wire[Read + (i + 1)]
      BY <3>1 DEF Suffix
    <3> QED BY <1>1, <1>4, <3>1, <3>2
  <2>2. left' \in Seq(Byte) /\ Len(left') <= Len(Wire')
    BY <1>1, <1>2, <1>3, <1>4
  <2> QED BY <2>1, <2>2 DEF Suffix
<1>7. Head(left) = Wire[Read + 1]
  <2>1. Head(left) = left[1] /\ 1 \in 1..Len(left)
    BY <1>2, <1>3
  <2> QED BY <2>1 DEF Suffix
<1>8. left' = << >> <=> Read + 1 = Len(Wire)
  <2>1. left' = << >> <=> Len(left') = 0
    BY <1>4, EmptySeq
  <2> QED BY <1>3, <1>4, <2>1 DEF Read
<1> QED BY <1>1, <1>4, <1>5, <1>6, <1>7, <1>8

LEMMA PushedPrefix ==
  ASSUME NEW k \in Nat, Prefix(buffer, k), Head(left) = Wire[k + 1], Head(left) \in Byte
  PROVE  Prefix(Pushed, k + 1)
<1>1. buffer \in Seq(Byte) /\ Len(buffer) = k /\ \A i \in 1..k : buffer[i] = Wire[i]
  BY DEF Prefix
<1>2. /\ Pushed \in Seq(Byte) /\ Len(Pushed) = k + 1
      /\ \A i \in 1..k : Pushed[i] = buffer[i]
      /\ Pushed[k + 1] = Head(left)
  BY <1>1, AppendProperties DEF Pushed
<1>3. \A i \in 1..(k + 1) : i \in 1..k \/ i = k + 1
  OBVIOUS
<1> QED BY <1>1, <1>2, <1>3 DEF Prefix

\* A byte of the message that is discarded keeps the count of the marker right, and
\* the last byte of the marker ends the discarding with the message.
LEMMA DiscardTracks ==
  ASSUME WireShape, Suffix, discard_match \in 0..3, Tracked, PushDiscarded, message' = message
  PROVE  IF discarding_paste' THEN Tracked' /\ (Pasted => left' # << >>)
                              ELSE Pasted /\ left' = << >>
<1> DEFINE r == Read
           byte == Head(left)
<1>1. left # << >> /\ left' = Tail(left)
  BY DEF PushDiscarded, Taken
<1>2. /\ Plain' = Plain /\ Read' = r + 1 /\ byte = Wire[r + 1]
      /\ r \in 0..(Len(Wire) - 1)
      /\ left' = << >> <=> r + 1 = Len(Wire)
  BY <1>1, ByteTaken
<1>3. IF Matched(byte) < 4 THEN discarding_paste' = TRUE /\ discard_match' = Matched(byte)
                           ELSE discarding_paste' = FALSE
  <2>1. /\ discarding_paste' = (Matched(byte) < Len(End))
        /\ discard_match' = IF discarding_paste' THEN Matched(byte) ELSE 0
    BY DEF PushDiscarded
  <2>2. Len(End) = 4
    BY DEF End
  <2>3. discarding_paste' = (Matched(byte) < 4)
    BY <2>1, <2>2
  <2>4. CASE Matched(byte) < 4
    BY <2>1, <2>3, <2>4, Zenon
  <2>5. CASE ~(Matched(byte) < 4)
    <3>1. (Matched(byte) < 4) = FALSE
      BY <2>5
    <3> QED BY <2>3, <2>5, <3>1
  <2> QED BY <2>4, <2>5
<1>4. Matched(byte) = IF byte = <<"ESC", "[", "1", "~">>[discard_match + 1] THEN discard_match + 1
                      ELSE IF byte = "ESC" THEN 1 ELSE 0
  BY DEF Matched, End
<1>5. /\ discard_match = 0 => Matched(byte) = IF byte = "ESC" THEN 1 ELSE 0
      /\ discard_match = 1 => Matched(byte) = IF byte = "[" THEN 2 ELSE IF byte = "ESC" THEN 1 ELSE 0
      /\ discard_match = 2 => Matched(byte) = IF byte = "1" THEN 3 ELSE IF byte = "ESC" THEN 1 ELSE 0
      /\ discard_match = 3 => Matched(byte) = IF byte = "~" THEN 4 ELSE IF byte = "ESC" THEN 1 ELSE 0
  <2>1. /\ discard_match = 0 => <<"ESC", "[", "1", "~">>[discard_match + 1] = "ESC"
        /\ discard_match = 1 => <<"ESC", "[", "1", "~">>[discard_match + 1] = "["
        /\ discard_match = 2 => <<"ESC", "[", "1", "~">>[discard_match + 1] = "1"
        /\ discard_match = 3 => <<"ESC", "[", "1", "~">>[discard_match + 1] = "~"
    OBVIOUS
  <2> QED BY <1>4, <2>1
<1>6. /\ Len(Wire) \in Nat /\ Plain \in 1..Len(Wire) /\ Plain \in Nat
      /\ \A i \in 1..Plain : Wire[i] # "1"
      /\ Wire[1] # "[" /\ Wire[1] # "~"
  BY DEF WireShape
<1>7. Plain = IF Pasted THEN Len(Wire) - 4 ELSE Len(Wire)
  BY <1>6 DEF Plain, End
<1>8. /\ r \in 1..Plain => discard_match <= 2
      /\ r > Plain => discard_match = r - Plain
  BY DEF Tracked
<1>9. Pasted => /\ Wire[Plain + 1] = "ESC" /\ Wire[Plain + 2] = "["
                /\ Wire[Plain + 3] = "1" /\ Wire[Plain + 4] = "~"
  BY DEF WireShape
<1> HIDE DEF r, byte
<1>10. CASE r + 1 <= Plain
  <2>1. byte # "1" /\ (r = 0 => byte # "[" /\ byte # "~") /\ (r # 0 => discard_match <= 2)
    <3>1. r + 1 \in 1..Plain /\ (r # 0 => r \in 1..Plain) /\ (r = 0 => r + 1 = 1)
      BY <1>2, <1>6, <1>10
    <3> QED BY <1>2, <1>6, <1>8, <3>1
  <2>2. Matched(byte) \in 0..2
    BY <1>5, <2>1
  <2>3. discarding_paste' = TRUE /\ discard_match' <= 2
    BY <1>3, <2>2
  <2>4. Read' \in 1..Plain' /\ ~(Read' > Plain')
    BY <1>2, <1>6, <1>10
  <2>5. Pasted => left' # << >>
    BY <1>2, <1>6, <1>7, <1>10
  <2> QED BY <2>3, <2>4, <2>5 DEF Tracked
<1>11. CASE r + 1 > Plain
  <2>1. Pasted /\ r \in Plain..(Plain + 3)
    BY <1>2, <1>6, <1>7, <1>11
  <2>2. Len(Wire) = Plain + 4
    BY <1>6, <1>7, <2>1
  <2>3. CASE r = Plain
    <3>1. byte = "ESC" /\ discard_match <= 2
      BY <1>2, <1>6, <1>8, <1>9, <2>1, <2>3
    <3>2. discarding_paste' = TRUE /\ discard_match' = 1
      BY <1>3, <1>5, <3>1
    <3>3. left' # << >> /\ Read' = Plain' + 1
      BY <1>2, <1>6, <2>2, <2>3
    <3> QED BY <1>2, <1>6, <3>2, <3>3 DEF Tracked
  <2>4. CASE r = Plain + 1
    <3>1. byte = "[" /\ discard_match = 1
      <4>1. r + 1 = Plain + 2 /\ r - Plain = 1 /\ r > Plain
        BY <1>6, <2>4
      <4> QED BY <1>2, <1>8, <1>9, <2>1, <4>1
    <3>2. discarding_paste' = TRUE /\ discard_match' = 2
      BY <1>3, <1>5, <3>1
    <3>3. left' # << >> /\ Read' = Plain' + 2
      BY <1>2, <1>6, <2>2, <2>4
    <3> QED BY <1>2, <1>6, <3>2, <3>3 DEF Tracked
  <2>5. CASE r = Plain + 2
    <3>1. byte = "1" /\ discard_match = 2
      <4>1. r + 1 = Plain + 3 /\ r - Plain = 2 /\ r > Plain
        BY <1>6, <2>5
      <4> QED BY <1>2, <1>8, <1>9, <2>1, <4>1
    <3>2. discarding_paste' = TRUE /\ discard_match' = 3
      BY <1>3, <1>5, <3>1
    <3>3. left' # << >> /\ Read' = Plain' + 3
      BY <1>2, <1>6, <2>2, <2>5
    <3> QED BY <1>2, <1>6, <3>2, <3>3 DEF Tracked
  <2>6. CASE r = Plain + 3
    <3>1. byte = "~" /\ discard_match = 3
      <4>1. r + 1 = Plain + 4 /\ r - Plain = 3 /\ r > Plain
        BY <1>6, <2>6
      <4> QED BY <1>2, <1>8, <1>9, <2>1, <4>1
    <3>2. discarding_paste' = FALSE
      BY <1>3, <1>5, <3>1
    <3>3. left' = << >>
      BY <1>2, <1>6, <2>2, <2>6
    <3> QED BY <2>1, <3>2, <3>3
  <2> QED BY <1>6, <2>1, <2>3, <2>4, <2>5, <2>6
<1> QED BY <1>2, <1>6, <1>10, <1>11

\* Every state has it.
LEMMA ShapeAlways == message \in Messages => WireShape
BY MessageShape

LEMMA ShapeNext == (message \in Messages => WireShape)'
BY ShapeAlways, PTL

LEMMA DecoderStarts ==
  ASSUME DecoderInit
  PROVE  DecoderInv
<1>1. Escape \in Messages
  BY DEF Escape, Messages
<1>2. discard_match \in 0..3 /\ ~discarding_paste /\ ~intact /\ message = Escape /\ start = "idle"
  BY DEF DecoderInit
<1>3. discarding_paste \in BOOLEAN
  BY DEF DecoderInit
<1> QED BY <1>1, <1>2, <1>3 DEF DecoderInv

\* A message is forgotten: nothing is said of it.
LEMMA Forgotten ==
  ASSUME Forget, discard_match' \in 0..3, discarding_paste' \in BOOLEAN, discarding_paste' => buffer' = << >>
  PROVE  DecoderInv'
<1>1. Escape \in Messages
  BY DEF Escape, Messages
<1> QED BY <1>1 DEF Forget, DecoderInv

LEMMA SendsKeeps ==
  ASSUME DecoderInv, Sends
  PROVE  DecoderInv'
<1>1. /\ discard_match \in 0..3 /\ discarding_paste \in BOOLEAN /\ (discarding_paste => buffer = << >>)
      /\ buffer' = buffer /\ discarding_paste' = discarding_paste /\ discard_match' = discard_match
  BY DEF DecoderInv, Sends, decoder
<1>2. PICK sent \in Messages :
        /\ left' = Bytes(sent)
        /\ IF Idle \/ discarding_paste
           THEN /\ intact' = TRUE
                /\ message' = sent
                /\ start' = IF Idle THEN "idle" ELSE "discarding"
                /\ got' = << >>
           ELSE Forget
  BY DEF Sends
<1>3. CASE ~(Idle \/ discarding_paste)
  BY <1>1, <1>2, <1>3, Forgotten
<1>4. CASE Idle \/ discarding_paste
  <2>1. /\ message' \in Messages /\ left' = Wire' /\ got' = << >> /\ intact' = TRUE
        /\ start' = IF Idle THEN "idle" ELSE "discarding"
    BY <1>2, <1>4 DEF Wire
  <2>2. WireShape'
    BY <2>1, ShapeNext
  <2>3. Wire' \in Seq(Byte) /\ Len(Wire') \in Nat /\ Len(Wire') >= 1 /\ Plain' \in 1..Len(Wire')
    <3>1. Wire' \in Seq(Byte) /\ Plain' \in 1..Len(Wire')
      BY <2>2 DEF WireShape
    <3> QED BY <3>1
  <2>4. Read' = 0
    BY <2>1, <2>3 DEF Read
  <2>5. Suffix'
    <3>1. \A i \in 1..Len(left') : left'[i] = Wire'[Read' + i]
      <4> TAKE i \in 1..Len(left')
      <4>1. Read' + i = i
        BY <2>4
      <4> QED BY <2>1, <4>1
    <3> QED BY <2>1, <2>3, <3>1 DEF Suffix
  <2>6. left' # << >>
    <3>1. Len(<< >>) = 0
      OBVIOUS
    <3> QED BY <2>1, <2>3, <3>1
  <2>7. Tracked'
    BY <2>3, <2>4 DEF Tracked
  <2>8. CASE Idle
    <3>1. start' = "idle" /\ buffer' = << >> /\ ~discarding_paste'
      BY <1>1, <2>1, <2>8 DEF Idle
    <3>2. Prefix(buffer, Read)'
      <4>1. buffer' \in Seq(Byte) /\ Len(buffer') = 0
        BY <3>1
      <4> QED BY <2>4, <4>1 DEF Prefix
    <3>3. Buffering'
      <4>1. Read' <= MaxPaste + 8
        BY <2>4, LimitsAssumption
      <4> QED BY <2>1, <2>6, <3>1, <3>2, <4>1 DEF Buffering
    <3> QED BY <1>1, <2>1, <2>5, <3>1, <3>3 DEF DecoderInv
  <2>9. CASE ~Idle
    <3>1. start' = "discarding" /\ buffer' = << >> /\ discarding_paste' = TRUE
      BY <1>1, <1>4, <2>1, <2>9
    <3>2. Discarded'
      BY <2>1, <2>6, <2>7, <3>1 DEF Discarded
    <3> QED BY <1>1, <2>1, <2>5, <3>1, <3>2 DEF DecoderInv
  <2> QED BY <2>8, <2>9
<1> QED BY <1>3, <1>4

\* What a byte leaves as it was, and what is known of the message it belongs to.
LEMMA PushedByte ==
  ASSUME DecoderInv, Pushing, Taken, message' = message, intact
  PROVE  /\ Read + 1 \in 1..Len(Wire) /\ Read \in Nat /\ Suffix'
         /\ Wire' = Wire /\ Plain' = Plain /\ Pasted' = Pasted /\ Read' = Read + 1
         /\ Outcome' = Outcome /\ Lost' = Lost
         /\ left' = << >> <=> Read + 1 = Len(Wire)
         /\ start = "idle"
         /\ start = "idle" /\ ~Lost =>
              /\ Buffering /\ Prefix(Pushed, Read + 1) /\ Answered(Pushed, Read + 1)
<1>1. left # << >> /\ ~discarding_paste /\ left' = Tail(left)
  BY DEF Pushing, Taken
<1>2. WireShape /\ Suffix /\ start \in {"idle", "discarding"} /\ message \in Messages
  BY MessageShape DEF DecoderInv
<1>3. /\ Wire' = Wire /\ Plain' = Plain /\ Pasted' = Pasted /\ Read' = Read + 1 /\ Suffix'
      /\ Read \in 0..(Len(Wire) - 1) /\ Head(left) = Wire[Read + 1] /\ Head(left) \in Byte
      /\ left' = << >> <=> Read + 1 = Len(Wire)
  BY <1>1, <1>2, ByteTaken
<1>4. Len(Wire) \in Nat
  BY <1>2 DEF WireShape
<1>5. Read + 1 \in 1..Len(Wire) /\ Read \in Nat
  <2>1. ASSUME NEW r, NEW n \in Nat, r \in 0..(n - 1)
        PROVE  r + 1 \in 1..n /\ r \in Nat
    BY <2>1
  <2> QED BY <1>3, <1>4, <2>1
<1>6. start # "discarding"
  BY <1>1 DEF DecoderInv, Discarded
<1>7. ASSUME ~Lost, start = "idle"
      PROVE  Buffering /\ Prefix(Pushed, Read + 1) /\ Answered(Pushed, Read + 1)
  <2>1. Buffering
    BY <1>1, <1>7 DEF DecoderInv, Done, Overflowed
  <2>2. Prefix(buffer, Read) /\ (Pasted => Read <= MaxPaste + 8)
    BY <2>1 DEF Buffering
  <2>3. Prefix(Pushed, Read + 1)
    BY <1>3, <1>5, <2>2, PushedPrefix
  <2>4. Pasted => Read + 1 <= MaxPaste + 9
    BY <1>5, <2>2, LimitsAssumption
  <2>5. Answered(Pushed, Read + 1)
    BY <1>2, <1>5, <1>7, <2>3, <2>4, PrefixAnswered
  <2> QED BY <2>1, <2>3, <2>5
<1>8. Outcome' = Outcome /\ Lost' = Lost
  BY DEF Outcome, Lost, Pasted
<1> QED BY <1>2, <1>3, <1>5, <1>6, <1>7, <1>8

LEMMA PushIncompleteKeeps ==
  ASSUME DecoderInv, PushIncomplete
  PROVE  DecoderInv'
<1>1. /\ Pushing /\ Taken /\ buffer' = Pushed /\ next_sequence_length(Pushed) = Incomplete
      /\ discarding_paste' = discarding_paste /\ discard_match' = discard_match
      /\ intact' = intact /\ message' = message /\ start' = start /\ got' = got
  BY DEF PushIncomplete, history
<1>2. /\ message' \in Messages /\ start' \in {"idle", "discarding"} /\ discard_match' \in 0..3
      /\ discarding_paste' \in BOOLEAN /\ ~discarding_paste'
  BY <1>1 DEF DecoderInv, Pushing
<1>3. CASE ~intact
  BY <1>1, <1>2, <1>3 DEF DecoderInv
<1>4. CASE intact
  <2> DEFINE k == Read + 1
  <2>1. /\ k \in 1..Len(Wire) /\ Suffix' /\ Wire' = Wire /\ Pasted' = Pasted /\ Read' = k /\ Lost' = Lost
        /\ left' = << >> <=> k = Len(Wire)
        /\ start = "idle"
        /\ ~Lost => Buffering /\ Prefix(Pushed, k) /\ Answered(Pushed, k)
    BY <1>1, <1>4, PushedByte
  <2> HIDE DEF k
  <2>2. ASSUME ~Lost
        PROVE  Buffering'
    <3>1. k < Len(Wire) \/ (message = Escape /\ MaxSequenceBytes # 0)
      BY <1>1, <2>1, <2>2 DEF Answered, Incomplete, Complete, Fails
    <3>2. Pasted => k <= MaxPaste + 8
      BY <1>1, <2>1, <2>2 DEF Answered, Incomplete, Complete, Fails
    <3>3. Prefix(buffer, Read)'
      BY <1>1, <2>1, <2>2 DEF Prefix
    <3>4. left' # << >> \/ (message' = Escape /\ MaxSequenceBytes # 0)
      <4>1. k < Len(Wire) => k # Len(Wire)
        BY <2>1
      <4> QED BY <1>1, <2>1, <3>1, <4>1
    <3>5. got' = << >>
      BY <1>1, <2>1, <2>2 DEF Buffering
    <3>6. Pasted' => Read' <= MaxPaste + 8
      BY <2>1, <3>2
    <3> QED BY <1>2, <3>3, <3>4, <3>5, <3>6 DEF Buffering
  <2> QED BY <1>1, <1>2, <2>1, <2>2 DEF DecoderInv
<1> QED BY <1>3, <1>4

LEMMA PushCompleteKeeps ==
  ASSUME DecoderInv, PushComplete
  PROVE  DecoderInv'
<1> DEFINE length == next_sequence_length(Pushed).length
<1>1. /\ Pushing /\ Taken /\ length > 0 /\ buffer' = SubSeq(Pushed, length + 1, Len(Pushed))
      /\ got' = IF intact THEN got \o <<decode_input(SubSeq(Pushed, 1, length))>> ELSE << >>
      /\ discarding_paste' = discarding_paste /\ discard_match' = discard_match
      /\ intact' = intact /\ message' = message /\ start' = start
  BY DEF PushComplete, Results
<1>2. /\ message' \in Messages /\ start' \in {"idle", "discarding"} /\ discard_match' \in 0..3
      /\ discarding_paste' \in BOOLEAN /\ ~discarding_paste'
  BY <1>1 DEF DecoderInv, Pushing
<1>3. CASE ~intact
  BY <1>1, <1>2, <1>3 DEF DecoderInv
<1>4. CASE intact
  <2> DEFINE k == Read + 1
  <2>1. /\ k \in 1..Len(Wire) /\ Suffix' /\ Outcome' = Outcome /\ Lost' = Lost
        /\ left' = << >> <=> k = Len(Wire)
        /\ start = "idle"
        /\ ~Lost => Buffering /\ Prefix(Pushed, k) /\ Answered(Pushed, k)
    BY <1>1, <1>4, PushedByte
  <2> HIDE DEF k
  <2>2. ASSUME ~Lost
        PROVE  Done'
    <3>1. k = Len(Wire) /\ next_sequence_length(Pushed) = Complete(k) /\ decode_input(Pushed) = Outcome
      BY <1>1, <2>1, <2>2 DEF Answered, Incomplete, Complete, Fails
    <3>2. length = k
      BY <3>1 DEF Complete
    <3>3. Pushed \in Seq(Byte) /\ Len(Pushed) = k /\ k \in Nat
      BY <2>1, <2>2 DEF Prefix
    <3> HIDE DEF length
    <3>4. SubSeq(Pushed, 1, length) = Pushed
      <4>1. \A i \in 1..k : Pushed[i] \in Byte
        BY <3>3
      <4>2. /\ SubSeq(Pushed, 1, k) \in Seq(Byte)
            /\ Len(SubSeq(Pushed, 1, k)) = IF 1 <= k THEN k - 1 + 1 ELSE 0
            /\ \A i \in 1..(k - 1 + 1) : SubSeq(Pushed, 1, k)[i] = Pushed[1 + i - 1]
        <5>1. 1 \in Int /\ k \in Int
          BY <3>3
        <5> QED BY <4>1, <5>1, SubSeqProperties
      <4>3. Len(SubSeq(Pushed, 1, k)) = k /\ \A i \in 1..k : SubSeq(Pushed, 1, k)[i] = Pushed[i]
        BY <3>3, <4>2
      <4>4. SubSeq(Pushed, 1, k) = Pushed
        BY <3>3, <4>2, <4>3, SeqEqual
      <4> QED BY <3>2, <4>4
    <3>5. buffer' = << >>
      <4>1. k + 1 \in Int /\ k \in Int /\ k < k + 1
        BY <3>3
      <4>2. SubSeq(Pushed, k + 1, k) = << >>
        BY <4>1, SubSeqEmpty
      <4> QED BY <1>1, <3>2, <3>3, <4>2
    <3>6. got' = <<Outcome>>
      <4>1. got = << >>
        BY <2>1, <2>2 DEF Buffering
      <4>2. got' = << >> \o <<Outcome>>
        BY <1>1, <1>4, <3>1, <3>4, <4>1
      <4> QED BY <4>2
    <3> QED BY <1>2, <2>1, <3>1, <3>5, <3>6 DEF Done
  <2> QED BY <1>1, <1>2, <2>1, <2>2 DEF DecoderInv
<1> QED BY <1>3, <1>4

LEMMA PushFailsKeeps ==
  ASSUME DecoderInv, PushFails
  PROVE  DecoderInv'
<1> DEFINE error == next_sequence_length(Pushed).error
<1>1. /\ Pushing /\ Taken /\ error # "none" /\ buffer' = << >> /\ discard_match' = 0
      /\ discarding_paste' = (error = "PasteLimit" /\ ~IsSuffix(End, Pushed))
      /\ got' = IF intact THEN got \o <<Error(error)>> ELSE << >>
      /\ intact' = intact /\ message' = message /\ start' = start
  BY DEF PushFails, Results
<1>2. /\ message' \in Messages /\ start' \in {"idle", "discarding"} /\ discard_match' \in 0..3
      /\ discarding_paste' \in BOOLEAN
  BY <1>1 DEF DecoderInv
<1>3. CASE ~intact
  BY <1>1, <1>2, <1>3 DEF DecoderInv
<1>4. CASE intact
  <2> DEFINE k == Read + 1
  <2>1. /\ k \in 1..Len(Wire) /\ Suffix' /\ Outcome' = Outcome /\ Lost' = Lost
        /\ Wire' = Wire /\ Plain' = Plain /\ Pasted' = Pasted /\ Read' = k
        /\ left' = << >> <=> k = Len(Wire)
        /\ start = "idle"
        /\ ~Lost => Buffering /\ Prefix(Pushed, k) /\ Answered(Pushed, k)
    BY <1>1, <1>4, PushedByte
  <2> HIDE DEF k
  <2>2. ASSUME ~Lost
        PROVE  Done' \/ Overflowed'
    <3>1. got = << >>
      BY <2>1, <2>2 DEF Buffering
    <3>2. CASE /\ k = Len(Wire)
               /\ \E e \in {"SequenceLimit", "PasteLimit"} :
                    /\ next_sequence_length(Pushed) = Fails(e) /\ Outcome = Error(e)
                    /\ e = "PasteLimit" => IsSuffix(End, Pushed)
      <4>1. Outcome = Error(error) /\ (error = "PasteLimit" => IsSuffix(End, Pushed))
        BY <3>2 DEF Fails
      <4> HIDE DEF error
      <4>2. ~discarding_paste'
        BY <1>1, <4>1
      <4>3. got' = << >> \o <<Outcome>>
        BY <1>1, <1>4, <3>1, <4>1
      <4>4. got' = <<Outcome>>
        BY <4>3
      <4> QED BY <1>1, <2>1, <3>2, <4>2, <4>4 DEF Done
    <3>3. CASE /\ Pasted /\ k <= Plain /\ ~IsSuffix(End, Pushed)
               /\ next_sequence_length(Pushed) = Fails("PasteLimit") /\ Outcome = Error("PasteLimit")
      <4>1. error = "PasteLimit"
        BY <3>3 DEF Fails
      <4> HIDE DEF error
      <4>2. discarding_paste'
        BY <1>1, <3>3, <4>1
      <4>3. got' = << >> \o <<Outcome>>
        BY <1>1, <1>4, <3>1, <3>3, <4>1
      <4>4. got' = <<Outcome>>
        BY <4>3
      <4>5. Plain \in Nat /\ Len(Wire) \in Nat /\ Plain + 4 = Len(Wire) /\ k \in Nat /\ k >= 1
        <5>1. WireShape
          BY MessageShape DEF DecoderInv
        <5>2. Plain \in Nat /\ Len(Wire) \in Nat
          BY <5>1 DEF WireShape
        <5> QED BY <2>1, <3>3, <5>2 DEF Plain, End
      <4>6. left' # << >>
        BY <2>1, <3>3, <4>5
      <4>7. Tracked'
        BY <1>1, <2>1, <3>3, <4>5 DEF Tracked
      <4> QED BY <1>1, <2>1, <3>3, <4>2, <4>4, <4>5, <4>6, <4>7 DEF Overflowed
    <3> QED BY <1>1, <2>1, <2>2, <3>2, <3>3 DEF Answered, Incomplete, Complete
  <2> QED BY <1>1, <1>2, <2>1, <2>2 DEF DecoderInv
<1> QED BY <1>3, <1>4

LEMMA PushDiscardedKeeps ==
  ASSUME DecoderInv, PushDiscarded
  PROVE  DecoderInv'
<1>1. /\ left # << >> /\ left' = Tail(left) /\ discarding_paste /\ buffer' = buffer /\ got' = got
      /\ intact' = intact /\ message' = message /\ start' = start
  BY DEF PushDiscarded, Taken, history
<1>2. /\ message' \in Messages /\ start' \in {"idle", "discarding"} /\ buffer' = << >>
      /\ discard_match \in 0..3
  BY <1>1 DEF DecoderInv
<1>3. discard_match' \in 0..3 /\ discarding_paste' \in BOOLEAN
  <2>1. /\ discarding_paste' = (Matched(Head(left)) < Len(End))
        /\ discard_match' = IF discarding_paste' THEN Matched(Head(left)) ELSE 0
    BY DEF PushDiscarded
  <2>2. Matched(Head(left)) \in 0..4 /\ Len(End) = 4
    BY <1>2 DEF Matched, End
  <2>3. (Matched(Head(left)) < Len(End)) => Matched(Head(left)) \in 0..3
    BY <2>2
  <2>4. 0 \in 0..3
    OBVIOUS
  <2>5. (Matched(Head(left)) < Len(End)) \in BOOLEAN
    OBVIOUS
  <2> QED BY <2>1, <2>3, <2>4, <2>5, Zenon
<1>4. CASE ~intact
  BY <1>1, <1>2, <1>3, <1>4 DEF DecoderInv
<1>5. CASE intact
  <2>1. WireShape /\ Suffix /\ message \in Messages
    BY <1>5, MessageShape DEF DecoderInv
  <2>2. /\ Pasted' = Pasted /\ Suffix' /\ Read' = Read + 1 /\ Read \in 0..(Len(Wire) - 1)
        /\ Outcome' = Outcome /\ Lost' = Lost
    BY <1>1, <2>1, ByteTaken DEF Outcome, Lost, Pasted
  <2>3. Tracked => IF discarding_paste' THEN Tracked' /\ (Pasted => left' # << >>)
                                        ELSE Pasted /\ left' = << >>
    BY <1>1, <1>2, <2>1, DiscardTracks
  <2>4. ASSUME start = "discarding"
        PROVE  Discarded'
    <3>1. got = << >> /\ Tracked
      BY <1>1, <1>5, <2>4 DEF DecoderInv, Discarded
    <3> QED BY <1>1, <1>2, <2>2, <2>3, <3>1 DEF Discarded
  <2>5. ASSUME start = "idle", ~Lost
        PROVE  Done' \/ Overflowed'
    <3>1. Overflowed
      BY <1>1, <1>5, <2>5 DEF DecoderInv, Buffering, Done
    <3>2. got' = <<Outcome'>> /\ Pasted' /\ Tracked
      BY <1>1, <2>2, <3>1 DEF Overflowed
    <3>3. CASE ~discarding_paste'
      BY <1>2, <2>3, <3>2, <3>3 DEF Done
    <3>4. CASE discarding_paste'
      <4>1. Read' >= 1
        <5>1. ASSUME NEW r, NEW n \in Nat, r \in 0..(n - 1)
              PROVE  r + 1 >= 1
          BY <5>1
        <5>2. Len(Wire) \in Nat
          BY <2>1 DEF WireShape
        <5> QED BY <2>2, <5>1, <5>2
      <4> QED BY <1>2, <2>2, <2>3, <3>2, <3>4, <4>1 DEF Overflowed
    <3> QED BY <3>3, <3>4
  <2> QED BY <1>1, <1>2, <1>3, <2>2, <2>4, <2>5 DEF DecoderInv
<1> QED BY <1>4, <1>5

LEMMA FinishKeeps ==
  ASSUME DecoderInv, Finish
  PROVE  DecoderInv'
<1>1. buffer' = << >> /\ discarding_paste' = FALSE /\ discard_match' = 0 /\ left' = left
  BY DEF Finish, Clear
<1>2. CASE ~(left = << >> /\ ~discarding_paste)
  <2>1. Forget
    <3>1. CASE left # << >>
      BY <3>1 DEF Finish
    <3>2. CASE discarding_paste
      BY <3>2 DEF Finish
    <3> QED BY <1>2, <3>1, <3>2
  <2>2. 0 \in 0..3 /\ FALSE \in BOOLEAN
    OBVIOUS
  <2> QED BY <1>1, <2>1, <2>2, Forgotten
<1>3. CASE left = << >> /\ ~discarding_paste
  <2> DEFINE results == CASE buffer = << >>    -> << >>
                          [] buffer = <<"ESC">> -> <<decode_input(buffer)>>
                          [] OTHER              -> <<Error("Invalid")>>
  <2>1. /\ got' = IF intact THEN got \o results ELSE << >>
        /\ intact' = intact /\ message' = message /\ start' = start
    BY <1>3 DEF Finish, Results
  <2>2. <<"ESC">> # << >>
    OBVIOUS
  <2>3. /\ buffer = << >> => results = << >>
        /\ buffer = <<"ESC">> => results = <<decode_input(buffer)>>
    BY <2>2
  <2> HIDE DEF results
  <2>4. message' \in Messages /\ start' \in {"idle", "discarding"} /\ (intact => Suffix')
    BY <1>1, <2>1 DEF DecoderInv, Suffix, Wire, Read
  <2>5. Outcome' = Outcome /\ Lost' = Lost /\ Pasted' = Pasted
    BY <2>1 DEF Outcome, Lost, Pasted
  <2>6. ASSUME intact, start = "discarding"
        PROVE  Discarded'
    <3>1. got = << >> /\ buffer = << >> /\ Pasted
      BY <1>3, <2>6 DEF DecoderInv, Discarded
    <3>2. got' = << >> \o << >>
      BY <2>1, <2>3, <2>6, <3>1
    <3>3. got' = << >>
      BY <3>2
    <3> QED BY <1>1, <1>3, <2>5, <3>1, <3>3 DEF Discarded
  <2>7. ASSUME intact, start = "idle", ~Lost
        PROVE  Done'
    <3>1. Buffering \/ Done
      BY <1>3, <2>7 DEF DecoderInv, Overflowed
    <3>2. CASE Done
      <4>1. got' = <<Outcome>> \o << >>
        BY <2>1, <2>3, <2>7, <3>2 DEF Done
      <4>2. got' = <<Outcome>>
        BY <4>1
      <4> QED BY <1>1, <1>3, <2>5, <4>2 DEF Done
    <3>3. CASE Buffering
      <4>1. message = Escape /\ MaxSequenceBytes # 0 /\ got = << >> /\ Prefix(buffer, Read)
        BY <1>3, <3>3 DEF Buffering
      <4>2. Wire = <<"ESC">> /\ ~Pasted /\ message \in Messages
        BY <4>1 DEF Wire, Bytes, Escape, Pasted, DecoderInv
      <4>3. Len(Wire) = 1 /\ Wire[1] = "ESC"
        BY <4>2
      <4>4. Read = Len(Wire)
        <5>1. Len(left) = 0
          BY <1>3
        <5> QED BY <4>3, <5>1 DEF Read
      <4>5. buffer = <<"ESC">>
        BY <4>1, <4>2, <4>4, MessageShape, PrefixWhole
      <4>6. decode_input(buffer) = Outcome
        <5>1. ~IsPrefix(Start, Wire) /\ Len(Wire) <= MaxSequenceBytes
          <6>1. Wire \in Seq(Byte)
            BY <4>2, MessageShape DEF WireShape
          <6>2. ~IsPrefix(Start, Wire)
            BY <4>3, <6>1, StartPrefix
          <6> QED BY <4>1, <4>3, <6>2, LimitsAssumption
        <5> QED BY <4>2, <4>5, <5>1, KeyDecoded
      <4>7. got' = << >> \o <<Outcome>>
        BY <2>1, <2>3, <2>7, <4>1, <4>5, <4>6
      <4>8. got' = <<Outcome>>
        BY <4>7
      <4> QED BY <1>1, <1>3, <2>5, <4>8 DEF Done
    <3> QED BY <3>1, <3>2, <3>3
  <2>8. discard_match' \in 0..3 /\ discarding_paste' \in BOOLEAN
    <3>1. 0 \in 0..3 /\ FALSE \in BOOLEAN
      OBVIOUS
    <3> QED BY <1>1, <3>1, Zenon
  <2> QED BY <1>1, <2>1, <2>4, <2>5, <2>6, <2>7, <2>8 DEF DecoderInv
<1> QED BY <1>2, <1>3

LEMMA DecoderHolds == DecoderSpec => []DecoderInv
<1>1. DecoderInit => DecoderInv
  BY DecoderStarts
<1>2. DecoderInv /\ [DecoderNext]_decoder_vars => DecoderInv'
  <2> SUFFICES ASSUME DecoderInv, [DecoderNext]_decoder_vars
               PROVE  DecoderInv'
    OBVIOUS
  <2>1. CASE Sends
    BY <2>1, SendsKeeps
  <2>2. CASE PushIncomplete
    BY <2>2, PushIncompleteKeeps
  <2>3. CASE PushComplete
    BY <2>3, PushCompleteKeeps
  <2>4. CASE PushFails
    BY <2>4, PushFailsKeeps
  <2>5. CASE PushDiscarded
    BY <2>5, PushDiscardedKeeps
  <2>6. CASE PushCancelled
    <3>1. Forget /\ discard_match' = discard_match /\ discarding_paste' = discarding_paste /\ buffer' = buffer
      BY <2>6 DEF PushCancelled, decoder
    <3> QED BY <3>1, Forgotten DEF DecoderInv
  <2>7. CASE Finish
    BY <2>7, FinishKeeps
  <2>8. CASE ResetDecoder
    <3>1. Forget /\ discard_match' = 0 /\ discarding_paste' = FALSE /\ buffer' = << >>
      BY <2>8 DEF ResetDecoder, Clear
    <3>2. 0 \in 0..3 /\ FALSE \in BOOLEAN
      OBVIOUS
    <3> QED BY <3>1, <3>2, Forgotten
  <2>9. CASE UNCHANGED decoder_vars
    <3>1. /\ left' = left /\ buffer' = buffer /\ discarding_paste' = discarding_paste
          /\ discard_match' = discard_match /\ intact' = intact /\ message' = message
          /\ start' = start /\ got' = got
      BY <2>9 DEF decoder_vars, decoder, history
    <3> QED BY <3>1 DEF DecoderInv, Suffix, Wire, Read, Plain, Pasted, Discarded, Buffering, Done,
                        Overflowed, Tracked, Outcome, Lost, Prefix
  <2> QED BY <2>1, <2>2, <2>3, <2>4, <2>5, <2>6, <2>7, <2>8, <2>9 DEF DecoderNext
<1> QED BY <1>1, <1>2, PTL DEF DecoderSpec

\* A paste that reaches a decoder that discards brings it back to idle without a
\* result, wherever the discarding began and whatever the paste holds, and nothing
\* else does (consume_discarded_paste_byte).
THEOREM DiscardingEndsWithThePaste == DecoderSpec => []DiscardsToEndOfPaste
<1>1. DecoderInv => DiscardsToEndOfPaste
  BY DEF DecoderInv, DiscardsToEndOfPaste, Delivered, Discarded, Idle
<1> QED BY <1>1, DecoderHolds, PTL

\* A message that reaches an idle decoder whole gives its one result and leaves the
\* decoder idle, however its bytes were cut, for any limits, pastes and parameters
\* (push_with_cancellation_map, next_sequence_length, decode_input_event).
THEOREM EveryMessageOneResult == DecoderSpec => []OneResultEach
<1>1. ASSUME DecoderInv
      PROVE  OneResultEach
  <2> SUFFICES ASSUME Delivered("idle"), ~EndLost
               PROVE  Idle /\ got = <<Outcome>>
    BY DEF OneResultEach
  <2>1. intact /\ start = "idle" /\ left = << >>
    BY DEF Delivered
  <2>2. ~Lost /\ ~(message = Escape /\ got = << >>)
    BY DEF EndLost, Lost
  <2>3. Buffering \/ Done \/ Overflowed
    BY <1>1, <2>1, <2>2 DEF DecoderInv
  <2>4. Done
    BY <2>1, <2>2, <2>3 DEF Buffering, Overflowed
  <2> QED BY <2>4 DEF Done, Idle
<1> QED BY <1>1, DecoderHolds, PTL

(***************************************************************************)
(* InputAdapter.                                                             *)
(***************************************************************************)

Strings  == Characters \cup Pastes
AllKeys  == Characters \cup Keys \cup Untranslated \cup Unnamed
TextCall(string) == [call |-> "InsertText", text |-> string]

\* The calls that insert no text: an event makes one, and it is the first.
FirstCalls ==
  [call : {"Key"}, kind : {"Press", "Repeat", "Release"}, key : AllKeys, modifiers : Modifiers]
  \cup [call : {"Pointer"}, kind : {"Press", "Release"}, button : Buttons]
  \cup [call : {"Pointer"}, kind : {"Wheel", "Move"}, button : Wheels \cup {"None"}]
  \cup [call : {"Focus"}, focused : BOOLEAN]

\* What the user typed and Chrome was not given is the text of the event being
\* sent, or of the one the session ended in.
TextInv ==
  /\ typed \in Seq(Strings) /\ text \in Seq(Strings)
  /\ typed = text \/ \E string \in Strings : typed = Append(text, string)
  /\ pc \in {"idle", "Quit"} => typed = text
  /\ pc = "idle" => actions = <<>>
  /\ pc = "sending" =>
       \/ \E string \in Strings : actions = <<TextCall(string)>> /\ typed = Append(text, string)
       \/ \E first \in FirstCalls : actions = <<first>> /\ typed = text
       \/ \E first \in FirstCalls, string \in Strings :
            actions = <<first, TextCall(string)>> /\ typed = Append(text, string)

\* What Chrome believes is down once it was sent a call.
After(call) ==
  CASE call.call = "Key" -> IF call.kind = "Release" THEN down \ {call.key} ELSE down \cup {call.key}
    [] call.call = "Pointer" /\ call.kind = "Press"   -> down \cup {call.button}
    [] call.call = "Pointer" /\ call.kind = "Release" -> down \ {call.button}
    [] OTHER -> down

Agrees(believed) ==
  /\ believed \ held \subseteq missed
  /\ held \ believed \subseteq taken
  /\ believed \cap Buttons \subseteq held
  /\ believed \cup held \subseteq AllKeys \cup Buttons

\* Chrome and the user agree as soon as the first call of the event is made.
HeldInv ==
  /\ pc = "idle" => Agrees(down)
  /\ pc = "sending" => Agrees(After(Head(actions)))

InputInv == pc \in {"idle", "sending"} \cup Ends /\ TextInv /\ HeldInv

LEMMA Pair ==
  ASSUME NEW a, NEW b
  PROVE  <<a>> \o <<b>> = <<a, b>>
<1>1. <<a>> \in Seq({a, b})
  OBVIOUS
<1>2. Append(<<a>>, b) = <<a>> \o <<b>>
  BY <1>1, AppendIsConcat
<1>3. Append(<<a>>, b) \in Seq({a, b}) /\ <<a, b>> \in Seq({a, b})
  BY <1>1
<1>4. Len(Append(<<a>>, b)) = 2 /\ Append(<<a>>, b)[1] = a /\ Append(<<a>>, b)[2] = b
  BY <1>1
<1>5. Len(<<a, b>>) = 2 /\ <<a, b>>[1] = a /\ <<a, b>>[2] = b
  OBVIOUS
<1>6. \A i \in 1..Len(<<a, b>>) : Append(<<a>>, b)[i] = <<a, b>>[i]
  BY <1>4, <1>5
<1>7. Append(<<a>>, b) = <<a, b>>
  BY <1>3, <1>4, <1>5, <1>6, SeqEqual
<1> QED BY <1>2, <1>7

LEMMA InitInputInv == AdapterInit => InputInv
BY DEF AdapterInit, InputInv, TextInv, HeldInv, Agrees, Ends

-----------------------------------------------------------------------------
(* An event. *)

KeyMade(e) ==
  \E code \in AllKeys, kind \in {"Press", "Repeat", "Release"}, modifiers \in Modifiers :
    e = Key(code, kind, modifiers)

ButtonMade(e) ==
  \E button \in Buttons, pressed \in BOOLEAN, column \in 0..Columns, modifiers \in Modifiers :
    e = Mouse(button, pressed, column, modifiers)

WheelMade(e) ==
  \E wheel \in Wheels, column \in 0..Columns, modifiers \in Modifiers :
    e = Mouse(wheel, TRUE, column, modifiers)

MoveMade(e) ==
  \E column \in 0..Columns, modifiers \in Modifiers : e = Mouse("None", FALSE, column, modifiers)

OtherMade(e) ==
  \/ ButtonMade(e)
  \/ WheelMade(e)
  \/ MoveMade(e)
  \/ \E string \in Pastes : e = Paste(string)
  \/ \E focused \in BOOLEAN : e = Focus(focused)

\* What an event types and the calls it makes go together.
LEMMA KeyMakes ==
  ASSUME NEW code \in AllKeys, NEW kind \in {"Press", "Repeat", "Release"}, NEW modifiers \in Modifiers,
         NEW e, e = Key(code, kind, modifiers)
  PROVE  /\ e.type = "key" /\ Input(e) = code
         /\ Pressing(e) <=> kind = "Press"
         /\ Releasing(e) <=> kind = "Release"
         /\ LET first == [call |-> "Key", kind |-> kind, key |-> code, modifiers |-> modifiers]
            IN  /\ first \in FirstCalls
                /\ \/ translate(e) = <<first>> /\ (KeptFromChrome(e) \/ Meant(e) = <<>>)
                   \/ /\ code \in Strings /\ translate(e) = <<first, TextCall(code)>>
                      /\ KeptFromChrome(e) \/ Meant(e) = <<code>>
         /\ KeptFromChrome(e) \/ is_quit_key(e) \/ Unsupported(e) => Meant(e) = <<>>
         /\ Meant(e) = <<>> \/ \E string \in Strings : Meant(e) = <<string>>
<1>1. e.type = "key" /\ e.code = code /\ e.kind = kind /\ e.modifiers = modifiers
  BY DEF Key
<1>2. Input(e) = code /\ (Pressing(e) <=> kind = "Press") /\ (Releasing(e) <=> kind = "Release")
  BY <1>1 DEF Input, Pressing, Releasing
<1> DEFINE first == [call |-> "Key", kind |-> kind, key |-> code, modifiers |-> modifiers]
<1>3. first \in FirstCalls
  BY DEF FirstCalls
<1>4. translate(e) = <<first>> \o (IF kind # "Release" /\ KeyText(e) # <<>> THEN text_actions(Head(KeyText(e))) ELSE <<>>)
  BY <1>1 DEF translate, key_actions
<1>5. Meant(e) = IF kind # "Release" /\ ~KeptFromChrome(e) THEN KeyText(e) ELSE <<>>
  BY <1>1 DEF Meant
<1>6. KeyText(e) = <<>> \/ (KeyText(e) = <<code>> /\ code \in Characters /\ "CONTROL" \notin modifiers)
  BY <1>1 DEF KeyText
<1>7. is_quit_key(e) \/ Unsupported(e) => KeyText(e) = <<>>
  BY <1>1, <1>6, AdapterAssumption DEF is_quit_key, Unsupported
<1>8. CASE kind # "Release" /\ KeyText(e) # <<>>
  <2>1. KeyText(e) = <<code>> /\ code \in Characters
    BY <1>6, <1>8
  <2>2. text_actions(code) = <<TextCall(code)>> /\ code \in Strings
    BY <2>1, AdapterAssumption DEF text_actions, TextCall, Strings
  <2>3. Head(KeyText(e)) = code
    BY <2>1
  <2>4. translate(e) = <<first>> \o <<TextCall(code)>>
    BY <1>4, <1>8, <2>2, <2>3
  <2> HIDE DEF first
  <2>5. <<first>> \o <<TextCall(code)>> = <<first, TextCall(code)>>
    BY Pair
  <2>6. translate(e) = <<first, TextCall(code)>>
    BY <2>4, <2>5
  <2>7. KeptFromChrome(e) \/ Meant(e) = <<code>>
    BY <1>5, <1>8, <2>1
  <2>8. KeptFromChrome(e) \/ is_quit_key(e) \/ Unsupported(e) => Meant(e) = <<>>
    BY <1>5, <1>7
  <2>9. Meant(e) = <<>> \/ Meant(e) = <<code>>
    BY <1>5, <2>1
  <2> QED BY <1>1, <1>2, <1>3, <2>2, <2>6, <2>7, <2>8, <2>9 DEF first
<1>9. CASE ~(kind # "Release" /\ KeyText(e) # <<>>)
  <2>1. translate(e) = <<first>> \o <<>> /\ Meant(e) = <<>>
    BY <1>4, <1>5, <1>9
  <2> HIDE DEF first
  <2>2. <<first>> \o <<>> = <<first>>
    OBVIOUS
  <2>3. translate(e) = <<first>>
    BY <2>1, <2>2
  <2> QED BY <1>1, <1>2, <1>3, <2>1, <2>3 DEF first
<1> QED BY <1>8, <1>9

LEMMA OtherMakes ==
  ASSUME NEW e,
         OtherMade(e)
  PROVE  /\ e.type # "key"
         /\ \/ /\ Meant(e) = <<>>
               /\ translate(e) = <<>> \/ \E first \in FirstCalls : translate(e) = <<first>>
            \/ \E string \in Strings : Meant(e) = <<string>> /\ translate(e) = <<TextCall(string)>>
         /\ ~KeptFromChrome(e) /\ ~is_quit_key(e) /\ ~Unsupported(e)
<1>1. CASE ButtonMade(e)
  <2>1. PICK button \in Buttons, pressed \in BOOLEAN, column \in 0..Columns, modifiers \in Modifiers :
          e = Mouse(button, pressed, column, modifiers)
    BY <1>1 DEF ButtonMade
  <2>2. e.type = "mouse" /\ e.button = button /\ e.pressed = pressed
    BY <2>1 DEF Mouse
  <2>3. button \notin Wheels /\ Meant(e) = <<>>
    BY <2>2 DEF Buttons, Wheels, Meant
  <2> DEFINE first == [call |-> "Pointer", kind |-> IF pressed THEN "Press" ELSE "Release", button |-> button]
  <2>4. translate(e) = <<first>>
    BY <2>2, <2>3 DEF translate, pointer_actions
  <2>5. first \in FirstCalls
    BY DEF FirstCalls
  <2> QED BY <2>2, <2>3, <2>4, <2>5 DEF KeptFromChrome, is_quit_key, Unsupported
<1>2. CASE WheelMade(e)
  <2>1. PICK wheel \in Wheels, column \in 0..Columns, modifiers \in Modifiers :
          e = Mouse(wheel, TRUE, column, modifiers)
    BY <1>2 DEF WheelMade
  <2>2. e.type = "mouse" /\ e.button = wheel /\ e.pressed
    BY <2>1 DEF Mouse
  <2>6. wheel \in Wheels /\ wheel \notin Buttons
    BY DEF Wheels, Buttons
  <2>7. pointer_actions(e) = <<[call |-> "Pointer", kind |-> "Wheel", button |-> wheel]>>
    BY <2>2, <2>6 DEF pointer_actions
  <2>3. translate(e) = <<[call |-> "Pointer", kind |-> "Wheel", button |-> wheel]>> /\ Meant(e) = <<>>
    BY <2>2, <2>7 DEF translate, Meant
  <2>4. [call |-> "Pointer", kind |-> "Wheel", button |-> wheel] \in FirstCalls
    BY DEF FirstCalls
  <2> QED BY <2>2, <2>3, <2>4 DEF KeptFromChrome, is_quit_key, Unsupported
<1>3. CASE MoveMade(e)
  <2>1. e.type = "mouse" /\ e.button = "None" /\ e.pressed = FALSE
    BY <1>3 DEF MoveMade, Mouse
  <2>2. translate(e) = <<[call |-> "Pointer", kind |-> "Move", button |-> "None"]>> /\ Meant(e) = <<>>
    BY <2>1 DEF translate, pointer_actions, Meant, Wheels, Buttons
  <2>3. [call |-> "Pointer", kind |-> "Move", button |-> "None"] \in FirstCalls
    BY DEF FirstCalls
  <2> QED BY <2>1, <2>2, <2>3 DEF KeptFromChrome, is_quit_key, Unsupported
<1>4. CASE \E string \in Pastes : e = Paste(string)
  <2>1. PICK string \in Pastes : e = Paste(string)
    BY <1>4
  <2>2. e.type = "paste" /\ e.text = string
    BY <2>1 DEF Paste
  <2>3. Meant(e) = (IF string = "" THEN <<>> ELSE <<string>>) /\ translate(e) = text_actions(string)
    BY <2>2 DEF Meant, translate
  <2> QED BY <2>2, <2>3 DEF text_actions, TextCall, Strings, KeptFromChrome, is_quit_key, Unsupported
<1>5. CASE \E focused \in BOOLEAN : e = Focus(focused)
  <2>1. PICK focused \in BOOLEAN : e = Focus(focused)
    BY <1>5
  <2>2. e.type = "focus" /\ e.focused = focused
    BY <2>1 DEF Focus
  <2>3. translate(e) = <<[call |-> "Focus", focused |-> focused]>> /\ Meant(e) = <<>>
    BY <2>2 DEF translate, Meant
  <2>4. [call |-> "Focus", focused |-> focused] \in FirstCalls
    BY DEF FirstCalls
  <2> QED BY <2>2, <2>3, <2>4 DEF KeptFromChrome, is_quit_key, Unsupported
<1> QED BY <1>1, <1>2, <1>3, <1>4, <1>5 DEF OtherMade

LEMMA EventText ==
  ASSUME NEW e, KeyMade(e) \/ OtherMade(e)
  PROVE  /\ Meant(e) = <<>> \/ \E string \in Strings : Meant(e) = <<string>>
         /\ KeptFromChrome(e) \/ is_quit_key(e) \/ Unsupported(e) => Meant(e) = <<>>
         /\ ~KeptFromChrome(e) =>
              \/ /\ Meant(e) = <<>>
                 /\ translate(e) = <<>> \/ \E first \in FirstCalls : translate(e) = <<first>>
              \/ \E string \in Strings :
                   /\ Meant(e) = <<string>>
                   /\ \/ translate(e) = <<TextCall(string)>>
                      \/ \E first \in FirstCalls : translate(e) = <<first, TextCall(string)>>
<1>1. CASE KeyMade(e)
  <2>1. PICK code \in AllKeys, kind \in {"Press", "Repeat", "Release"}, modifiers \in Modifiers :
          e = Key(code, kind, modifiers)
    BY <1>1 DEF KeyMade
  <2> DEFINE first == [call |-> "Key", kind |-> kind, key |-> code, modifiers |-> modifiers]
  <2>2. /\ first \in FirstCalls
        /\ \/ translate(e) = <<first>> /\ (KeptFromChrome(e) \/ Meant(e) = <<>>)
           \/ /\ code \in Strings /\ translate(e) = <<first, TextCall(code)>>
              /\ KeptFromChrome(e) \/ Meant(e) = <<code>>
        /\ KeptFromChrome(e) \/ is_quit_key(e) \/ Unsupported(e) => Meant(e) = <<>>
        /\ Meant(e) = <<>> \/ \E string \in Strings : Meant(e) = <<string>>
    BY <2>1, KeyMakes
  <2> HIDE DEF first
  <2> QED BY <2>2
<1>2. CASE OtherMade(e)
  BY <1>2, OtherMakes
<1> QED BY <1>1, <1>2

\* What an event does to the keys and buttons held, by the user and in Chrome.
LEMMA EventHeld ==
  ASSUME NEW e, KeyMade(e) \/ OtherMade(e)
  PROVE  /\ KeptFromChrome(e) => /\ e.type = "key" /\ Input(e) \in AllKeys /\ e.code = Input(e)
                                 /\ ~Pressing(e) /\ ~Releasing(e) => e.kind = "Repeat"
         /\ translate(e) = <<>> => /\ ~Pressing(e) /\ ~Releasing(e) /\ e.type # "key"
                                   /\ Input(e) \notin AllKeys \cup Buttons
         /\ translate(e) # <<>> =>
              \/ /\ Pressing(e) /\ ~Releasing(e) /\ Input(e) \in AllKeys \cup Buttons
                 /\ After(Head(translate(e))) = down \cup {Input(e)}
              \/ /\ Releasing(e) /\ ~Pressing(e) /\ Input(e) \in AllKeys \cup Buttons
                 /\ After(Head(translate(e))) = down \ {Input(e)}
              \/ /\ ~Pressing(e) /\ ~Releasing(e) /\ Input(e) \in AllKeys
                 /\ e.type = "key" /\ e.kind = "Repeat" /\ e.code = Input(e)
                 /\ After(Head(translate(e))) = down \cup {Input(e)}
              \/ /\ ~Pressing(e) /\ ~Releasing(e) /\ e.type # "key"
                 /\ Input(e) \notin AllKeys \cup Buttons
                 /\ After(Head(translate(e))) = down
<1>1. CASE KeyMade(e)
  <2>1. PICK code \in AllKeys, kind \in {"Press", "Repeat", "Release"}, modifiers \in Modifiers :
          e = Key(code, kind, modifiers)
    BY <1>1 DEF KeyMade
  <2> DEFINE first == [call |-> "Key", kind |-> kind, key |-> code, modifiers |-> modifiers]
  <2>2. /\ e.type = "key" /\ Input(e) = code
        /\ Pressing(e) <=> kind = "Press"
        /\ Releasing(e) <=> kind = "Release"
    BY <2>1, KeyMakes
  <2>6. /\ first \in FirstCalls
        /\ \/ translate(e) = <<first>> /\ (KeptFromChrome(e) \/ Meant(e) = <<>>)
           \/ /\ code \in Strings /\ translate(e) = <<first, TextCall(code)>>
              /\ KeptFromChrome(e) \/ Meant(e) = <<code>>
    BY <2>1, KeyMakes
  <2>3. e.kind = kind /\ e.code = code
    BY <2>1 DEF Key
  <2>4. After(first) = IF kind = "Release" THEN down \ {code} ELSE down \cup {code}
    BY DEF After
  <2> HIDE DEF first
  <2>5. translate(e) # <<>> /\ Head(translate(e)) = first
    BY <2>6
  <2> QED BY <2>2, <2>3, <2>4, <2>5
<1>2. CASE OtherMade(e)
  <2>1. e.type # "key" /\ ~KeptFromChrome(e)
    BY <1>2, OtherMakes
  <2>2. "None" \notin AllKeys \cup Buttons /\ \A wheel \in Wheels : wheel \notin AllKeys \cup Buttons
    BY AdapterAssumption DEF AllKeys, Buttons, Wheels, Untranslated, Unnamed
  <2>3. CASE ButtonMade(e)
    <3>1. PICK button \in Buttons, pressed \in BOOLEAN, column \in 0..Columns, modifiers \in Modifiers :
          e = Mouse(button, pressed, column, modifiers)
      BY <2>3 DEF ButtonMade
    <3>2. e.type = "mouse" /\ e.button = button /\ e.pressed = pressed
      BY <3>1 DEF Mouse
    <3>3. Input(e) = button /\ button \notin Wheels
      BY <3>2 DEF Input, Buttons, Wheels
    <3>4. (Pressing(e) <=> pressed) /\ (Releasing(e) <=> ~pressed)
      BY <3>2 DEF Pressing, Releasing
    <3> DEFINE first == [call |-> "Pointer", kind |-> IF pressed THEN "Press" ELSE "Release", button |-> button]
    <3>5. translate(e) = <<first>>
      BY <3>2, <3>3 DEF translate, pointer_actions
    <3>6. After(first) = IF pressed THEN down \cup {button} ELSE down \ {button}
      BY DEF After
    <3> HIDE DEF first
    <3>7. translate(e) # <<>> /\ Head(translate(e)) = first
      BY <3>5
    <3> QED BY <2>1, <3>3, <3>4, <3>6, <3>7
  <2>4. CASE WheelMade(e)
    <3>1. PICK wheel \in Wheels, column \in 0..Columns, modifiers \in Modifiers :
          e = Mouse(wheel, TRUE, column, modifiers)
      BY <2>4 DEF WheelMade
    <3>2. e.type = "mouse" /\ e.button = wheel /\ e.pressed
      BY <3>1 DEF Mouse
    <3>3. Input(e) = wheel /\ wheel \notin Buttons /\ wheel \in Wheels
      BY <3>2 DEF Input, Buttons, Wheels
    <3>4. ~Pressing(e) /\ ~Releasing(e)
      BY <3>2, <3>3 DEF Pressing, Releasing
    <3> DEFINE first == [call |-> "Pointer", kind |-> "Wheel", button |-> wheel]
    <3>5. pointer_actions(e) = <<first>>
      BY <3>2, <3>3 DEF pointer_actions
    <3>6. translate(e) = <<first>>
      BY <3>2, <3>5 DEF translate
    <3>7. After(first) = down
      BY DEF After
    <3> HIDE DEF first
    <3>8. translate(e) # <<>> /\ Head(translate(e)) = first
      BY <3>6
    <3> QED BY <2>1, <2>2, <3>3, <3>4, <3>7, <3>8
  <2>5. CASE MoveMade(e)
    <3>1. e.type = "mouse" /\ e.button = "None" /\ e.pressed = FALSE
      BY <2>5 DEF MoveMade, Mouse
    <3>2. Input(e) = "None" /\ ~Pressing(e) /\ ~Releasing(e)
      BY <3>1 DEF Input, Pressing, Releasing, Buttons
    <3> DEFINE first == [call |-> "Pointer", kind |-> "Move", button |-> "None"]
    <3>3. translate(e) = <<first>>
      BY <3>1 DEF translate, pointer_actions, Wheels, Buttons
    <3>4. After(first) = down
      BY DEF After
    <3> HIDE DEF first
    <3>5. translate(e) # <<>> /\ Head(translate(e)) = first
      BY <3>3
    <3> QED BY <2>1, <2>2, <3>2, <3>4, <3>5
  <2>6. CASE \E string \in Pastes : e = Paste(string)
    <3>1. PICK string \in Pastes : e = Paste(string)
      BY <2>6
    <3>2. e.type = "paste" /\ e.text = string
      BY <3>1 DEF Paste
    <3>3. Input(e) = "None" /\ ~Pressing(e) /\ ~Releasing(e)
      BY <3>2 DEF Input, Pressing, Releasing
    <3>4. translate(e) = <<>> \/ translate(e) = <<TextCall(string)>>
      BY <3>2 DEF translate, text_actions, TextCall
    <3>5. After(TextCall(string)) = down
      BY DEF After, TextCall
    <3>6. translate(e) # <<>> => Head(translate(e)) = TextCall(string)
      BY <3>4
    <3> QED BY <2>1, <2>2, <3>3, <3>5, <3>6
  <2>7. CASE \E focused \in BOOLEAN : e = Focus(focused)
    <3>1. PICK focused \in BOOLEAN : e = Focus(focused)
      BY <2>7
    <3>2. e.type = "focus" /\ e.focused = focused
      BY <3>1 DEF Focus
    <3>3. Input(e) = "None" /\ ~Pressing(e) /\ ~Releasing(e)
      BY <3>2 DEF Input, Pressing, Releasing
    <3> DEFINE first == [call |-> "Focus", focused |-> focused]
    <3>4. translate(e) = <<first>>
      BY <3>2 DEF translate
    <3>5. After(first) = down
      BY DEF After
    <3> HIDE DEF first
    <3>6. translate(e) # <<>> /\ Head(translate(e)) = first
      BY <3>4
    <3> QED BY <2>1, <2>2, <3>3, <3>5, <3>6
  <2> QED BY <1>2, <2>3, <2>4, <2>5, <2>6, <2>7 DEF OtherMade
<1> QED BY <1>1, <1>2

-----------------------------------------------------------------------------
(* The steps. *)

LEMMA EventIsMade ==
  KeyEvent \/ MouseEvent \/ TextEvent => \E e : (KeyMade(e) \/ OtherMade(e)) /\ Handle(e)
<1>1. ASSUME KeyEvent
      PROVE  \E e : KeyMade(e) /\ Handle(e)
  BY <1>1 DEF KeyEvent, KeyMade, AllKeys
<1>2. ASSUME MouseEvent
      PROVE  \E e : OtherMade(e) /\ Handle(e)
  BY <1>2 DEF MouseEvent, OtherMade, ButtonMade, WheelMade, MoveMade
<1>3. ASSUME TextEvent
      PROVE  \E e : OtherMade(e) /\ Handle(e)
  BY <1>3 DEF TextEvent, OtherMade
<1> QED BY <1>1, <1>2, <1>3

\* Where an event leaves the session and the calls to make.
LEMMA EventStep ==
  ASSUME NEW e, Handle(e)
  PROVE  /\ pc = "idle" /\ Reported(e) /\ UNCHANGED <<down, text>>
         /\ typed' = typed \o Meant(e)
         /\ \/ /\ KeptFromChrome(e)
               /\ pc' \in {"idle"} \cup Ends /\ pc' # "Quit" /\ actions' = actions
            \/ /\ is_quit_key(e) \/ Unsupported(e)
               /\ pc' \in Ends /\ actions' = actions
            \/ /\ ~KeptFromChrome(e)
               /\ \/ pc' \in Ends /\ pc' # "Quit" /\ actions' = actions
                  \/ pc' = "idle" /\ actions' = translate(e) /\ translate(e) = <<>>
                  \/ pc' = "sending" /\ actions' = translate(e) /\ translate(e) # <<>>
<1>1. pc = "idle" /\ Reported(e) /\ typed' = typed \o Meant(e)
  BY DEF Handle, UserMakes
<1>2. CASE Quit(e)
  BY <1>1, <1>2 DEF Quit, Ends, chrome
<1>3. CASE HandleAddressInput(e)
  BY <1>1, <1>3 DEF HandleAddressInput, Ends, chrome
<1>4. CASE Dispatch(e)
  BY <1>1, <1>4 DEF Dispatch, Ends, chrome
<1> QED BY <1>2, <1>3, <1>4 DEF Handle

LEMMA EventKeepsText ==
  ASSUME InputInv, NEW e, KeyMade(e) \/ OtherMade(e), Handle(e)
  PROVE  TextInv' /\ pc' \in {"idle", "sending"} \cup Ends
<1>1. /\ pc = "idle" /\ text' = text /\ typed' = typed \o Meant(e)
      /\ pc' \in {"idle", "sending"} \cup Ends
  BY EventStep
<1>2. typed = text /\ typed \in Seq(Strings) /\ actions = <<>>
  BY <1>1 DEF InputInv, TextInv
<1>3. Meant(e) = <<>> => typed' = text'
  BY <1>1, <1>2
<1>4. \A string \in Strings : Meant(e) = <<string>> => typed' = Append(text', string)
  BY <1>1, <1>2, AppendIsConcat
<1>6. typed' = text' \/ \E string \in Strings : typed' = Append(text', string)
  BY <1>3, <1>4, EventText
<1>5. typed' \in Seq(Strings) /\ text' \in Seq(Strings)
  <2>1. text' = text /\ \A string \in Strings : Append(text, string) \in Seq(Strings)
    BY <1>1, <1>2, AppendProperties
  <2> QED BY <1>2, <1>6, <2>1
<1>7. pc' \in {"idle", "Quit"} => typed' = text'
  <2>1. CASE KeptFromChrome(e) \/ is_quit_key(e) \/ Unsupported(e)
    BY <2>1, <1>3, EventText
  <2>2. CASE ~(KeptFromChrome(e) \/ is_quit_key(e) \/ Unsupported(e))
    <3>1. pc' \in {"idle", "Quit"} => translate(e) = <<>>
      BY <2>2, EventStep DEF Ends
    <3>2. translate(e) = <<>> => Meant(e) = <<>>
      BY <2>2, EventText
    <3> QED BY <3>1, <3>2, <1>3
  <2> QED BY <2>1, <2>2
<1>8. pc' = "idle" => actions' = <<>>
  BY <1>2, EventStep DEF Ends
<1>9. ASSUME pc' = "sending"
      PROVE  \/ \E string \in Strings : actions' = <<TextCall(string)>> /\ typed' = Append(text', string)
             \/ \E first \in FirstCalls : actions' = <<first>> /\ typed' = text'
             \/ \E first \in FirstCalls, string \in Strings :
                  actions' = <<first, TextCall(string)>> /\ typed' = Append(text', string)
  <2>1. ~KeptFromChrome(e) /\ actions' = translate(e) /\ translate(e) # <<>>
    BY <1>9, EventStep DEF Ends
  <2>2. CASE Meant(e) = <<>>
    <3>1. \E first \in FirstCalls : translate(e) = <<first>>
      BY <2>1, <2>2, EventText
    <3> QED BY <3>1, <2>1, <2>2, <1>3
  <2>3. CASE \E string \in Strings :
               /\ Meant(e) = <<string>>
               /\ \/ translate(e) = <<TextCall(string)>>
                  \/ \E first \in FirstCalls : translate(e) = <<first, TextCall(string)>>
    BY <2>1, <2>3, <1>4
  <2> QED BY <2>1, <2>2, <2>3, EventText
<1> QED BY <1>1, <1>5, <1>6, <1>7, <1>8, <1>9 DEF TextInv, TextCall

LEMMA EventKeepsHeld ==
  ASSUME InputInv, NEW e, KeyMade(e) \/ OtherMade(e), Handle(e)
  PROVE  HeldInv'
<1>1. pc = "idle" /\ Reported(e) /\ down' = down
  BY EventStep
<1>2. Agrees(down)
  BY <1>1 DEF InputInv, HeldInv
<1>3. /\ held' = CASE Pressing(e)  -> held \cup {Input(e)}
                   [] Releasing(e) -> held \ {Input(e)}
                   [] OTHER        -> held
      /\ missed' = IF Releasing(e) /\ KeptFromChrome(e) THEN missed \cup {Input(e)}
                   ELSE missed \ {Input(e)}
      /\ taken' = IF Pressing(e) /\ KeptFromChrome(e) THEN taken \cup {Input(e)}
                  ELSE IF e.type = "key" /\ ~KeptFromChrome(e) THEN taken \ {Input(e)}
                  ELSE taken
  BY DEF Handle, UserMakes
<1>4. AllKeys \cap Buttons = {}
  BY AdapterAssumption DEF AllKeys, Buttons, Untranslated, Unnamed
<1>5. ~(Pressing(e) /\ Releasing(e))
  BY DEF Pressing, Releasing
<1>6. /\ Pressing(e) => held' = held \cup {Input(e)}
      /\ Releasing(e) => held' = held \ {Input(e)}
      /\ ~Pressing(e) /\ ~Releasing(e) => held' = held
  BY <1>3, <1>5
<1>7. CASE KeptFromChrome(e)
  <2>1. e.type = "key" /\ Input(e) \in AllKeys
    BY <1>7, EventHeld
  <2>2. ~Pressing(e) /\ ~Releasing(e) => Input(e) \in held
    BY <1>1, <1>7, EventHeld DEF Reported
  <2>3. down \ held' \subseteq missed'
    BY <1>2, <1>3, <1>6, <1>7, <2>1, <2>2 DEF Agrees
  <2>4. held' \ down \subseteq taken'
    BY <1>2, <1>3, <1>5, <1>6, <1>7, <2>1 DEF Agrees
  <2>5. down \cap Buttons \subseteq held' /\ down \cup held' \subseteq AllKeys \cup Buttons
    BY <1>2, <1>4, <1>6, <2>1 DEF Agrees
  <2>6. pc' # "sending"
    BY <1>7, EventStep DEF Ends
  <2> QED BY <1>1, <2>3, <2>4, <2>5, <2>6 DEF HeldInv, Agrees
<1>8. CASE ~KeptFromChrome(e)
  <2>1. missed' = missed \ {Input(e)} /\ taken' = IF e.type = "key" THEN taken \ {Input(e)} ELSE taken
    BY <1>3, <1>8
  <2>2. CASE pc' = "sending"
    <3>1. actions' = translate(e) /\ translate(e) # <<>>
      BY <2>2, EventStep DEF Ends
    <3> DEFINE believed == After(Head(translate(e)))
    <3>2. After(Head(actions))' = believed
      BY <1>1, <3>1 DEF After
    <3>3. \/ Pressing(e) /\ Input(e) \in AllKeys \cup Buttons /\ believed = down \cup {Input(e)}
          \/ Releasing(e) /\ Input(e) \in AllKeys \cup Buttons /\ believed = down \ {Input(e)}
          \/ /\ ~Pressing(e) /\ ~Releasing(e) /\ Input(e) \in AllKeys /\ Input(e) \in held
             /\ believed = down \cup {Input(e)}
          \/ /\ ~Pressing(e) /\ ~Releasing(e) /\ e.type # "key"
             /\ Input(e) \notin AllKeys \cup Buttons /\ believed = down
      BY <1>1, <3>1, EventHeld DEF Reported
    <3> HIDE DEF believed
    <3>4. believed \ held' \subseteq missed'
      BY <1>2, <1>6, <2>1, <3>3 DEF Agrees
    <3>5. held' \ believed \subseteq taken'
      BY <1>2, <1>6, <2>1, <3>3 DEF Agrees
    <3>6. believed \cap Buttons \subseteq held' /\ believed \cup held' \subseteq AllKeys \cup Buttons
      BY <1>2, <1>4, <1>6, <3>3 DEF Agrees
    <3> QED BY <2>2, <3>2, <3>4, <3>5, <3>6 DEF HeldInv, Agrees
  <2>3. CASE pc' = "idle"
    <3>1. translate(e) = <<>> \/ is_quit_key(e) \/ Unsupported(e)
      BY <1>8, <2>3, EventStep DEF Ends
    <3>2. pc' \in Ends \/ translate(e) = <<>>
      BY <1>8, <2>3, EventStep DEF Ends
    <3>3. ~Pressing(e) /\ ~Releasing(e) /\ e.type # "key" /\ Input(e) \notin AllKeys \cup Buttons
      BY <2>3, <3>2, EventHeld DEF Ends
    <3>4. held' = held /\ taken' = taken /\ down \ held \subseteq missed'
      BY <1>2, <1>6, <2>1, <3>3 DEF Agrees
    <3> QED BY <1>1, <1>2, <2>3, <3>4 DEF HeldInv, Agrees
  <2> QED BY <2>2, <2>3 DEF HeldInv
<1> QED BY <1>7, <1>8

LEMMA SendKeepsInput == InputInv /\ SendAction => InputInv'
<1> SUFFICES ASSUME InputInv, SendAction PROVE InputInv'
  OBVIOUS
<1>1. pc = "sending" /\ TextInv /\ HeldInv /\ Receives(Head(actions)) /\ actions' = Tail(actions)
  BY DEF SendAction, InputInv
<1>2. UNCHANGED <<reports, held, typed, missed, taken, events>>
  BY DEF SendAction, user
<1>3. Agrees(After(Head(actions)))
  BY <1>1 DEF HeldInv
<1>4. pc' = "Cdp" \/ (Tail(actions) = <<>> /\ pc' = "idle") \/ (Tail(actions) # <<>> /\ pc' = "sending")
  BY DEF SendAction
<1>5. \A string : actions = <<TextCall(string)>> => down' = down /\ text' = Append(text, string)
  BY <1>1 DEF Receives, TextCall
<1>6. \A first \in FirstCalls : Receives(first) => down' = After(first) /\ text' = text
  BY DEF Receives, FirstCalls, After, chrome
<1>7. typed \in Seq(Strings) /\ text \in Seq(Strings)
  BY <1>1 DEF TextInv
<1>8. CASE \E string \in Strings : actions = <<TextCall(string)>> /\ typed = Append(text, string)
  <2>1. PICK string \in Strings : actions = <<TextCall(string)>> /\ typed = Append(text, string)
    BY <1>8
  <2>2. Tail(actions) = <<>> /\ Head(actions) = TextCall(string)
    BY <2>1
  <2>3. down' = down /\ typed' = text'
    BY <1>2, <1>5, <2>1
  <2>4. After(TextCall(string)) = down
    BY DEF After, TextCall
  <2>5. Agrees(down)
    BY <1>3, <2>2, <2>4
  <2>6. HeldInv'
    BY <1>2, <1>4, <2>2, <2>3, <2>5 DEF HeldInv, Agrees
  <2>7. TextInv'
    BY <1>1, <1>2, <1>4, <1>7, <2>2, <2>3 DEF TextInv
  <2> QED BY <1>4, <2>2, <2>6, <2>7 DEF InputInv, Ends
<1>9. CASE \E first \in FirstCalls : actions = <<first>> /\ typed = text
  <2>1. PICK first \in FirstCalls : actions = <<first>> /\ typed = text
    BY <1>9
  <2>2. Tail(actions) = <<>> /\ Head(actions) = first
    BY <2>1
  <2>3. down' = After(first) /\ text' = text
    BY <1>1, <1>6, <2>2
  <2>4. HeldInv'
    BY <1>2, <1>3, <1>4, <2>2, <2>3 DEF HeldInv, Agrees
  <2>5. TextInv'
    BY <1>1, <1>2, <1>4, <1>7, <2>1, <2>2, <2>3 DEF TextInv
  <2> QED BY <1>4, <2>2, <2>4, <2>5 DEF InputInv, Ends
<1>10. CASE \E first \in FirstCalls, string \in Strings :
              actions = <<first, TextCall(string)>> /\ typed = Append(text, string)
  <2>1. PICK first \in FirstCalls, string \in Strings :
          actions = <<first, TextCall(string)>> /\ typed = Append(text, string)
    BY <1>10
  <2>2. Tail(actions) = <<TextCall(string)>> /\ Head(actions) = first
    BY <2>1
  <2>3. down' = After(first) /\ text' = text
    BY <1>1, <1>6, <2>2
  <2>4. actions' = <<TextCall(string)>> /\ typed' = Append(text', string)
    BY <1>1, <1>2, <2>1, <2>2, <2>3
  <2>5. pc' \in {"sending", "Cdp"}
    BY <1>4, <2>2
  <2>6. After(Head(actions))' = down'
    <3>1. Head(actions)' = TextCall(string)
      BY <2>4
    <3> QED BY <3>1 DEF After, TextCall
  <2>7. HeldInv'
    BY <1>2, <1>3, <2>2, <2>3, <2>5, <2>6 DEF HeldInv, Agrees
  <2>8. TextInv'
    BY <1>2, <1>7, <2>3, <2>4, <2>5 DEF TextInv, TextCall
  <2> QED BY <2>5, <2>7, <2>8 DEF InputInv, Ends
<1> QED BY <1>1, <1>8, <1>9, <1>10 DEF TextInv

LEMMA NextInputInv == InputInv /\ [AdapterNext]_adapter_vars => InputInv'
<1> SUFFICES ASSUME InputInv, [AdapterNext]_adapter_vars PROVE InputInv'
  OBVIOUS
<1>1. CASE KeyEvent \/ MouseEvent \/ TextEvent
  <2>1. PICK e : (KeyMade(e) \/ OtherMade(e)) /\ Handle(e)
    BY <1>1, EventIsMade
  <2> QED BY <2>1, EventKeepsText, EventKeepsHeld DEF InputInv
<1>2. CASE UnreportedRelease
  <2>1. PICK key \in held \ Buttons : held' = held \ {key} /\ missed' = missed \cup {key}
    BY <1>2 DEF UnreportedRelease
  <2>2. UNCHANGED <<pc, actions, typed, taken, down, text>>
    BY <1>2 DEF UnreportedRelease, chrome
  <2>3. \A believed : Agrees(believed) =>
          /\ believed \ held' \subseteq missed' /\ held' \ believed \subseteq taken'
          /\ believed \cap Buttons \subseteq held' /\ believed \cup held' \subseteq AllKeys \cup Buttons
    BY <2>1, <2>2 DEF Agrees
  <2>4. After(Head(actions))' = After(Head(actions))
    BY <2>2 DEF After
  <2>5. HeldInv'
    BY <2>2, <2>3, <2>4 DEF InputInv, HeldInv, Agrees
  <2>6. TextInv'
    BY <2>2 DEF InputInv, TextInv, TextCall
  <2> QED BY <2>2, <2>5, <2>6 DEF InputInv
<1>3. CASE SendAction
  BY <1>3, SendKeepsInput
<1>4. CASE SendFails \/ Stop
  <2>1. UNCHANGED <<held, typed, missed, taken, down, text>> /\ pc' \in {"Cdp", "Cancelled"}
    BY <1>4 DEF SendFails, Stop, user, chrome
  <2> QED BY <2>1 DEF InputInv, TextInv, HeldInv, Ends
<1>5. CASE Cancel \/ UNCHANGED adapter_vars
  <2>1. UNCHANGED <<pc, actions, held, typed, missed, taken, down, text>>
    BY <1>5 DEF Cancel, adapter_vars, user, chrome
  <2>2. After(Head(actions))' = After(Head(actions))
    BY <2>1 DEF After
  <2> QED BY <2>1, <2>2 DEF InputInv, TextInv, TextCall, HeldInv, Agrees
<1>6. CASE Recover
  <2>1. /\ pc = "idle" /\ down' = {} /\ taken' = taken \cup held
        /\ UNCHANGED <<pc, actions, held, typed, missed, text>>
    BY <1>6 DEF Recover
  <2>2. HeldInv'
    BY <2>1 DEF InputInv, HeldInv, Agrees
  <2>3. TextInv'
    BY <2>1 DEF InputInv, TextInv
  <2> QED BY <2>1, <2>2, <2>3 DEF InputInv
<1> QED BY <1>1, <1>2, <1>3, <1>4, <1>5, <1>6 DEF AdapterNext

LEMMA InputInductive == AdapterSpec => []InputInv
<1> QED BY InitInputInv, NextInputInv, PTL DEF AdapterSpec

-----------------------------------------------------------------------------
(* The theorems. *)

\* Whatever the user types and pastes, insert_text gives Chrome all of it, once
\* each and in order, as far as the session got: dispatch sends the text of an
\* event whole, and no call of the next one goes before it.
THEOREM TextReachesChrome == AdapterSpec => []TextArrives
<1>1. InputInv => TextArrives
  <2> SUFFICES ASSUME InputInv PROVE TextArrives
    OBVIOUS
  <2>1. typed \in Seq(Strings) /\ text \in Seq(Strings)
    BY DEF InputInv, TextInv
  <2>2. CASE typed = text
    <3>1. IsPrefix(text, typed)
      BY <2>1, <2>2 DEF IsPrefix
    <3>2. Len(typed) <= Len(text) + 1
      BY <2>1, <2>2
    <3> QED BY <2>2, <3>1, <3>2 DEF TextArrives
  <2>3. CASE \E string \in Strings : typed = Append(text, string)
    <3>1. PICK string \in Strings : typed = Append(text, string)
      BY <2>3
    <3>2. Len(typed) = Len(text) + 1 /\ \A i \in 1..Len(text) : typed[i] = text[i]
      BY <2>1, <3>1, AppendProperties
    <3>3. IsPrefix(text, typed)
      BY <2>1, <3>2 DEF IsPrefix
    <3>4. pc \in {"idle", "Quit"} => text = typed
      BY DEF InputInv, TextInv
    <3> QED BY <2>1, <3>2, <3>3, <3>4 DEF TextArrives
  <2> QED BY <2>2, <2>3 DEF InputInv, TextInv
<1> QED BY <1>1, InputInductive, PTL

\* Between two events Chrome and the user disagree about a key or a button only
\* when the address bar, the terminal or a lost browser came between them, and a
\* button Chrome believes is down always is: the order of key_actions and
\* pointer_actions, the releases among them, loses nothing.
THEOREM HeldKeysAgree == AdapterSpec => []HeldAgrees
<1>1. InputInv => HeldAgrees
  BY DEF InputInv, HeldInv, Agrees, HeldAgrees
<1> QED BY <1>1, InputInductive, PTL

(***************************************************************************)
(* CellDiff.                                                                 *)
(***************************************************************************)

\* What a recursive function computes for every input is shown by its least
\* counterexample; that it is the function its definition describes comes first.

\* What holds of 0 and of each number after one it holds of, holds of them all.
LEMMA Induction ==
  ASSUME NEW N \in Nat, NEW Holds, 0 \in Holds,
         \A n \in 1..N : n - 1 \in Holds => n \in Holds
  PROVE  \A n \in 0..N : n \in Holds
<1> DEFINE Exceptions == (0..N) \ Holds
<1> DEFINE R == OpToRel(<, Nat)
<1>1. SUFFICES ASSUME Exceptions # {} PROVE FALSE
  OBVIOUS
<1>2. IsWellFoundedOn(R, Nat)
  BY NatLessThanWellFounded
<1>3. \A x, y \in Nat : x < y => <<x, y>> \in R
  BY DEF OpToRel
<1> HIDE DEF R
<1>4. Exceptions \subseteq Nat
  OBVIOUS
<1>5. \E x \in Exceptions : \A y \in Exceptions : ~(<<y, x>> \in R)
  <2> HIDE DEF Exceptions
  <2> QED BY <1>1, <1>2, <1>4, WFMin
<1>6. PICK x \in Exceptions : \A y \in Exceptions : ~(<<y, x>> \in R)
  BY <1>5
<1>7. x \in 1..N /\ x - 1 \in 0..N /\ x - 1 \in Nat /\ x \in Nat /\ x - 1 < x
  OBVIOUS
<1>8. x - 1 \in Exceptions
  BY <1>6, <1>7
<1> QED BY <1>3, <1>6, <1>7, <1>8

\* f is computed from base, one step at a time.
Follows(f, base, step, N) == f[0] = base /\ \A n \in 1..N : f[n] = step[<<f[n - 1], n>>]

\* Steps that stay within a set can be followed.
LEMMA Recursion ==
  ASSUME NEW S, NEW base \in S, NEW N \in Nat, NEW step \in [S \X (1..N) -> S]
  PROVE  \E f \in [0..N -> S] : Follows(f, base, step, N)
<1> DEFINE Holds == {m \in 0..N : \E f \in [0..m -> S] : Follows(f, base, step, m)}
<1>1. 0 \in Holds
  <2>1. [n \in 0..0 |-> base] \in [0..0 -> S] /\ Follows([n \in 0..0 |-> base], base, step, 0)
    BY DEF Follows
  <2>2. 0 \in 0..N
    OBVIOUS
  <2> QED BY <2>1, <2>2
<1>2. ASSUME NEW m \in 1..N, m - 1 \in Holds PROVE m \in Holds
  <2>1. PICK f \in [0..(m - 1) -> S] : Follows(f, base, step, m - 1)
    BY <1>2
  <2> DEFINE g == [n \in 0..m |-> IF n = m THEN step[<<f[m - 1], m>>] ELSE f[n]]
  <2>2. f[m - 1] \in S /\ step[<<f[m - 1], m>>] \in S
    OBVIOUS
  <2>3. g \in [0..m -> S]
    BY <2>2
  <2>4. g[0] = base
    BY <2>1 DEF Follows
  <2>5. ASSUME NEW n \in 1..m PROVE g[n] = step[<<g[n - 1], n>>]
    <3>1. g[n - 1] = f[n - 1]
      OBVIOUS
    <3>2. CASE n = m
      BY <3>1, <3>2
    <3>3. CASE n # m
      <4>1. n \in 1..(m - 1)
        BY <3>3
      <4> QED BY <2>1, <3>1, <3>3, <4>1 DEF Follows
    <3> QED BY <3>2, <3>3
  <2>6. Follows(g, base, step, m)
    BY <2>4, <2>5 DEF Follows
  <2> HIDE DEF g
  <2> QED BY <2>3, <2>6
<1>3. N \in Holds
  <2> HIDE DEF Holds
  <2> QED BY <1>1, <1>2, Induction
<1> QED BY <1>3

-----------------------------------------------------------------------------
(* The operations and the terminal, for any graphemes and styles. *)

CellsOf(G, Sty)      == [grapheme : G, style : Sty, width : 0..2]
CharactersOf(G)      == [grapheme : G, width : 1..2]
TerminalsOf(n, G, Sty) == [row : [1..n -> CellsOf(G, Sty)], column : Nat, style : Sty]
OperationsOf(G, Sty) ==
  {ClearScreen, ResetStyle} \cup {MoveTo(column) : column \in Nat}
    \cup {SetStyle(style) : style \in Sty} \cup {Write(characters) : characters \in Seq(CharactersOf(G))}

\* A terminal that is written to is still one.
LEMMA WriteOneType ==
  ASSUME NEW n \in Nat, NEW G, NEW Sty, NoText \in G, "?" \in G, "default" \in Sty,
         NEW t \in TerminalsOf(n, G, Sty), NEW character \in CharactersOf(G)
  PROVE  WriteOne(t, character) \in TerminalsOf(n, G, Sty)
<1> DEFINE from == t.column
           to   == from + character.width - 1
           cell == Cell(character.grapheme, t.style, character.width)
           row == [column \in DOMAIN t.row |->
                    CASE column = from              -> cell
                      [] column \in (from + 1)..to  -> Continuation(cell)
                      [] column \in Cut(t.row, from, to) -> Broken
                      [] OTHER                      -> t.row[column]]
<1>1. WriteOne(t, character) = [t EXCEPT !.column = to + 1, !.row = row]
  BY DEF WriteOne
<1>2. /\ t.row \in [1..n -> CellsOf(G, Sty)] /\ t.column \in Nat /\ t.style \in Sty
      /\ t = [row |-> t.row, column |-> t.column, style |-> t.style]
  BY DEF TerminalsOf
<1>3. character.grapheme \in G /\ character.width \in 1..2
  BY DEF CharactersOf
<1>4. from \in Nat /\ to + 1 \in Nat
  BY <1>2, <1>3
<1>5. cell \in CellsOf(G, Sty) /\ Continuation(cell) \in CellsOf(G, Sty) /\ Broken \in CellsOf(G, Sty)
  <2>1. character.width \in 0..2 /\ 0 \in 0..2 /\ 1 \in 0..2
    BY <1>3
  <2>2. cell \in CellsOf(G, Sty) /\ cell.style = t.style
    BY <1>2, <1>3, <2>1 DEF CellsOf, Cell
  <2> HIDE DEF cell
  <2>3. Continuation(cell) \in CellsOf(G, Sty)
    BY <1>2, <2>1, <2>2 DEF CellsOf, Cell, Continuation
  <2>4. Broken \in CellsOf(G, Sty)
    BY <2>1 DEF CellsOf, Cell, Broken
  <2> QED BY <2>2, <2>3, <2>4
<1>6. row \in [1..n -> CellsOf(G, Sty)]
  <2> HIDE DEF cell, from, to
  <2> QED BY <1>2, <1>5
<1> HIDE DEF row, to
<1> QED BY <1>1, <1>2, <1>4, <1>6 DEF TerminalsOf

\* What has been written is the characters of some row.
LEMMA WritingDefined ==
  ASSUME NEW n \in Nat, NEW G, NEW Sty, NoText \in G, "?" \in G, "default" \in Sty,
         NEW t \in TerminalsOf(n, G, Sty), NEW characters \in Seq(CharactersOf(G))
  PROVE  /\ Writing(t, characters) \in [0..Len(characters) -> TerminalsOf(n, G, Sty)]
         /\ Writing(t, characters)[0] = t
         /\ \A k \in 1..Len(characters) : Writing(t, characters)[k] = WriteOne(Writing(t, characters)[k - 1], characters[k])
<1> DEFINE T == TerminalsOf(n, G, Sty)
           N == Len(characters)
           step == [p \in T \X (1..N) |-> WriteOne(p[1], characters[p[2]])]
<1>1. N \in Nat /\ t \in T /\ \A k \in 1..N : characters[k] \in CharactersOf(G)
  BY LenProperties, ElementOfSeq
<1>2. ASSUME NEW x \in T, NEW k \in 1..N PROVE WriteOne(x, characters[k]) \in T
  BY <1>1, WriteOneType
<1>3. step \in [T \X (1..N) -> T] /\ \A x \in T, k \in 1..N : step[<<x, k>>] = WriteOne(x, characters[k])
  <2> HIDE DEF T, N
  <2> QED BY <1>2
<1> HIDE DEF T, step
<1>4. PICK f \in [0..N -> T] : Follows(f, t, step, N)
  <2> HIDE DEF N
  <2>1. N \in Nat /\ t \in T /\ step \in [T \X (1..N) -> T]
    BY <1>1, <1>3
  <2> QED BY <2>1, Recursion
<1>5. \A k \in 0..N : k # 0 => f[k - 1] \in T /\ k \in 1..N
  BY <1>1
<1>6. f = [k \in 0..N |-> IF k = 0 THEN t ELSE WriteOne(f[k - 1], characters[k])]
  <2>1. \A k \in 0..N : f[k] = IF k = 0 THEN t ELSE WriteOne(f[k - 1], characters[k])
    BY <1>3, <1>4, <1>5 DEF Follows
  <2> QED BY <2>1
<1> DEFINE g == Writing(t, characters)
<1>7. g = CHOOSE h : h = [k \in 0..N |-> IF k = 0 THEN t ELSE WriteOne(h[k - 1], characters[k])]
  BY DEF Writing
<1>8. g = [k \in 0..N |-> IF k = 0 THEN t ELSE WriteOne(g[k - 1], characters[k])]
  <2> HIDE DEF g
  <2> QED BY <1>6, <1>7
<1>9. \A k \in 0..N : g[k] = IF k = 0 THEN t ELSE WriteOne(g[k - 1], characters[k])
  <2> HIDE DEF g
  <2> QED BY <1>8
<1> DEFINE Holds == {k \in 0..N : g[k] \in T}
<1>10. \A k \in 0..N : k \in Holds
  <2> HIDE DEF g
  <2>1. 0 \in Holds
    BY <1>1, <1>9
  <2>2. ASSUME NEW k \in 1..N, k - 1 \in Holds PROVE k \in Holds
    <3>1. g[k] = WriteOne(g[k - 1], characters[k]) /\ k \in 0..N
      BY <1>1, <1>9
    <3> QED BY <1>2, <2>2, <3>1
  <2> HIDE DEF Holds, N
  <2> QED BY <1>1, <2>1, <2>2, Induction
<1>11. g \in [0..N -> T]
  <2> HIDE DEF g
  <2> QED BY <1>8, <1>10
<1>12. g[0] = t /\ \A k \in 1..N : g[k] = WriteOne(g[k - 1], characters[k])
  <2> HIDE DEF g
  <2> QED BY <1>1, <1>9
<1> QED BY <1>11, <1>12 DEF T

Agree(f, g, N) == \A n \in 0..N : f[n] = g[n]

\* Two functions computed alike from the same agree.
LEMMA SameRecursion ==
  ASSUME NEW N \in Nat, NEW f, NEW g, f[0] = g[0],
         \A n \in 1..N : f[n - 1] = g[n - 1] => f[n] = g[n]
  PROVE  Agree(f, g, N)
<1> DEFINE Holds == {n \in 0..N : f[n] = g[n]}
<1>1. 0 \in Holds /\ \A n \in 1..N : n - 1 \in Holds => n \in Holds
  OBVIOUS
<1>2. \A n \in 0..N : n \in Holds
  <2> HIDE DEF Holds
  <2> QED BY <1>1, Induction
<1> QED BY <1>2 DEF Agree

\* One character more.
LEMMA WriteAllSays ==
  ASSUME NEW n \in Nat, NEW G, NEW Sty, NoText \in G, "?" \in G, "default" \in Sty,
         NEW t \in TerminalsOf(n, G, Sty), NEW characters \in Seq(CharactersOf(G))
  PROVE  /\ WriteAll(t, characters) \in TerminalsOf(n, G, Sty)
         /\ \A character \in CharactersOf(G) :
              /\ WriteAll(t, <<character>>) = WriteOne(t, character)
              /\ WriteAll(t, characters \o <<character>>) = WriteOne(WriteAll(t, characters), character)
<1>1. Len(characters) \in Nat /\ Len(characters) \in 0..Len(characters)
  BY LenProperties
<1>2. WriteAll(t, characters) \in TerminalsOf(n, G, Sty)
  BY <1>1, WritingDefined DEF WriteAll
<1> SUFFICES ASSUME NEW character \in CharactersOf(G)
             PROVE  /\ WriteAll(t, <<character>>) = WriteOne(t, character)
                    /\ WriteAll(t, characters \o <<character>>) = WriteOne(WriteAll(t, characters), character)
  BY <1>2
<1>3. <<character>> \in Seq(CharactersOf(G)) /\ Len(<<character>>) = 1 /\ <<character>>[1] = character
  OBVIOUS
<1>4. WriteAll(t, <<character>>) = WriteOne(t, character)
  <2>1. 1 \in 1..1 /\ 1 - 1 = 0
    OBVIOUS
  <2> DEFINE one == <<character>>
  <2>2. one \in Seq(CharactersOf(G)) /\ Len(one) = 1 /\ one[1] = character
    BY <1>3
  <2> HIDE DEF one
  <2>3. Writing(t, one)[0] = t /\ Writing(t, one)[1] = WriteOne(Writing(t, one)[0], one[1])
    BY <2>1, <2>2, WritingDefined
  <2> QED BY <2>2, <2>3 DEF WriteAll, one
<1> DEFINE more == characters \o <<character>>
<1>5. /\ more \in Seq(CharactersOf(G)) /\ Len(more) = Len(characters) + 1
      /\ more[Len(characters) + 1] = character /\ \A k \in 1..Len(characters) : more[k] = characters[k]
  BY <1>1, <1>3, ConcatProperties
<1> HIDE DEF more
<1> DEFINE f == Writing(t, characters)
           g == Writing(t, more)
<1>6. f[0] = t /\ \A k \in 1..Len(characters) : f[k] = WriteOne(f[k - 1], characters[k])
  BY WritingDefined
<1>7. g[0] = t /\ \A k \in 1..(Len(characters) + 1) : g[k] = WriteOne(g[k - 1], more[k])
  BY <1>5, WritingDefined
<1> HIDE DEF f, g
<1>8. ASSUME NEW k \in 1..Len(characters) PROVE g[k] = WriteOne(g[k - 1], characters[k])
  <2>1. k \in 1..(Len(characters) + 1)
    BY <1>1
  <2>2. g[k] = WriteOne(g[k - 1], more[k])
    BY <1>7, <2>1
  <2> QED BY <1>5, <2>2
<1>9. \A k \in 0..Len(characters) : f[k] = g[k]
  <2>1. f[0] = g[0] /\ \A k \in 1..Len(characters) : f[k - 1] = g[k - 1] => f[k] = g[k]
    BY <1>6, <1>7, <1>8
  <2>2. Agree(f, g, Len(characters))
    BY <1>1, <2>1, SameRecursion
  <2> QED BY <2>2 DEF Agree
<1>10. g[Len(characters) + 1] = WriteOne(f[Len(characters)], character)
  <2>1. Len(characters) + 1 \in 1..(Len(characters) + 1) /\ (Len(characters) + 1) - 1 = Len(characters)
    BY <1>1
  <2> QED BY <1>1, <1>5, <1>7, <1>9, <2>1
<1> QED BY <1>4, <1>5, <1>10 DEF WriteAll, f, g, more

-----------------------------------------------------------------------------
(* One operation, and one operation more. *)

\* What each operation but a Write does, and that all keep a terminal one.
LEMMA ApplySays ==
  ASSUME NEW n \in Nat, NEW G, NEW Sty, {NoText, "?", BlankText} \subseteq G, "default" \in Sty,
         NEW t \in TerminalsOf(n, G, Sty)
  PROVE  /\ \A operation \in OperationsOf(G, Sty) : Apply(t, operation) \in TerminalsOf(n, G, Sty)
         /\ Apply(t, ResetStyle) = [t EXCEPT !.style = "default"]
         /\ Apply(t, ClearScreen) =
              [t EXCEPT !.column = 1, !.row = [column \in 1..n |-> Cell(BlankText, t.style, 1)]]
         /\ \A column \in Nat : Apply(t, MoveTo(column)) = [t EXCEPT !.column = column]
         /\ \A style \in Sty : Apply(t, SetStyle(style)) = [t EXCEPT !.style = style]
         /\ \A characters \in Seq(CharactersOf(G)) : Apply(t, Write(characters)) = WriteAll(t, characters)
<1>1. /\ t.row \in [1..n -> CellsOf(G, Sty)] /\ t.column \in Nat /\ t.style \in Sty
      /\ t = [row |-> t.row, column |-> t.column, style |-> t.style]
  BY DEF TerminalsOf
<1>2. Apply(t, ResetStyle) = [t EXCEPT !.style = "default"]
  BY DEF Apply, ResetStyle
<1>3. Apply(t, ClearScreen) =
        [t EXCEPT !.column = 1, !.row = [column \in 1..n |-> Cell(BlankText, t.style, 1)]]
  BY <1>1 DEF Apply, ClearScreen
<1>4. \A column \in Nat : Apply(t, MoveTo(column)) = [t EXCEPT !.column = column]
  BY DEF Apply, MoveTo
<1>5. \A style \in Sty : Apply(t, SetStyle(style)) = [t EXCEPT !.style = style]
  BY DEF Apply, SetStyle
<1>6. \A characters \in Seq(CharactersOf(G)) : Apply(t, Write(characters)) = WriteAll(t, characters)
  BY DEF Apply, Write
<1>7. ASSUME NEW operation \in OperationsOf(G, Sty) PROVE Apply(t, operation) \in TerminalsOf(n, G, Sty)
  <2>1. Cell(BlankText, t.style, 1) \in CellsOf(G, Sty)
    <3>1. 1 \in 0..2
      OBVIOUS
    <3> QED BY <1>1, <3>1 DEF Cell, CellsOf
  <2>2. CASE operation = ClearScreen
    <3>1. 1 \in Nat
      OBVIOUS
    <3> QED BY <1>1, <1>3, <2>1, <2>2, <3>1 DEF TerminalsOf
  <2>3. CASE operation = ResetStyle
    BY <1>1, <1>2, <2>3 DEF TerminalsOf
  <2>4. ASSUME NEW column \in Nat, operation = MoveTo(column)
        PROVE  Apply(t, operation) \in TerminalsOf(n, G, Sty)
    BY <1>1, <1>4, <2>4 DEF TerminalsOf
  <2>5. ASSUME NEW style \in Sty, operation = SetStyle(style)
        PROVE  Apply(t, operation) \in TerminalsOf(n, G, Sty)
    BY <1>1, <1>5, <2>5 DEF TerminalsOf
  <2>6. ASSUME NEW characters \in Seq(CharactersOf(G)), operation = Write(characters)
        PROVE  Apply(t, operation) \in TerminalsOf(n, G, Sty)
    <3>1. NoText \in G /\ "?" \in G
      OBVIOUS
    <3> QED BY <1>6, <2>6, <3>1, WriteAllSays
  <2> QED BY <2>2, <2>3, <2>4, <2>5, <2>6 DEF OperationsOf
<1> QED BY <1>2, <1>3, <1>4, <1>5, <1>6, <1>7
\* Applying is the function that its definition describes.
LEMMA ApplyingDefined ==
  ASSUME NEW n \in Nat, NEW G, NEW Sty, {NoText, "?", BlankText} \subseteq G, "default" \in Sty,
         NEW t \in TerminalsOf(n, G, Sty), NEW operations \in Seq(OperationsOf(G, Sty))
  PROVE  /\ Applying(t, operations) \in [0..Len(operations) -> TerminalsOf(n, G, Sty)]
         /\ Applying(t, operations)[0] = t
         /\ \A k \in 1..Len(operations) : Applying(t, operations)[k] = Apply(Applying(t, operations)[k - 1], operations[k])
<1> DEFINE T == TerminalsOf(n, G, Sty)
           N == Len(operations)
           step == [p \in T \X (1..N) |-> Apply(p[1], operations[p[2]])]
<1>1. N \in Nat /\ t \in T /\ \A k \in 1..N : operations[k] \in OperationsOf(G, Sty)
  BY LenProperties, ElementOfSeq
<1>2. ASSUME NEW x \in T, NEW k \in 1..N PROVE Apply(x, operations[k]) \in T
  BY <1>1, ApplySays
<1>3. step \in [T \X (1..N) -> T] /\ \A x \in T, k \in 1..N : step[<<x, k>>] = Apply(x, operations[k])
  <2> HIDE DEF T, N
  <2> QED BY <1>2
<1> HIDE DEF T, step
<1>4. PICK f \in [0..N -> T] : Follows(f, t, step, N)
  <2> HIDE DEF N
  <2>1. N \in Nat /\ t \in T /\ step \in [T \X (1..N) -> T]
    BY <1>1, <1>3
  <2> QED BY <2>1, Recursion
<1>5. \A k \in 0..N : k # 0 => f[k - 1] \in T /\ k \in 1..N
  BY <1>1
<1>6. f = [k \in 0..N |-> IF k = 0 THEN t ELSE Apply(f[k - 1], operations[k])]
  <2>1. \A k \in 0..N : f[k] = IF k = 0 THEN t ELSE Apply(f[k - 1], operations[k])
    BY <1>3, <1>4, <1>5 DEF Follows
  <2> QED BY <2>1
<1> DEFINE g == Applying(t, operations)
<1>7. g = CHOOSE h : h = [k \in 0..N |-> IF k = 0 THEN t ELSE Apply(h[k - 1], operations[k])]
  BY DEF Applying
<1>8. g = [k \in 0..N |-> IF k = 0 THEN t ELSE Apply(g[k - 1], operations[k])]
  <2> HIDE DEF g
  <2> QED BY <1>6, <1>7
<1>9. \A k \in 0..N : g[k] = IF k = 0 THEN t ELSE Apply(g[k - 1], operations[k])
  <2> HIDE DEF g
  <2> QED BY <1>8
<1> DEFINE Holds == {k \in 0..N : g[k] \in T}
<1>10. \A k \in 0..N : k \in Holds
  <2> HIDE DEF g
  <2>1. 0 \in Holds
    BY <1>1, <1>9
  <2>2. ASSUME NEW k \in 1..N, k - 1 \in Holds PROVE k \in Holds
    <3>1. g[k] = Apply(g[k - 1], operations[k]) /\ k \in 0..N
      BY <1>1, <1>9
    <3> QED BY <1>2, <2>2, <3>1
  <2> HIDE DEF Holds, N
  <2> QED BY <1>1, <2>1, <2>2, Induction
<1>11. g \in [0..N -> T]
  <2> HIDE DEF g
  <2> QED BY <1>8, <1>10
<1>12. g[0] = t /\ \A k \in 1..N : g[k] = Apply(g[k - 1], operations[k])
  <2> HIDE DEF g
  <2> QED BY <1>1, <1>9
<1> QED BY <1>11, <1>12 DEF T

\* One operation more.
LEMMA ApplyAllSays ==
  ASSUME NEW n \in Nat, NEW G, NEW Sty, {NoText, "?", BlankText} \subseteq G, "default" \in Sty,
         NEW t \in TerminalsOf(n, G, Sty), NEW operations \in Seq(OperationsOf(G, Sty))
  PROVE  /\ ApplyAll(t, operations) \in TerminalsOf(n, G, Sty)
         /\ ApplyAll(t, <<>>) = t
         /\ \A operation \in OperationsOf(G, Sty) :
              /\ operations \o <<operation>> \in Seq(OperationsOf(G, Sty))
              /\ ApplyAll(t, operations \o <<operation>>) = Apply(ApplyAll(t, operations), operation)
<1>1. Len(operations) \in Nat /\ Len(operations) \in 0..Len(operations)
  BY LenProperties
<1>2. ApplyAll(t, operations) \in TerminalsOf(n, G, Sty)
  BY <1>1, ApplyingDefined DEF ApplyAll
<1>3. ApplyAll(t, <<>>) = t
  <2>1. <<>> \in Seq(OperationsOf(G, Sty)) /\ Len(<<>>) = 0
    OBVIOUS
  <2> QED BY <2>1, ApplyingDefined, SMTT(30) DEF ApplyAll
<1> SUFFICES ASSUME NEW operation \in OperationsOf(G, Sty)
             PROVE  /\ operations \o <<operation>> \in Seq(OperationsOf(G, Sty))
                    /\ ApplyAll(t, operations \o <<operation>>) = Apply(ApplyAll(t, operations), operation)
  BY <1>2, <1>3
<1>4. <<operation>> \in Seq(OperationsOf(G, Sty)) /\ Len(<<operation>>) = 1 /\ <<operation>>[1] = operation
  OBVIOUS
<1> DEFINE more == operations \o <<operation>>
<1>5. /\ more \in Seq(OperationsOf(G, Sty)) /\ Len(more) = Len(operations) + 1
      /\ more[Len(operations) + 1] = operation
      /\ \A k \in 1..Len(operations) : more[k] = operations[k]
  BY <1>1, <1>4, ConcatProperties
<1> HIDE DEF more
<1> DEFINE f == Applying(t, operations)
           g == Applying(t, more)
<1>6. f[0] = t /\ \A k \in 1..Len(operations) : f[k] = Apply(f[k - 1], operations[k])
  BY ApplyingDefined
<1>7. g[0] = t /\ \A k \in 1..(Len(operations) + 1) : g[k] = Apply(g[k - 1], more[k])
  BY <1>5, ApplyingDefined
<1> HIDE DEF f, g
<1>8. \A k \in 1..Len(operations) : g[k] = Apply(g[k - 1], operations[k])
  BY <1>1, <1>5, <1>7
<1>9. \A k \in 0..Len(operations) : f[k] = g[k]
  <2>1. f[0] = g[0] /\ \A k \in 1..Len(operations) : f[k - 1] = g[k - 1] => f[k] = g[k]
    BY <1>6, <1>7, <1>8
  <2>2. Agree(f, g, Len(operations))
    BY <1>1, <2>1, SameRecursion
  <2> QED BY <2>2 DEF Agree
<1>10. g[Len(operations) + 1] = Apply(f[Len(operations)], operation)
  <2>1. Len(operations) + 1 \in 1..(Len(operations) + 1) /\ (Len(operations) + 1) - 1 = Len(operations)
    BY <1>1
  <2> QED BY <1>1, <1>5, <1>7, <1>9, <2>1
<1> QED BY <1>5, <1>10 DEF ApplyAll, f, g, more

\* A sequence with one more element.
LEMMA OneMore ==
  ASSUME NEW S, NEW s \in Seq(S), NEW u \in Seq(S), Len(u) = 1
  PROVE  /\ s \o u \in Seq(S) /\ Len(s \o u) = Len(s) + 1
         /\ \A k \in 1..Len(s) : (s \o u)[k] = s[k]
         /\ (s \o u)[Len(s) + 1] = u[1]
<1>1. /\ s \o u \in Seq(S) /\ Len(s \o u) = Len(s) + Len(u)
      /\ \A k \in 1 .. Len(s) + Len(u) : (s \o u)[k] = IF k <= Len(s) THEN s[k] ELSE u[k - Len(s)]
  BY ConcatProperties
<1>2. Len(s) \in Nat
  BY LenProperties
<1>3. \A k \in 1..Len(s) : k \in 1 .. Len(s) + Len(u) /\ k <= Len(s)
  BY <1>2
<1>4. Len(s) + 1 \in 1 .. Len(s) + Len(u) /\ ~(Len(s) + 1 <= Len(s)) /\ (Len(s) + 1) - Len(s) = 1
  BY <1>2
<1> QED BY <1>1, <1>3, <1>4

\* Three elements appended at once, or one after the other.
LEMMA ThreeMore ==
  ASSUME NEW S, NEW s \in Seq(S), NEW a \in S, NEW b \in S, NEW c \in S
  PROVE  ((s \o <<a>>) \o <<b>>) \o <<c>> = s \o <<a, b, c>>
<1>1. <<a>> \in Seq(S) /\ <<b>> \in Seq(S) /\ <<c>> \in Seq(S) /\ <<b, c>> \in Seq(S)
  OBVIOUS
<1>2. <<b>> \o <<c>> = <<b, c>> /\ <<a>> \o <<b, c>> = <<a, b, c>>
  <2>1. ASSUME NEW u \in Seq(S), NEW v \in Seq(S)
        PROVE  /\ u \o v \in Seq(S) /\ Len(u \o v) = Len(u) + Len(v)
               /\ \A i \in 1 .. Len(u) + Len(v) :
                    (u \o v)[i] = IF i <= Len(u) THEN u[i] ELSE v[i - Len(u)]
    BY ConcatProperties
  <2>2. /\ <<b>> \o <<c>> \in Seq(S) /\ Len(<<b>> \o <<c>>) = 1 + 1
        /\ \A i \in 1 .. 1 + 1 :
             (<<b>> \o <<c>>)[i] = IF i <= 1 THEN <<b>>[i] ELSE <<c>>[i - 1]
    BY <1>1, <2>1
  <2>3. /\ <<a>> \o <<b, c>> \in Seq(S) /\ Len(<<a>> \o <<b, c>>) = 1 + 2
        /\ \A i \in 1 .. 1 + 2 :
             (<<a>> \o <<b, c>>)[i] = IF i <= 1 THEN <<a>>[i] ELSE <<b, c>>[i - 1]
    BY <1>1, <2>1
  <2>4. <<b>> \o <<c>> = <<b, c>>
    <3> DEFINE x == <<b>> \o <<c>>
    <3>1. x \in Seq(S) /\ Len(x) = 2 /\ x[1] = b /\ x[2] = c
      BY <2>2
    <3> HIDE DEF x
    <3>2. x = <<b, c>>
      BY <3>1
    <3> QED BY <3>2 DEF x
  <2>5. <<a>> \o <<b, c>> = <<a, b, c>>
    <3> DEFINE x == <<a>> \o <<b, c>>
    <3>1. x \in Seq(S) /\ Len(x) = 3 /\ x[1] = a /\ x[2] = b /\ x[3] = c
      BY <2>3
    <3> HIDE DEF x
    <3>2. x = <<a, b, c>>
      BY <3>1
    <3> QED BY <3>2 DEF x
  <2> QED BY <2>4, <2>5
<1>3. s \o <<a>> \in Seq(S)
  BY <1>1, ConcatProperties
<1>4. ((s \o <<a>>) \o <<b>>) \o <<c>> = (s \o <<a>>) \o <<b, c>>
  <2>1. ASSUME NEW u \in Seq(S), NEW v \in Seq(S), NEW w \in Seq(S) PROVE (u \o v) \o w = u \o (v \o w)
    BY ConcatAssociative
  <2>2. ((s \o <<a>>) \o <<b>>) \o <<c>> = (s \o <<a>>) \o (<<b>> \o <<c>>)
    BY <1>1, <1>3, <2>1
  <2> QED BY <1>2, <2>2
<1>5. (s \o <<a>>) \o <<b, c>> = s \o <<a, b, c>>
  BY <1>1, <1>2, ConcatAssociative
<1> QED BY <1>4, <1>5

\* The last Write, one character longer, writes one character more.
LEMMA LongerWrite ==
  ASSUME NEW n \in Nat, NEW G, NEW Sty, {NoText, "?", BlankText} \subseteq G, "default" \in Sty,
         NEW t \in TerminalsOf(n, G, Sty), NEW operations \in Seq(OperationsOf(G, Sty)),
         operations # <<>>, Last(operations).op = "Write", NEW character \in CharactersOf(G)
  PROVE  LET longer == Front(operations) \o <<Write(Last(operations).text \o <<character>>)>>
         IN  /\ longer \in Seq(OperationsOf(G, Sty)) /\ longer # <<>> /\ Last(longer).op = "Write"
             /\ ApplyAll(t, longer) = WriteOne(ApplyAll(t, operations), character)
<1> DEFINE front == Front(operations)
<1>1. Len(operations) \in Nat \ {0} /\ Len(operations) \in 1..Len(operations)
  BY EmptySeq
<1>2. Last(operations) \in OperationsOf(G, Sty)
  BY <1>1, ElementOfSeq DEF Last
<1>3. PICK characters \in Seq(CharactersOf(G)) : Last(operations) = Write(characters)
  BY <1>2 DEF OperationsOf, ClearScreen, ResetStyle, MoveTo, SetStyle, Write
<1>4. Last(operations).text = characters
  BY <1>3 DEF Write
<1>5. /\ front \in Seq(OperationsOf(G, Sty)) /\ Len(front) = Len(operations) - 1
      /\ \A k \in 1..(Len(operations) - 1) : front[k] = operations[k]
  <2>1. Len(operations) - 1 \in Nat /\ 1 \in Nat
    BY <1>1
  <2>2. \A k \in 1..(Len(operations) - 1) : operations[k] \in OperationsOf(G, Sty)
    BY <1>1, ElementOfSeq
  <2> DEFINE length == Len(operations) - 1
  <2>3. length \in Nat /\ 1 \in Int /\ length \in Int
    BY <1>1
  <2>4. \A k \in 1..length : operations[k] \in OperationsOf(G, Sty)
    BY <2>2
  <2> HIDE DEF length
  <2>5. /\ SubSeq(operations, 1, length) \in Seq(OperationsOf(G, Sty))
        /\ Len(SubSeq(operations, 1, length)) = IF 1 <= length THEN length - 1 + 1 ELSE 0
        /\ \A k \in 1..(length - 1 + 1) : SubSeq(operations, 1, length)[k] = operations[1 + k - 1]
    BY <2>3, <2>4, SubSeqProperties
  <2>6. /\ length - 1 + 1 = length /\ (~(1 <= length) => length = 0)
        /\ \A k \in 1..length : 1 + k - 1 = k
    BY <2>3
  <2>7. Len(SubSeq(operations, 1, length)) = length
    BY <2>5, <2>6
  <2>8. \A k \in 1..length : SubSeq(operations, 1, length)[k] = operations[k]
    BY <2>5, <2>6
  <2> QED BY <2>5, <2>7, <2>8 DEF Front, length
<1> HIDE DEF front
<1>6. operations = front \o <<Write(characters)>>
  <2> DEFINE last == <<Write(characters)>>
  <2>1. Write(characters) \in OperationsOf(G, Sty)
    BY <1>2, <1>3
  <2>2. last \in Seq(OperationsOf(G, Sty)) /\ Len(last) = 1 /\ last[1] = Write(characters)
    BY <2>1
  <2> HIDE DEF last
  <2>3. /\ front \o last \in Seq(OperationsOf(G, Sty)) /\ Len(front \o last) = Len(front) + 1
        /\ \A k \in 1..Len(front) : (front \o last)[k] = front[k]
        /\ (front \o last)[Len(front) + 1] = Write(characters)
    BY <1>5, <2>2, OneMore
  <2>4. Len(front) + 1 = Len(operations) /\ Len(front) \in Nat
    BY <1>1, <1>5
  <2>5. \A k \in 1..Len(front) : operations[k] = (front \o last)[k]
    BY <1>5, <2>3, <2>4
  <2>6. operations[Len(front) + 1] = (front \o last)[Len(front) + 1]
    BY <1>3, <2>3, <2>4 DEF Last
  <2>7. \A k \in 1..Len(operations) : operations[k] = (front \o last)[k]
    <3> TAKE k \in 1..Len(operations)
    <3>1. k \in 1..Len(front) \/ k = Len(front) + 1
      BY <2>4
    <3> QED BY <2>5, <2>6, <3>1
  <2>8. Len(operations) = Len(front \o last)
    BY <2>3, <2>4
  <2> QED BY <2>3, <2>7, <2>8, SeqEqual DEF last
<1> DEFINE last   == Write(characters \o <<character>>)
           longer == front \o <<last>>
<1>7. last \in OperationsOf(G, Sty) /\ last.op = "Write"
  <2>1. characters \o <<character>> \in Seq(CharactersOf(G))
    OBVIOUS
  <2> QED BY <2>1 DEF OperationsOf, Write
<1>8. ApplyAll(t, front) \in TerminalsOf(n, G, Sty)
  BY <1>5, ApplyAllSays
<1>9. ApplyAll(t, operations) = WriteAll(ApplyAll(t, front), characters)
  <2>1. ApplyAll(t, operations) = Apply(ApplyAll(t, front), Write(characters))
    BY <1>2, <1>3, <1>5, <1>6, ApplyAllSays
  <2> QED BY <2>1 DEF Apply, Write
<1>10. ApplyAll(t, longer) = WriteAll(ApplyAll(t, front), characters \o <<character>>)
  <2>1. ApplyAll(t, longer) = Apply(ApplyAll(t, front), last)
    <3> HIDE DEF last
    <3> QED BY <1>5, <1>7, ApplyAllSays
  <2> QED BY <2>1 DEF Apply, Write
<1>11. ApplyAll(t, longer) = WriteOne(ApplyAll(t, operations), character)
  <2>1. NoText \in G /\ "?" \in G
    OBVIOUS
  <2> QED BY <1>8, <1>9, <1>10, <2>1, WriteAllSays
<1>12. longer \in Seq(OperationsOf(G, Sty)) /\ longer # <<>> /\ Last(longer).op = "Write"
  <2> HIDE DEF last
  <2>1. Len(front) \in Nat
    BY <1>1, <1>5
  <2>2. <<last>> \in Seq(OperationsOf(G, Sty)) /\ Len(<<last>>) = 1 /\ <<last>>[1] = last
    BY <1>7
  <2>3. /\ longer \in Seq(OperationsOf(G, Sty)) /\ Len(longer) = Len(front) + 1
        /\ longer[Len(front) + 1] = last
    <3> DEFINE one == <<last>>
    <3>1. one \in Seq(OperationsOf(G, Sty)) /\ Len(one) = 1 /\ one[1] = last
      BY <2>2
    <3> HIDE DEF one
    <3> QED BY <1>5, <2>1, <3>1, OneMore DEF one
  <2> HIDE DEF longer
  <2> QED BY <1>7, <2>1, <2>3 DEF Last
<1> QED BY <1>4, <1>11, <1>12 DEF front

-----------------------------------------------------------------------------
(* The difference, column by column. *)

\* Operations for some columns: every one that is written to ends with its Write.
OutputsOf(G, Sty) == {s \in Seq(OperationsOf(G, Sty)) : s # <<>> => Last(s).op = "Write"}

Printed(cell) == [grapheme |-> cell.grapheme, width |-> cell.width]

\* e is s with what column k adds to it.
Extended(e, G, Sty, t, before, next, s, k) ==
  /\ e \in OutputsOf(G, Sty)
  /\ s # <<>> \/ Changed(before, next, k) => e # <<>>
  /\ ~Changed(before, next, k) => e = s
  /\ Changed(before, next, k) /\ Continues(before, next, k) =>
       ApplyAll(t, e) = WriteOne(ApplyAll(t, s), Printed(next[k]))
  /\ Changed(before, next, k) /\ ~Continues(before, next, k) =>
       ApplyAll(t, e) = WriteOne([ApplyAll(t, s) EXCEPT !.column = k, !.style = next[k].style],
                                 Printed(next[k]))

\* A Write that goes on, or a move, a style and a Write of its own.
LEMMA ExtendSays ==
  ASSUME NEW n \in Nat, NEW G, NEW Sty, {NoText, "?", BlankText} \subseteq G, "default" \in Sty,
         NEW t \in TerminalsOf(n, G, Sty), NEW before, NEW next \in [1..n -> CellsOf(G, Sty)],
         NEW s \in OutputsOf(G, Sty), NEW k \in 1..n,
         Continues(before, next, k) => s # <<>>
  PROVE  Extended(Extend(before, next, s, k), G, Sty, t, before, next, s, k)
<1> DEFINE e == Extend(before, next, s, k)
           T == ApplyAll(t, s)
           character == Printed(next[k])
<1>1. s \in Seq(OperationsOf(G, Sty)) /\ (s # <<>> => Last(s).op = "Write")
  BY DEF OutputsOf
<1>2. T \in TerminalsOf(n, G, Sty)
  BY <1>1, ApplyAllSays
<1>3. CASE ~Changed(before, next, k)
  BY <1>3 DEF Extend, Extended
<1>4. Changed(before, next, k) => character \in CharactersOf(G)
  <2>1. next[k] \in CellsOf(G, Sty)
    OBVIOUS
  <2>2. Changed(before, next, k) => next[k].width # 0
    BY DEF Changed
  <2>3. next[k].grapheme \in G /\ next[k].width \in 0..2
    BY <2>1 DEF CellsOf
  <2> QED BY <2>2, <2>3 DEF CharactersOf, Printed
<1>5. Text(next[k]) = <<character>>
  BY DEF Text, Printed
<1>6. CASE Changed(before, next, k) /\ Continues(before, next, k)
  <2>1. e = Front(s) \o <<Write(Last(s).text \o <<character>>)>>
    BY <1>5, <1>6 DEF Extend
  <2> HIDE DEF e, T, character
  <2>2. e \in Seq(OperationsOf(G, Sty)) /\ e # <<>> /\ Last(e).op = "Write"
    BY <1>1, <1>4, <1>6, <2>1, LongerWrite
  <2>3. ApplyAll(t, e) = WriteOne(ApplyAll(t, s), character)
    BY <1>1, <1>4, <1>6, <2>1, LongerWrite
  <2>4. e \in OutputsOf(G, Sty)
    BY <2>2 DEF OutputsOf
  <2> QED BY <1>6, <2>2, <2>3, <2>4 DEF e, character, Extended
<1>7. CASE Changed(before, next, k) /\ ~Continues(before, next, k)
  <2> DEFINE move  == MoveTo(k)
             style == SetStyle(next[k].style)
             write == Write(<<character>>)
             s1 == s \o <<move>>
             s2 == s1 \o <<style>>
             s3 == s2 \o <<write>>
  <2>1. k \in Nat /\ next[k].style \in Sty
    BY DEF CellsOf
  <2>2. <<character>> \in Seq(CharactersOf(G))
    BY <1>4, <1>7
  <2>3. move \in OperationsOf(G, Sty)
    BY <2>1 DEF OperationsOf
  <2>4. style \in OperationsOf(G, Sty)
    BY <2>1 DEF OperationsOf
  <2>5. write \in OperationsOf(G, Sty)
    <3> HIDE DEF character
    <3> QED BY <2>2 DEF OperationsOf
  <2>6. e = s \o <<move, style, write>>
    BY <1>5, <1>7 DEF Extend
  <2>7. Apply(T, move) = [T EXCEPT !.column = k]
    <3> HIDE DEF T
    <3> QED BY DEF Apply, MoveTo
  <2>8. [T EXCEPT !.column = k] \in TerminalsOf(n, G, Sty)
    BY <1>2, <2>1 DEF TerminalsOf
  <2>9. Apply([T EXCEPT !.column = k], style) = [T EXCEPT !.column = k, !.style = next[k].style]
    <3> DEFINE u == [T EXCEPT !.column = k]
    <3>1. Apply(u, style) = [u EXCEPT !.style = next[k].style]
      <4> HIDE DEF u
      <4> QED BY DEF Apply, SetStyle
    <3> QED BY <1>2, <3>1 DEF TerminalsOf
  <2>10. [T EXCEPT !.column = k, !.style = next[k].style] \in TerminalsOf(n, G, Sty)
    BY <1>2, <2>1 DEF TerminalsOf
  <2> DEFINE u == [T EXCEPT !.column = k, !.style = next[k].style]
  <2>11. Apply(u, write) = WriteOne(u, character)
    <3>1. Apply(u, write) = WriteAll(u, <<character>>)
      <4> HIDE DEF u, character
      <4> QED BY DEF Apply, Write
    <3>2. u \in TerminalsOf(n, G, Sty) /\ character \in CharactersOf(G) /\ NoText \in G /\ "?" \in G
      BY <1>4, <1>7, <2>10
    <3> HIDE DEF u, character
    <3>3. \A characters \in Seq(CharactersOf(G)) : WriteAll(u, <<character>>) = WriteOne(u, character)
      BY <3>2, WriteAllSays
    <3>4. <<>> \in Seq(CharactersOf(G))
      OBVIOUS
    <3> QED BY <3>1, <3>3, <3>4
  <2>12. s3 = e
    <3> HIDE DEF move, style, write, e
    <3> QED BY <1>1, <2>3, <2>4, <2>5, <2>6, ThreeMore, SMTT(30)
  <2> HIDE DEF move, style, write, u
  <2>13. s1 \in Seq(OperationsOf(G, Sty)) /\ ApplyAll(t, s1) = Apply(T, move)
    BY <1>1, <2>3, ApplyAllSays
  <2> HIDE DEF s1
  <2>14. s2 \in Seq(OperationsOf(G, Sty)) /\ ApplyAll(t, s2) = Apply(Apply(T, move), style)
    BY <2>4, <2>13, ApplyAllSays
  <2> HIDE DEF s2
  <2>15. s3 \in Seq(OperationsOf(G, Sty)) /\ ApplyAll(t, s3) = Apply(Apply(Apply(T, move), style), write)
    BY <2>5, <2>14, ApplyAllSays
  <2>16. s3 # <<>> /\ Last(s3) = write
    <3> DEFINE one == <<write>>
    <3>1. one \in Seq(OperationsOf(G, Sty)) /\ Len(one) = 1 /\ one[1] = write
      BY <2>5
    <3> HIDE DEF one
    <3>2. Len(s2) \in Nat /\ Len(s2 \o one) = Len(s2) + 1 /\ (s2 \o one)[Len(s2) + 1] = write
      BY <2>14, <3>1, OneMore, LenProperties
    <3>3. (s2 \o one) \in Seq(OperationsOf(G, Sty))
      BY <2>14, <3>1, OneMore
    <3>4. s2 \o one # <<>> /\ Last(s2 \o one) = write
      BY <3>2, <3>3 DEF Last
    <3> QED BY <3>4 DEF one
  <2> HIDE DEF s3
  <2>17. s3 \in OutputsOf(G, Sty)
    BY <2>15, <2>16 DEF OutputsOf, write, Write
  <2>18. ApplyAll(t, s3) = WriteOne(u, character)
    BY <2>7, <2>9, <2>11, <2>15 DEF u
  <2> QED BY <1>7, <2>12, <2>16, <2>17, <2>18 DEF u, Extended
<1> QED BY <1>3, <1>6, <1>7

\* The operations for the columns up to each, and that none continues what is not there.
Accumulates(ops, before, next, n, G, Sty) ==
  /\ ops \in [0..n -> OutputsOf(G, Sty)] /\ ops[0] = <<>>
  /\ \A k \in 1..n : ops[k] = Extend(before, next, ops[k - 1], k)
  /\ \A k \in 1..n : Continues(before, next, k) => ops[k - 1] # <<>>

\* The operations for the columns up to one are what Upto says, and each column that
\* has changed has some.
LEMMA UptoSays ==
  ASSUME NEW n \in Nat, NEW G, NEW Sty, {NoText, "?", BlankText} \subseteq G, "default" \in Sty,
         NEW before, NEW next \in [1..n -> CellsOf(G, Sty)], Len(next) = n
  PROVE  Accumulates(Upto(before, next), before, next, n, G, Sty)
<1> DEFINE S == OutputsOf(G, Sty)
           E(s, k) == Extend(before, next, s, k)
           step == [p \in S \X (1..n) |-> IF E(p[1], p[2]) \in S THEN E(p[1], p[2]) ELSE <<>>]
           t == [row |-> [column \in 1..n |-> Cell(BlankText, "default", 1)], column |-> 1, style |-> "default"]
           Some(k, s) == (\E lead \in 1..k : Changed(before, next, lead)) => s # <<>>
<1>1. <<>> \in S
  BY DEF OutputsOf
<1>0. t \in TerminalsOf(n, G, Sty)
  <2>1. 1 \in 0..2
    OBVIOUS
  <2>2. Cell(BlankText, "default", 1) \in CellsOf(G, Sty)
    BY <2>1 DEF Cell, CellsOf
  <2>3. 1 \in Nat
    OBVIOUS
  <2> QED BY <2>2, <2>3 DEF TerminalsOf
<1> HIDE DEF t
<1>2. \A s \in S, k \in 1..n : (Continues(before, next, k) => s # <<>>) =>
        E(s, k) \in S /\ (s # <<>> \/ Changed(before, next, k) => E(s, k) # <<>>)
  <2> SUFFICES ASSUME NEW s \in S, NEW k \in 1..n, Continues(before, next, k) => s # <<>>
               PROVE  E(s, k) \in S /\ (s # <<>> \/ Changed(before, next, k) => E(s, k) # <<>>)
    OBVIOUS
  <2>1. Extended(Extend(before, next, s, k), G, Sty, t, before, next, s, k)
    BY <1>0, ExtendSays
  <2> QED BY <2>1 DEF Extended
<1> HIDE DEF S, E
<1>3. step \in [S \X (1..n) -> S] /\ \A s \in S, k \in 1..n : E(s, k) \in S => step[<<s, k>>] = E(s, k)
  BY <1>1
<1> HIDE DEF step
<1>4. PICK f \in [0..n -> S] : Follows(f, <<>>, step, n)
  BY <1>1, <1>3, Recursion
<1>5. f[0] = <<>> /\ \A k \in 1..n : f[k] = step[<<f[k - 1], k>>]
  BY <1>4 DEF Follows
<1>6. \A k \in 1..n : k - 1 \in 0..n /\ k \in 0..n /\ f[k - 1] \in S
  OBVIOUS
<1>7. \A k \in 1..n, s \in S : Some(k - 1, s) => (Continues(before, next, k) => s # <<>>)
  BY DEF Continues
<1>8. ASSUME NEW k \in 1..n, Some(k - 1, f[k - 1]) PROVE f[k] = E(f[k - 1], k) /\ Some(k, f[k])
  <2>1. /\ E(f[k - 1], k) \in S
        /\ f[k - 1] # <<>> \/ Changed(before, next, k) => E(f[k - 1], k) # <<>>
    <3> HIDE DEF Some
    <3> QED BY <1>2, <1>6, <1>7, <1>8
  <2>2. f[k] = E(f[k - 1], k)
    BY <1>3, <1>5, <1>6, <2>1
  <2>3. \A lead \in 1..k : lead = k \/ lead \in 1..(k - 1)
    OBVIOUS
  <2> QED BY <1>8, <2>1, <2>2, <2>3
<1>9. \A k \in 0..n : Some(k, f[k])
  <2> DEFINE Holds == {k \in 0..n : Some(k, f[k])}
  <2>1. 0 \in Holds
    OBVIOUS
  <2> HIDE DEF Some
  <2>2. \A k \in 1..n : k - 1 \in Holds => k \in Holds
    BY <1>6, <1>8
  <2>3. \A k \in 0..n : k \in Holds
    <3> HIDE DEF Holds
    <3> QED BY <2>1, <2>2, Induction
  <2> QED BY <2>3
<1>10. \A k \in 1..n : f[k] = E(f[k - 1], k) /\ (Continues(before, next, k) => f[k - 1] # <<>>)
  <2> HIDE DEF Some
  <2> QED BY <1>6, <1>7, <1>8, <1>9
<1>11. f = [k \in 0..n |-> IF k = 0 THEN <<>> ELSE E(f[k - 1], k)]
  <2>1. \A k \in 0..n : k # 0 => k \in 1..n
    OBVIOUS
  <2>2. \A k \in 0..n : f[k] = IF k = 0 THEN <<>> ELSE E(f[k - 1], k)
    BY <1>5, <1>10, <2>1
  <2> QED BY <2>2
<1> DEFINE g == Upto(before, next)
<1>12. g = CHOOSE h : h = [k \in 0..n |-> IF k = 0 THEN <<>> ELSE E(h[k - 1], k)]
  BY DEF Upto, E
<1> HIDE DEF g
<1>13. g = [k \in 0..n |-> IF k = 0 THEN <<>> ELSE E(g[k - 1], k)]
  BY <1>11, <1>12
<1>14. g[0] = <<>> /\ \A k \in 1..n : g[k] = E(g[k - 1], k)
  <2>1. 0 \in 0..n /\ \A k \in 1..n : k # 0 /\ k \in 0..n
    OBVIOUS
  <2> QED BY <1>13, <2>1
<1>15. \A k \in 0..n : f[k] = g[k]
  <2>1. f[0] = g[0]
    BY <1>5, <1>14
  <2>2. \A k \in 1..n : f[k - 1] = g[k - 1] => f[k] = g[k]
    BY <1>10, <1>14
  <2>3. Agree(f, g, n)
    BY <2>1, <2>2, SameRecursion
  <2> QED BY <2>3 DEF Agree
<1>16. g \in [0..n -> S]
  BY <1>13, <1>15
<1>17. \A k \in 1..n : Continues(before, next, k) => g[k - 1] # <<>>
  BY <1>6, <1>10, <1>15
<1> QED BY <1>14, <1>16, <1>17 DEF Accumulates, g, E, S

-----------------------------------------------------------------------------
(* What a character does to a row. *)

\* r is t after character: what it covers, and what it cuts through on either side.
Wrote(r, t, character, n) ==
  LET w == character.width
  IN  /\ r.column = t.column + w /\ r.style = t.style
      /\ r.row[t.column] = Cell(character.grapheme, t.style, w)
      /\ w = 2 => r.row[t.column + 1] = Cell(NoText, t.style, 0)
      /\ \A c \in 1..n : c < t.column =>
           r.row[c] = t.row[c] \/ (c = t.column - 1 /\ t.row[c].width = 2)
      /\ \A c \in 1..n : c >= t.column + w =>
           r.row[c] = t.row[c] \/ (c = t.column + w /\ t.row[c].width = 0)

\* WriteOne does what Wrote says, of a character that fits.
LEMMA WriteOneSays ==
  ASSUME NEW n \in Nat, NEW G, NEW Sty, NEW t \in TerminalsOf(n, G, Sty),
         NEW character \in CharactersOf(G),
         t.column \in 1..n, t.column + character.width - 1 \in 1..n
  PROVE  Wrote(WriteOne(t, character), t, character, n)
<1> DEFINE from == t.column
           w    == character.width
           to   == from + w - 1
           cell == Cell(character.grapheme, t.style, w)
           row == [column \in DOMAIN t.row |->
                    CASE column = from              -> cell
                      [] column \in (from + 1)..to  -> Continuation(cell)
                      [] column \in Cut(t.row, from, to) -> Broken
                      [] OTHER                      -> t.row[column]]
           r == WriteOne(t, character)
<1>1. r = [t EXCEPT !.column = to + 1, !.row = row]
  BY DEF WriteOne
<1>2. /\ DOMAIN t.row = 1..n /\ t.column \in Nat
      /\ t = [row |-> t.row, column |-> t.column, style |-> t.style]
  BY DEF TerminalsOf
<1>3. w \in 1..2
  BY DEF CharactersOf
<1>4. Continuation(cell) = Cell(NoText, t.style, 0)
  BY DEF Continuation, Cell
<1>5. to + 1 = from + w
  BY <1>2, <1>3
<1> HIDE DEF cell
<1>6. r.row = row /\ r.column = from + w /\ r.style = t.style
  <2> HIDE DEF row, to
  <2> QED BY <1>1, <1>2, <1>5
<1>7. \A c \in 1..n :
        /\ c = from => row[c] = cell
        /\ c \in (from + 1)..to => row[c] = Continuation(cell)
        /\ ~(c = from) /\ c \notin (from + 1)..to => row[c] \in {Broken, t.row[c]}
        /\ ~(c = from) /\ c \notin (from + 1)..to /\ c \notin Cut(t.row, from, to) => row[c] = t.row[c]
  <2> TAKE c \in 1..n
  <2>1. row[c] = CASE c = from              -> cell
                   [] c \in (from + 1)..to  -> Continuation(cell)
                   [] c \in Cut(t.row, from, to) -> Broken
                   [] OTHER                 -> t.row[c]
    BY <1>2
  <2>2. ~(c = from /\ c \in (from + 1)..to)
    BY <1>2
  <2>3. c \in Cut(t.row, from, to) => c # from /\ c \notin (from + 1)..to
    BY <1>2, <1>3 DEF Cut
  <2> HIDE DEF row, to
  <2> QED BY <2>1, <2>2, <2>3
<1> HIDE DEF row
<1>8. row[from] = cell /\ (w = 2 => row[from + 1] = Continuation(cell))
  <2>1. from \in 1..n /\ (w = 2 => from + 1 \in 1..n /\ from + 1 \in (from + 1)..to)
    BY <1>2
  <2> QED BY <1>7, <2>1
<1>9. ASSUME NEW c \in 1..n, c < from PROVE row[c] = t.row[c] \/ (c = from - 1 /\ t.row[c].width = 2)
  <2>1. ~(c = from) /\ c \notin (from + 1)..to /\ c # to + 1
    BY <1>2, <1>3, <1>9
  <2>2. c \in Cut(t.row, from, to) => c = from - 1 /\ t.row[c].width = 2
    BY <2>1 DEF Cut
  <2>3. c \notin Cut(t.row, from, to) => row[c] = t.row[c]
    BY <1>7, <2>1
  <2> QED BY <2>2, <2>3
<1>10. ASSUME NEW c \in 1..n, c >= from + w PROVE row[c] = t.row[c] \/ (c = from + w /\ t.row[c].width = 0)
  <2>1. ~(c = from) /\ c \notin (from + 1)..to /\ c # from - 1 /\ to + 1 = from + w
    BY <1>2, <1>3, <1>10
  <2>2. c \in Cut(t.row, from, to) => c = from + w /\ t.row[c].width = 0
    BY <2>1 DEF Cut
  <2>3. c \notin Cut(t.row, from, to) => row[c] = t.row[c]
    BY <1>7, <2>1
  <2> QED BY <2>2, <2>3
<1> HIDE DEF r
<1> QED BY <1>4, <1>6, <1>8, <1>9, <1>10 DEF Wrote, cell, r

-----------------------------------------------------------------------------
(* The difference turns the one row into the other. *)

\* A row that is valid, its continuations those of the cells they continue.
Formed(row) ==
  /\ validate(row)
  /\ \A c \in DOMAIN row : row[c].width = 0 => row[c] = Continuation(row[c - 1])

\* Where the halves of the wide characters of a row are.
LEMMA FormedSays ==
  ASSUME NEW n \in Nat, NEW G, NEW Sty, NEW row \in [1..n -> CellsOf(G, Sty)], Len(row) = n, Formed(row)
  PROVE  \A c \in 1..n :
           /\ row[c].width \in 0..2
           /\ row[c].width = 0 => c > 1 /\ row[c - 1].width = 2 /\ row[c] = Continuation(row[c - 1])
           /\ row[c].width = 2 => c < n /\ row[c + 1].width = 0 /\ row[c + 1] = Continuation(row[c])
<1> TAKE c \in 1..n
<1>1. row[c] \in CellsOf(G, Sty)
  OBVIOUS
<1>2. row[c].width \in 0..2
  BY <1>1 DEF CellsOf
<1>3. row[c].width = 0 => c > 1 /\ row[c - 1].width = 2 /\ row[c] = Continuation(row[c - 1])
  BY DEF Formed, validate
<1>4. row[c].width = 2 => c < n /\ row[c + 1].width = 0
  BY DEF Formed, validate
<1>5. c < n => c + 1 \in DOMAIN row /\ (c + 1) - 1 = c
  OBVIOUS
<1>6. row[c].width = 2 => row[c + 1] = Continuation(row[c])
  BY <1>4, <1>5 DEF Formed
<1> QED BY <1>2, <1>3, <1>4, <1>6

\* Up to column k the terminal shows next; after it, before, or what will be written
\* over; and after a Write it stands where the next character goes, in its style.
Shows(T, before, next, k) ==
  /\ \A c \in 1..k : T.row[c] = next[c]
  /\ \A c \in 1..Len(next) : c > k =>
       T.row[c] \in {before[c], next[c]} \/ Changed(before, next, c)
  /\ \A c \in 1..Len(next) : c = k + 1 /\ next[c].width = 0 => T.row[c] = next[c]
  /\ \A lead \in 1..k : Changed(before, next, lead) /\ lead + next[lead].width > k =>
       T.column = lead + next[lead].width /\ T.style = next[lead].style

\* A column that is no change, and needs no operation.
LEMMA UnchangedShown ==
  ASSUME NEW n \in Nat, NEW G, NEW Sty,
         NEW before \in [1..n -> CellsOf(G, Sty)], Len(before) = n, Formed(before),
         NEW next \in [1..n -> CellsOf(G, Sty)], Len(next) = n, Formed(next),
         NEW T, NEW k \in 1..n, Shows(T, before, next, k - 1), ~Changed(before, next, k)
  PROVE  Shows(T, before, next, k)
<1>1. \A c \in 1..k : c = k \/ c \in 1..(k - 1)
  OBVIOUS
<1>2. T.row[k] = next[k]
  <2>1. CASE next[k].width = 0
    <3>1. k = (k - 1) + 1
      OBVIOUS
    <3> QED BY <2>1, <3>1 DEF Shows
  <2>2. CASE next[k].width # 0
    <3>1. before[k] = next[k]
      BY <2>2 DEF Changed
    <3>2. T.row[k] \in {before[k], next[k]}
      BY DEF Shows
    <3> QED BY <3>1, <3>2
  <2> QED BY <2>1, <2>2
<1>3. \A c \in 1..k : T.row[c] = next[c]
  BY <1>1, <1>2 DEF Shows
<1>4. \A c \in 1..n : c > k => T.row[c] \in {before[c], next[c]} \/ Changed(before, next, c)
  <2>1. \A c \in 1..n : c > k => c > k - 1
    OBVIOUS
  <2> QED BY <2>1 DEF Shows
<1>5. ASSUME NEW c \in 1..n, c = k + 1, next[c].width = 0 PROVE T.row[c] = next[c]
  <2>1. next[k].width = 2 /\ next[c] = Continuation(next[k])
    <3>1. c - 1 = k
      BY <1>5
    <3> QED BY <1>5, <3>1, FormedSays
  <2>2. before[k] = next[k]
    BY <2>1 DEF Changed
  <2>3. before[c] = Continuation(before[k])
    BY <1>5, <2>1, <2>2, FormedSays
  <2>4. ~Changed(before, next, c) /\ c > k
    BY <1>5 DEF Changed
  <2> QED BY <1>4, <2>1, <2>2, <2>3, <2>4
<1>6. ASSUME NEW lead \in 1..k, Changed(before, next, lead), lead + next[lead].width > k
      PROVE  T.column = lead + next[lead].width /\ T.style = next[lead].style
  <2>1. lead \in 1..(k - 1)
    BY <1>1, <1>6
  <2>2. next[lead].width \in 0..2
    BY FormedSays
  <2>3. lead + next[lead].width > k - 1
    BY <1>6, <2>2
  <2> QED BY <1>6, <2>1, <2>3 DEF Shows
<1> QED BY <1>3, <1>4, <1>5, <1>6 DEF Shows

\* A column that is, once its character is written in its place.
LEMMA ChangedShown ==
  ASSUME NEW n \in Nat, NEW G, NEW Sty,
         NEW before \in [1..n -> CellsOf(G, Sty)], Len(before) = n, Formed(before),
         NEW next \in [1..n -> CellsOf(G, Sty)], Len(next) = n, Formed(next),
         NEW T, NEW k \in 1..n, Shows(T, before, next, k - 1), Changed(before, next, k),
         NEW u \in TerminalsOf(n, G, Sty), u.row = T.row, u.column = k, u.style = next[k].style
  PROVE  Shows(WriteOne(u, Printed(next[k])), before, next, k)
<1> DEFINE w == next[k].width
           r == WriteOne(u, Printed(next[k]))
<1>1. \A c \in 1..k : c = k \/ c \in 1..(k - 1)
  OBVIOUS
<1>2. w \in 1..2 /\ next[k].grapheme \in G /\ next[k] = Cell(next[k].grapheme, next[k].style, w)
  <2>1. next[k] \in CellsOf(G, Sty) /\ next[k].width # 0
    BY DEF Changed
  <2>2. next[k].width \in 0..2 /\ next[k].grapheme \in G /\ next[k] = Cell(next[k].grapheme, next[k].style, w)
    BY <2>1 DEF CellsOf, Cell
  <2> QED BY <2>1, <2>2
<1>3. /\ Printed(next[k]) \in CharactersOf(G)
      /\ Printed(next[k]).width = w /\ Printed(next[k]).grapheme = next[k].grapheme
  BY <1>2 DEF CharactersOf, Printed
<1>4. w = 2 => k < n /\ next[k + 1].width = 0 /\ next[k + 1] = Continuation(next[k])
  BY FormedSays
<1>5. k + w - 1 \in 1..n
  BY <1>2, <1>4
<1>6. /\ r.column = k + w /\ r.style = next[k].style
      /\ r.row[k] = Cell(next[k].grapheme, next[k].style, w)
      /\ w = 2 => r.row[k + 1] = Cell(NoText, next[k].style, 0)
      /\ \A c \in 1..n : c < k => r.row[c] = T.row[c] \/ (c = k - 1 /\ T.row[c].width = 2)
      /\ \A c \in 1..n : c >= k + w => r.row[c] = T.row[c] \/ (c = k + w /\ T.row[c].width = 0)
  <2> DEFINE character == Printed(next[k])
  <2>1. /\ character \in CharactersOf(G) /\ character.width = w /\ character.grapheme = next[k].grapheme
        /\ u.column \in 1..n /\ u.column + character.width - 1 \in 1..n
    BY <1>3, <1>5
  <2> HIDE DEF character
  <2>2. Wrote(WriteOne(u, character), u, character, n)
    BY <2>1, WriteOneSays
  <2> QED BY <2>1, <2>2 DEF Wrote, character
<1> HIDE DEF r
<1>7. ASSUME NEW c \in 1..k PROVE r.row[c] = next[c]
  <2>1. CASE c = k
    BY <1>2, <1>6, <2>1
  <2>2. CASE c \in 1..(k - 1)
    <3>1. T.row[c] = next[c]
      BY <2>2 DEF Shows
    <3>2. ~(c = k - 1 /\ next[c].width = 2)
      <4>1. ASSUME c = k - 1, next[c].width = 2 PROVE FALSE
        <5>1. c + 1 = k /\ c \in 1..n
          BY <2>2, <4>1
        <5>2. next[c + 1].width = 0
          BY <4>1, <5>1 DEF Formed, validate
        <5> QED BY <1>2, <5>1, <5>2
      <4> QED BY <4>1
    <3>3. c \in 1..n /\ c < k
      BY <2>2
    <3> QED BY <1>6, <3>1, <3>2, <3>3
  <2> QED BY <1>1, <2>1, <2>2
<1>8. ASSUME NEW c \in 1..n, c = k + 1, next[c].width = 0 PROVE r.row[c] = next[c]
  <2>1. c - 1 = k
    BY <1>8
  <2>2. w = 2 /\ next[c] = Continuation(next[k])
    BY <1>8, <2>1, FormedSays
  <2> QED BY <1>6, <1>8, <2>2 DEF Continuation
<1>9. ASSUME NEW c \in 1..n, c > k
      PROVE  r.row[c] \in {before[c], next[c]} \/ Changed(before, next, c)
  <2>1. T.row[c] \in {before[c], next[c]} \/ Changed(before, next, c)
    <3>1. c > k - 1
      BY <1>9
    <3> QED BY <3>1 DEF Shows
  <2>2. CASE c < k + w
    <3>1. w = 2 /\ c = k + 1
      BY <1>2, <1>9, <2>2
    <3> QED BY <1>4, <1>8, <3>1
  <2>3. CASE c >= k + w
    <3>1. CASE r.row[c] = T.row[c]
      BY <2>1, <3>1
    <3>2. CASE c = k + w /\ T.row[c].width = 0
      <4>1. next[c].width # 0
        <5>1. ASSUME next[c].width = 0 PROVE FALSE
          <6>1. next[c - 1].width = 2
            BY <5>1, FormedSays
          <6>2. CASE w = 1
            <7>1. c - 1 = k
              BY <3>2, <6>2
            <7> QED BY <6>1, <6>2, <7>1
          <6>3. CASE w = 2
            <7>1. c - 1 = k + 1
              BY <3>2, <6>3
            <7> QED BY <1>4, <6>1, <6>3, <7>1
          <6> QED BY <1>2, <6>2, <6>3
        <5> QED BY <5>1
      <4>2. CASE T.row[c] = before[c]
        BY <3>2, <4>1, <4>2 DEF Changed
      <4> QED BY <2>1, <3>2, <4>1, <4>2
    <3> QED BY <1>6, <2>3, <3>1, <3>2
  <2> QED BY <1>2, <2>2, <2>3
<1>10. ASSUME NEW lead \in 1..k, Changed(before, next, lead), lead + next[lead].width > k
       PROVE  r.column = lead + next[lead].width /\ r.style = next[lead].style
  <2>1. CASE lead = k
    BY <1>6, <2>1
  <2>2. CASE lead \in 1..(k - 1)
    <3>1. lead \in 1..n /\ next[lead].width \in 0..2
      BY <2>2, FormedSays
    <3>2. lead + 1 = k /\ next[lead].width = 2
      BY <1>10, <2>2, <3>1
    <3>3. next[lead + 1].width = 0
      BY <3>1, <3>2, FormedSays
    <3> QED BY <1>2, <3>2, <3>3
  <2> QED BY <1>1, <2>1, <2>2
<1> QED BY <1>7, <1>8, <1>9, <1>10 DEF Shows, r

\* The operations leave the terminal t with the row next, in the default style.
Leaves(operations, t, next, n, G, Sty) ==
  /\ operations \in Seq(OperationsOf(G, Sty))
  /\ ApplyAll(t, operations) \in TerminalsOf(n, G, Sty)
  /\ ApplyAll(t, operations).row = next
  /\ ApplyAll(t, operations).style = "default"

\* What the operations of a difference leave on a terminal that shows the row before.
LEMMA SameSizeShown ==
  ASSUME NEW n \in Nat, NEW G, NEW Sty, {NoText, "?", BlankText} \subseteq G, "default" \in Sty,
         NEW before \in [1..n -> CellsOf(G, Sty)], Len(before) = n, Formed(before),
         NEW next \in [1..n -> CellsOf(G, Sty)], Len(next) = n, Formed(next),
         NEW t \in TerminalsOf(n, G, Sty), t.row = before, t.style = "default"
  PROVE  Leaves(SameSize(before, next), t, next, n, G, Sty)
<1> DEFINE ops == Upto(before, next)
           Reached(k) == ApplyAll(t, ops[k])
<1>1. /\ ops \in [0..n -> OutputsOf(G, Sty)] /\ ops[0] = <<>>
      /\ \A k \in 1..n : ops[k] = Extend(before, next, ops[k - 1], k)
      /\ \A k \in 1..n : Continues(before, next, k) => ops[k - 1] # <<>>
  <2>1. Accumulates(ops, before, next, n, G, Sty)
    BY UptoSays
  <2> HIDE DEF ops
  <2> QED BY <2>1 DEF Accumulates
<1> HIDE DEF ops
<1>2. \A k \in 0..n : ops[k] \in Seq(OperationsOf(G, Sty))
  BY <1>1 DEF OutputsOf
<1>3. \A k \in 0..n : Reached(k) \in TerminalsOf(n, G, Sty)
  BY <1>2, ApplyAllSays
<1>4. ApplyAll(t, <<>>) = t
  <2>1. \A s \in Seq(OperationsOf(G, Sty)) : ApplyAll(t, <<>>) = t
    BY ApplyAllSays
  <2>2. 0 \in 0..n
    OBVIOUS
  <2> QED BY <1>2, <2>1, <2>2
<1>5. Shows(Reached(0), before, next, 0)
  <2>1. Reached(0) = t
    BY <1>1, <1>4
  <2>2. \A c \in 1..n : c = 0 + 1 => next[c].width # 0
    BY FormedSays
  <2> HIDE DEF After
  <2> QED BY <2>1, <2>2 DEF Shows
<1>6. ASSUME NEW k \in 1..n, Shows(Reached(k - 1), before, next, k - 1)
      PROVE  Shows(Reached(k), before, next, k)
  <2> DEFINE T == Reached(k - 1)
             s == ops[k - 1]
  <2>1. s \in OutputsOf(G, Sty) /\ ops[k] = Extend(before, next, s, k)
    <3>1. k - 1 \in 0..n
      OBVIOUS
    <3> QED BY <1>1, <3>1
  <2>2. Continues(before, next, k) => s # <<>>
    BY <1>1
  <2>3. T \in TerminalsOf(n, G, Sty) /\ T = ApplyAll(t, s)
    BY <1>3, <2>1
  <2> HIDE DEF T, s
  <2>4. Shows(T, before, next, k - 1)
    BY <1>6 DEF T
  <2> DEFINE e == Extend(before, next, s, k)
  <2>5. Extended(e, G, Sty, t, before, next, s, k)
    BY <2>1, <2>2, ExtendSays
  <2> HIDE DEF e
  <2>6. ops[k] = e
    BY <2>1 DEF e
  <2>7. CASE ~Changed(before, next, k)
    <3>2. Reached(k) = T
      BY <2>3, <2>7, <2>5, <2>6 DEF Extended
    <3> QED BY <2>4, <2>7, <3>2, UnchangedShown
  <2>8. CASE Changed(before, next, k) /\ Continues(before, next, k)
    <3>1. Reached(k) = WriteOne(T, Printed(next[k]))
      BY <2>3, <2>8, <2>5, <2>6 DEF Extended
    <3>2. PICK lead \in 1..(k - 1) :
            /\ lead + next[lead].width = k
            /\ Changed(before, next, lead)
            /\ next[lead].style = next[k].style
      BY <2>8 DEF Continues
    <3>3. T.column = k /\ T.style = next[k].style
      BY <2>4, <3>2 DEF Shows
    <3> QED BY <2>3, <2>4, <2>8, <3>1, <3>3, ChangedShown
  <2>9. CASE Changed(before, next, k) /\ ~Continues(before, next, k)
    <3> DEFINE u == [T EXCEPT !.column = k, !.style = next[k].style]
    <3>1. Reached(k) = WriteOne(u, Printed(next[k]))
      BY <2>3, <2>9, <2>5, <2>6 DEF Extended
    <3>2. u \in TerminalsOf(n, G, Sty) /\ u.row = T.row /\ u.column = k /\ u.style = next[k].style
      <4>1. next[k].style \in Sty /\ k \in Nat
        BY DEF CellsOf
      <4> QED BY <2>3, <4>1 DEF TerminalsOf
    <3> HIDE DEF u
    <3> QED BY <2>4, <2>9, <3>1, <3>2, ChangedShown
  <2> QED BY <2>7, <2>8, <2>9
<1> HIDE DEF After
<1>7. Shows(Reached(n), before, next, n)
  <2> DEFINE Holds == {k \in 0..n : Shows(Reached(k), before, next, k)}
  <2>1. 0 \in Holds
    BY <1>5
  <2>2. \A k \in 1..n : k - 1 \in Holds => k \in Holds
    BY <1>6
  <2>3. \A k \in 0..n : k \in Holds
    <3> HIDE DEF Holds
    <3> QED BY <2>1, <2>2, Induction
  <2>4. n \in 0..n
    OBVIOUS
  <2> QED BY <2>3, <2>4
<1>8. Reached(n).row = next
  <2>1. Reached(n).row \in [1..n -> CellsOf(G, Sty)]
    BY <1>3 DEF TerminalsOf
  <2>2. \A c \in 1..n : Reached(n).row[c] = next[c]
    BY <1>7 DEF Shows
  <2> QED BY <2>1, <2>2
<1>9. CASE ops[n] = <<>>
  <2>1. SameSize(before, next) = <<>>
    BY <1>9 DEF SameSize, ops
  <2>2. Reached(n) = t
    BY <1>4, <1>9 DEF After
  <2>3. <<>> \in Seq(OperationsOf(G, Sty))
    OBVIOUS
  <2> QED BY <1>3, <1>4, <1>8, <2>1, <2>2, <2>3 DEF Leaves
<1>10. CASE ops[n] # <<>>
  <2>1. ops[n] \in Seq(OperationsOf(G, Sty)) /\ ResetStyle \in OperationsOf(G, Sty)
    BY <1>2 DEF OperationsOf
  <2>2. SameSize(before, next) = ops[n] \o <<ResetStyle>>
    <3>1. SameSize(before, next) = Append(ops[n], ResetStyle)
      BY <1>10 DEF SameSize, ops
    <3> HIDE DEF ops
    <3> QED BY <2>1, <3>1, AppendIsConcat
  <2>3. /\ SameSize(before, next) \in Seq(OperationsOf(G, Sty))
        /\ ApplyAll(t, SameSize(before, next)) = Apply(Reached(n), ResetStyle)
    BY <2>1, <2>2, ApplyAllSays DEF After
  <2>4. Apply(Reached(n), ResetStyle) = [Reached(n) EXCEPT !.style = "default"]
    BY DEF Apply, ResetStyle
  <2>5. Reached(n) \in TerminalsOf(n, G, Sty)
    BY <1>3
  <2>6. /\ [Reached(n) EXCEPT !.style = "default"] \in TerminalsOf(n, G, Sty)
        /\ [Reached(n) EXCEPT !.style = "default"].row = Reached(n).row
        /\ [Reached(n) EXCEPT !.style = "default"].style = "default"
    BY <2>5 DEF TerminalsOf
  <2> QED BY <1>8, <2>3, <2>4, <2>6 DEF Leaves
<1> QED BY <1>9, <1>10

\* One operation first.
LEMMA ApplyFirst ==
  ASSUME NEW n \in Nat, NEW G, NEW Sty, {NoText, "?", BlankText} \subseteq G, "default" \in Sty,
         NEW t \in TerminalsOf(n, G, Sty), NEW operation \in OperationsOf(G, Sty),
         NEW rest \in Seq(OperationsOf(G, Sty))
  PROVE  /\ <<operation>> \o rest \in Seq(OperationsOf(G, Sty))
         /\ ApplyAll(t, <<operation>> \o rest) = ApplyAll(Apply(t, operation), rest)
<1> DEFINE one == <<operation>>
           whole == one \o rest
<1>1. one \in Seq(OperationsOf(G, Sty)) /\ Len(one) = 1 /\ one[1] = operation
  OBVIOUS
<1>2. Len(rest) \in Nat
  BY LenProperties
<1> HIDE DEF one
<1>3. /\ whole \in Seq(OperationsOf(G, Sty)) /\ Len(whole) = Len(rest) + 1
      /\ whole[1] = operation /\ \A k \in 1..Len(rest) : whole[k + 1] = rest[k]
  <2>1. /\ whole \in Seq(OperationsOf(G, Sty)) /\ Len(whole) = Len(one) + Len(rest)
        /\ \A k \in 1 .. Len(one) + Len(rest) :
              whole[k] = IF k <= Len(one) THEN one[k] ELSE rest[k - Len(one)]
    BY <1>1, ConcatProperties
  <2>2. Len(one) + Len(rest) = Len(rest) + 1
    BY <1>1, <1>2
  <2>3. \A k \in 1..Len(rest) : k + 1 \in 1 .. Len(rest) + 1 /\ ~(k + 1 <= 1) /\ (k + 1) - 1 = k
    BY <1>2
  <2>4. 1 \in 1 .. Len(rest) + 1 /\ 1 <= 1
    BY <1>2
  <2> HIDE DEF whole
  <2> QED BY <1>1, <2>1, <2>2, <2>3, <2>4
<1> HIDE DEF whole
<1>4. Apply(t, operation) \in TerminalsOf(n, G, Sty)
  BY ApplySays
<1> DEFINE f == Applying(Apply(t, operation), rest)
           g == Applying(t, whole)
           h == [k \in 0..Len(rest) |-> g[k + 1]]
<1>5. f[0] = Apply(t, operation) /\ \A k \in 1..Len(rest) : f[k] = Apply(f[k - 1], rest[k])
  BY <1>4, ApplyingDefined
<1>6. g[0] = t /\ \A k \in 1..(Len(rest) + 1) : g[k] = Apply(g[k - 1], whole[k])
  <2>1. g[0] = t /\ \A k \in 1..Len(whole) : g[k] = Apply(g[k - 1], whole[k])
    <3>1. ASSUME NEW w \in Seq(OperationsOf(G, Sty))
          PROVE  /\ Applying(t, w)[0] = t
                 /\ \A k \in 1..Len(w) : Applying(t, w)[k] = Apply(Applying(t, w)[k - 1], w[k])
      BY ApplyingDefined
    <3> QED BY <1>3, <3>1
  <2> QED BY <1>3, <2>1
<1> HIDE DEF f, g
<1>7. h[0] = f[0]
  <2>1. 1 \in 1..(Len(rest) + 1) /\ 0 \in 0..Len(rest) /\ 0 + 1 = 1 /\ 1 - 1 = 0
    BY <1>2
  <2> QED BY <1>3, <1>5, <1>6, <2>1
<1>8. \A k \in 1..Len(rest) : h[k] = Apply(h[k - 1], rest[k])
  <2> TAKE k \in 1..Len(rest)
  <2>1. /\ k + 1 \in 1..(Len(rest) + 1) /\ (k + 1) - 1 = k /\ (k - 1) + 1 = k
        /\ k \in 0..Len(rest) /\ k - 1 \in 0..Len(rest)
    BY <1>2
  <2>2. g[k + 1] = Apply(g[k], rest[k])
    BY <1>3, <1>6, <2>1
  <2> QED BY <2>1, <2>2
<1>9. \A k \in 0..Len(rest) : h[k] = f[k]
  <2> HIDE DEF h
  <2>1. \A k \in 1..Len(rest) : h[k - 1] = f[k - 1] => h[k] = f[k]
    BY <1>5, <1>8
  <2>2. Agree(h, f, Len(rest))
    BY <1>2, <1>7, <2>1, SameRecursion
  <2> QED BY <2>2 DEF Agree
<1>10. g[Len(rest) + 1] = f[Len(rest)]
  <2>1. Len(rest) \in 0..Len(rest)
    BY <1>2
  <2> QED BY <1>9, <2>1
<1> QED BY <1>3, <1>10 DEF ApplyAll, f, g, whole, one

\* Surface::new, as a row.
LEMMA BlankRow ==
  ASSUME NEW n \in Nat, NEW G, NEW Sty, {NoText, "?", BlankText} \subseteq G, "default" \in Sty
  PROVE  /\ Row(n) \in [1..n -> CellsOf(G, Sty)] /\ Len(Row(n)) = n /\ Formed(Row(n))
         /\ Row(n) = [column \in 1..n |-> Cell(BlankText, "default", 1)]
<1>1. Row(n) = [column \in 1..n |-> Cell(BlankText, "default", 1)]
  BY DEF Row, Blank
<1>2. Cell(BlankText, "default", 1) \in CellsOf(G, Sty)
  <2>1. 1 \in 0..2
    OBVIOUS
  <2> QED BY <2>1 DEF Cell, CellsOf
<1>3. Row(n) \in [1..n -> CellsOf(G, Sty)]
  BY <1>1, <1>2
<1>4. Len(Row(n)) = n
  <2>1. Row(n) \in Seq(CellsOf(G, Sty))
    BY <1>3
  <2> QED BY <1>3, <2>1
<1>5. \A c \in 1..n : Row(n)[c].width = 1
  BY <1>1 DEF Cell
<1>6. DOMAIN Row(n) = 1..n
  BY <1>3
<1> HIDE DEF Row
<1>7. Formed(Row(n))
  BY <1>5, <1>6 DEF Formed, validate
<1> QED BY <1>1, <1>3, <1>4, <1>7

\* A full redraw shows the row wherever the cursor was, and whatever was there.
LEMMA RedrawShown ==
  ASSUME NEW n \in Nat, NEW G, NEW Sty, {NoText, "?", BlankText} \subseteq G, "default" \in Sty,
         NEW next \in [1..n -> CellsOf(G, Sty)], Len(next) = n, Formed(next),
         NEW t \in TerminalsOf(n, G, Sty), t.style = "default"
  PROVE  Leaves(full_redraw(next), t, next, n, G, Sty)
<1> DEFINE cleared == Apply(t, ClearScreen)
           blank == Row(n)
           rest == SameSize(blank, next)
<1>1. /\ blank \in [1..n -> CellsOf(G, Sty)] /\ Len(blank) = n /\ Formed(blank)
      /\ blank = [column \in 1..n |-> Cell(BlankText, "default", 1)]
  BY BlankRow
<1>2. cleared \in TerminalsOf(n, G, Sty)
  <2>1. ClearScreen \in OperationsOf(G, Sty)
    BY DEF OperationsOf
  <2> QED BY <2>1, ApplySays
<1>3. cleared = [t EXCEPT !.column = 1, !.row = [column \in 1..n |-> Cell(BlankText, t.style, 1)]]
  BY DEF Apply, ClearScreen, TerminalsOf
<1>4. cleared.row = blank /\ cleared.style = "default"
  BY <1>1, <1>3 DEF TerminalsOf
<1> HIDE DEF cleared, blank
<1>5. Leaves(rest, cleared, next, n, G, Sty)
  BY <1>1, <1>2, <1>4, SameSizeShown
<1>6. full_redraw(next) = <<ClearScreen>> \o rest
  BY DEF full_redraw, blank
<1>7. ClearScreen \in OperationsOf(G, Sty)
  BY DEF OperationsOf
<1> HIDE DEF rest
<1>8. /\ full_redraw(next) \in Seq(OperationsOf(G, Sty))
      /\ ApplyAll(t, full_redraw(next)) = ApplyAll(cleared, rest)
  <2>1. rest \in Seq(OperationsOf(G, Sty))
    BY <1>5 DEF Leaves
  <2>2. ASSUME NEW operation \in OperationsOf(G, Sty)
        PROVE  /\ <<operation>> \o rest \in Seq(OperationsOf(G, Sty))
               /\ ApplyAll(t, <<operation>> \o rest) = ApplyAll(Apply(t, operation), rest)
    BY <2>1, ApplyFirst
  <2> QED BY <1>6, <1>7, <2>2 DEF cleared
<1> QED BY <1>5, <1>8 DEF Leaves

\* diff, on any two rows whose wide characters are whole, of whatever length, text and
\* style: a terminal that shows the first, or anything where the lengths differ, shows
\* the second once the operations are written, and writes in the default style.
THEOREM AnyDiffShowsNext ==
  ASSUME NEW n \in Nat, NEW m \in Nat, NEW G, NEW Sty, {NoText, "?", BlankText} \subseteq G, "default" \in Sty,
         NEW before \in [1..m -> CellsOf(G, Sty)], Len(before) = m, Formed(before),
         NEW next \in [1..n -> CellsOf(G, Sty)], Len(next) = n, Formed(next),
         NEW t \in TerminalsOf(n, G, Sty), t.style = "default", m = n => t.row = before
  PROVE  Leaves(diff(before, next), t, next, n, G, Sty)
<1>1. CASE m = n
  <2>1. before \in [1..n -> CellsOf(G, Sty)] /\ Len(before) = n /\ t.row = before
    BY <1>1
  <2>2. Leaves(SameSize(before, next), t, next, n, G, Sty)
    BY <2>1, SameSizeShown
  <2> QED BY <1>1, <2>2 DEF diff
<1>2. CASE m # n
  <2>1. Leaves(full_redraw(next), t, next, n, G, Sty)
    BY RedrawShown
  <2> QED BY <1>2, <2>1 DEF diff
<1> QED BY <1>1, <1>2

-----------------------------------------------------------------------------
(* The rows that put_cell builds. *)

\* A wide character is cleared whole, or not at all.
LEMMA ClearedWhole ==
  ASSUME NEW n \in Nat, NEW G, NEW Sty, NEW row \in [1..n -> CellsOf(G, Sty)], Len(row) = n, Formed(row),
         NEW x \in 1..n, NEW c \in 1..n, row[c].width = 2
  PROVE  c \in Overlapping(row, x) <=> c + 1 \in Overlapping(row, x)
<1>1. c < n /\ c + 1 \in 1..n /\ row[c + 1].width = 0
  BY FormedSays
<1>2. row[x].width \in 0..2
  BY FormedSays
<1>3. CASE row[x].width = 0
  <2>1. Overlapping(row, x) = {x - 1, x} /\ x - 1 \in 1..n /\ row[x - 1].width = 2
    BY <1>3, FormedSays DEF Overlapping
  <2>2. x # c /\ x - 1 # c + 1
    BY <1>1, <1>3, <2>1
  <2> QED BY <2>1, <2>2
<1>4. CASE row[x].width = 2
  <2>1. Overlapping(row, x) = {x, x + 1} /\ x + 1 \in 1..n /\ row[x + 1].width = 0
    BY <1>4, FormedSays DEF Overlapping
  <2>2. x # c + 1 /\ x + 1 # c
    BY <1>1, <1>4, <2>1
  <2> QED BY <2>1, <2>2
<1>5. CASE row[x].width = 1
  <2>1. Overlapping(row, x) = {x}
    BY <1>5 DEF Overlapping
  <2>2. x # c /\ x # c + 1
    BY <1>1, <1>5
  <2> QED BY <2>1, <2>2
<1> QED BY <1>2, <1>3, <1>4, <1>5

\* Surface::put_cell leaves no half of a wide character: a row whose continuations follow
\* their leads, and are what the lead makes them, stays one.
THEOREM PutsLeaveRowsWhole ==
  ASSUME NEW n \in Nat, NEW G, NEW Sty, {NoText, "?", BlankText} \subseteq G, "default" \in Sty,
         NEW row \in [1..n -> CellsOf(G, Sty)], Len(row) = n, Formed(row),
         NEW column \in 1..n, NEW cell \in CellsOf(G, Sty), cell.width \in 1..2, cell.width = 2 => column < n
  PROVE  /\ put_cell(row, column, cell) \in [1..n -> CellsOf(G, Sty)]
         /\ Len(put_cell(row, column, cell)) = n
         /\ Formed(put_cell(row, column, cell))
<1> DEFINE cleared == Overlapping(row, column)
                        \cup IF cell.width = 2 THEN Overlapping(row, column + 1) ELSE {}
           p == put_cell(row, column, cell)
<1>1. p = [c \in 1..n |-> IF c = column THEN cell
                          ELSE IF c = column + 1 /\ cell.width = 2 THEN Continuation(cell)
                          ELSE IF c \in cleared THEN Blank
                          ELSE row[c]]
  BY DEF put_cell
<1>2. Continuation(cell) \in CellsOf(G, Sty) /\ Blank \in CellsOf(G, Sty)
  <2>1. 0 \in 0..2 /\ 1 \in 0..2
    OBVIOUS
  <2>2. cell.style \in Sty
    BY DEF CellsOf
  <2> QED BY <2>1, <2>2 DEF Continuation, Blank, Cell, CellsOf
<1>3. p \in [1..n -> CellsOf(G, Sty)]
  <2> HIDE DEF cleared, p
  <2> QED BY <1>1, <1>2
<1>4. Len(p) = n
  <2> HIDE DEF p
  <2>1. p \in Seq(CellsOf(G, Sty))
    BY <1>3
  <2> QED BY <1>3, <2>1
<1>5. Continuation(cell).width = 0 /\ Blank.width = 1
  BY DEF Continuation, Blank, Cell
<1>6. column \in cleared /\ (cell.width = 2 => column + 1 \in cleared)
  <2>1. \A x \in 1..n : x \in Overlapping(row, x)
    BY FormedSays DEF Overlapping
  <2>2. cell.width = 2 => column + 1 \in 1..n
    OBVIOUS
  <2> QED BY <2>1, <2>2
<1>7. ASSUME NEW c \in 1..n, row[c].width = 2 PROVE c \in cleared <=> c + 1 \in cleared
  <2>1. c \in Overlapping(row, column) <=> c + 1 \in Overlapping(row, column)
    BY <1>7, ClearedWhole
  <2>2. ASSUME cell.width = 2
        PROVE  c \in Overlapping(row, column + 1) <=> c + 1 \in Overlapping(row, column + 1)
    <3>1. column + 1 \in 1..n
      BY <2>2
    <3> QED BY <1>7, <3>1, ClearedWhole
  <2> QED BY <2>1, <2>2
<1> HIDE DEF cleared, p
<1>8. \A c \in 1..n :
        /\ c = column => p[c] = cell
        /\ c = column + 1 /\ cell.width = 2 => p[c] = Continuation(cell)
        /\ c \in cleared /\ c # column /\ ~(c = column + 1 /\ cell.width = 2) => p[c] = Blank
        /\ c \notin cleared => p[c] = row[c]
  BY <1>1, <1>6
<1>9. ASSUME NEW c \in 1..n, p[c].width = 0
      PROVE  c > 1 /\ p[c - 1].width = 2 /\ p[c] = Continuation(p[c - 1])
  <2>1. CASE c = column + 1 /\ cell.width = 2
    <3>1. c - 1 = column
      BY <2>1
    <3>2. p[column] = cell /\ p[c] = Continuation(cell)
      BY <1>8, <2>1
    <3> QED BY <2>1, <3>1, <3>2
  <2>2. CASE ~(c = column + 1 /\ cell.width = 2)
    <3>1. c \notin cleared /\ p[c] = row[c]
      BY <1>5, <1>8, <1>9, <2>2
    <3>2. c > 1 /\ row[c - 1].width = 2 /\ row[c] = Continuation(row[c - 1])
      BY <1>9, <3>1, FormedSays
    <3>3. c - 1 \in 1..n /\ (c - 1) + 1 = c
      BY <3>2
    <3>4. c - 1 \notin cleared
      BY <1>7, <3>1, <3>2, <3>3
    <3>5. p[c - 1] = row[c - 1]
      BY <1>8, <3>3, <3>4
    <3> QED BY <3>1, <3>2, <3>5
  <2> QED BY <2>1, <2>2
<1>10. ASSUME NEW c \in 1..n, p[c].width = 2 PROVE c < n /\ p[c + 1].width = 0
  <2>1. CASE c = column
    <3>1. cell.width = 2
      BY <1>8, <1>10, <2>1
    <3>2. c < n /\ c + 1 \in 1..n
      BY <2>1, <3>1
    <3> QED BY <1>5, <1>8, <2>1, <3>1, <3>2
  <2>2. CASE c # column
    <3>1. c \notin cleared /\ p[c] = row[c]
      BY <1>5, <1>8, <1>10, <2>2
    <3>2. c < n /\ c + 1 \in 1..n /\ row[c + 1].width = 0
      <4>1. row[c].width = 2
        BY <1>10, <3>1
      <4>2. c < n /\ row[c + 1].width = 0
        BY <4>1, FormedSays
      <4> QED BY <4>2
    <3>3. c + 1 \notin cleared
      BY <1>7, <1>10, <3>1
    <3> QED BY <1>8, <3>2, <3>3
  <2> QED BY <2>1, <2>2
<1>11. Formed(p)
  <2>1. DOMAIN p = 1..n
    BY <1>3
  <2> QED BY <1>4, <1>9, <1>10, <2>1 DEF Formed, validate
<1> QED BY <1>3, <1>4, <1>11 DEF p

\* The rows of up to so many columns.
RowsOf(columns, G, Sty) ==
  UNION {{row \in [1..n -> CellsOf(G, Sty)] : Len(row) = n /\ Formed(row)} : n \in 1..columns}

Graphemes == {NoText, BlankText, "?", "x", "w"}

\* The small rows are such rows.
LEMMA SmallRowsFormed ==
  ASSUME NEW columns \in Nat
  PROVE  SmallRows(columns) \subseteq RowsOf(columns, Graphemes, Styles)
<1> DEFINE All == RowsOf(columns, Graphemes, Styles)
<1>1. {NoText, "?", BlankText} \subseteq Graphemes /\ "default" \in Styles
  BY DEF Graphemes, Styles
<1>2. \A n \in 1..columns : Row(n) \in All
  <2> TAKE n \in 1..columns
  <2>1. Row(n) \in [1..n -> CellsOf(Graphemes, Styles)] /\ Len(Row(n)) = n /\ Formed(Row(n))
    BY <1>1, BlankRow
  <2> QED BY <2>1 DEF RowsOf
<1>3. ASSUME NEW row \in All, NEW column \in DOMAIN row, NEW cell \in Narrow \cup Wide,
             cell \in Wide => column < Len(row)
      PROVE  put_cell(row, column, cell) \in All
  <2>1. PICK n \in 1..columns : row \in [1..n -> CellsOf(Graphemes, Styles)] /\ Len(row) = n /\ Formed(row)
    BY DEF RowsOf
  <2>2. cell \in CellsOf(Graphemes, Styles) /\ cell.width \in 1..2 /\ (cell.width = 2 => cell \in Wide)
    <3>1. 1 \in 0..2 /\ 2 \in 0..2 /\ 1 \in 1..2 /\ 2 \in 1..2 /\ 1 # 2
      OBVIOUS
    <3>2. CASE cell \in Wide
      BY <3>1, <3>2 DEF Wide, Cell, CellsOf, Graphemes
    <3>3. CASE cell \in Narrow
      <4>1. cell \in CellsOf(Graphemes, Styles) /\ cell.width = 1
        BY <3>1, <3>3 DEF Narrow, Cell, CellsOf, Graphemes
      <4> QED BY <3>1, <4>1
    <3> QED BY <3>2, <3>3
  <2> DEFINE p == put_cell(row, column, cell)
  <2>3. p \in [1..n -> CellsOf(Graphemes, Styles)] /\ Len(p) = n /\ Formed(p)
    <3>1. n \in Nat /\ column \in 1..n /\ (cell.width = 2 => column < n)
      BY <1>3, <2>1, <2>2
    <3> QED BY <1>1, <2>1, <2>2, <3>1, PutsLeaveRowsWhole
  <2> HIDE DEF p
  <2>4. p \in {r \in [1..n -> CellsOf(Graphemes, Styles)] : Len(r) = n /\ Formed(r)}
    BY <2>3
  <2>5. p \in All
    BY <2>1, <2>4 DEF RowsOf
  <2> QED BY <2>5 DEF p
<1> HIDE DEF All
<1>4. ASSUME NEW rows \in SUBSET All PROVE Puts(rows) \subseteq All
  <2> SUFFICES ASSUME NEW p \in Puts(rows) PROVE p \in All
    OBVIOUS
  <2>1. PICK row \in rows : p \in PutsTo(row)
    BY DEF Puts
  <2>3. \/ \E column \in DOMAIN row, cell \in Narrow : p = put_cell(row, column, cell)
        \/ \E column \in {c \in DOMAIN row : c < Len(row)}, cell \in Wide : p = put_cell(row, column, cell)
    BY <2>1 DEF PutsTo
  <2>2. \A cell \in Narrow : cell \notin Wide
    <3>1. \A cell \in Narrow : cell.width = 1
      BY DEF Narrow, Cell
    <3>2. \A cell \in Wide : cell.width = 2
      BY DEF Wide, Cell
    <3> QED BY <3>1, <3>2
  <2> QED BY <1>3, <2>1, <2>2, <2>3
<1> DEFINE blank == {Row(n) : n \in 1..columns}
           once  == blank \cup Puts(blank)
           twice == once \cup Puts(once)
<1>5. blank \subseteq All
  BY <1>2
<1> HIDE DEF blank
<1>6. once \subseteq All
  BY <1>4, <1>5
<1> HIDE DEF once
<1>7. twice \subseteq All
  BY <1>4, <1>6
<1> HIDE DEF twice
<1>8. twice \cup Puts(twice) \subseteq All
  BY <1>4, <1>7
<1> QED BY <1>8 DEF SmallRows, twice, once, blank, All

(***************************************************************************)
(* FrameSequence.                                                            *)
(***************************************************************************)

\* What is numbered was issued, and what is pushed is above all that was accepted.
Numbered ==
  /\ latest_generation \in Nat \cup {Nothing}
  /\ issued_generation \in Nat
  /\ latest_generation # Nothing => latest_generation <= issued_generation
  /\ push # Nothing =>
       /\ push \in Push
       /\ push.generation # Nothing => push.generation <= issued_generation
       /\ {push.generation, latest_generation} \subseteq Nat => push.generation > latest_generation

\* The baseline is the last screenshot accepted, as it would be projected now.
BaselineProjected ==
  previous # Nothing => previous = Projection(accepted.frame, accepted.plain)

FramesInv ==
  /\ Numbered
  /\ BaselineProjected
  /\ push # Nothing => output = <<>>

LEMMA InitFramesInv == FramesInit => FramesInv
BY FramesAssumption DEF FramesInit, FramesInv, Numbered, BaselineProjected

\* A push begins with a generation above the accepted ones, or fails at once.
LEMMA BeginKeepsNumbered ==
  ASSUME FramesInv, NEW generation \in Nat, NEW frame \in Frames, BeginGeneration(generation, frame),
         issued_generation' \in Nat, issued_generation' >= issued_generation,
         issued_generation' >= generation
  PROVE  Numbered' /\ UNCHANGED <<sequence, accepted, output>>
<1>1. latest_generation \in Nat \cup {Nothing} /\ issued_generation \in Nat
  BY DEF FramesInv, Numbered
<1>2. latest_generation # Nothing => latest_generation <= issued_generation'
  BY <1>1 DEF FramesInv, Numbered
<1>3. CASE FailsWith(validate_generation(generation)) \/ FailsWith("UnsupportedCellBackend")
  <2>1. push' = Nothing /\ UNCHANGED <<sequence, accepted, output>>
    BY <1>3 DEF FailsWith
  <2> QED BY <1>1, <1>2, <2>1 DEF Numbered, sequence
<1>4. CASE validate_generation(generation) = "ok" /\ BeginWith(generation, frame)
  <2>1. push'.generation = generation /\ push' \in Push /\ UNCHANGED <<sequence, accepted, output>>
    BY <1>4 DEF BeginWith, Push, Stages
  <2>2. latest_generation # Nothing => generation > latest_generation
    BY <1>1, <1>4 DEF validate_generation
  <2>3. generation # Nothing
    BY FramesAssumption
  <2> QED BY <1>1, <1>2, <2>1, <2>2, <2>3, FramesAssumption DEF Numbered, sequence
<1> QED BY <1>3, <1>4 DEF BeginGeneration

\* What a step does to the push in progress and to what it would change.
LEMMA FramesStep ==
  ASSUME FramesInv, [FramesNext]_frames_vars
  PROVE  /\ FramesInv'
         /\ push # Nothing =>
              \/ UNCHANGED <<sequence, output>> /\ (push' # Nothing \/ outcome' # "ok")
              \/ /\ push' = Nothing /\ outcome' = "ok"
                 /\ push.generation # Nothing => latest_generation' = push.generation
<1> USE DEF sequence, tty
<1>1. CASE PushNext
  <2>1. PICK frame \in Frames :
          IF issued_generation = MaxGeneration
          THEN FailsWith("CounterExhausted") /\ UNCHANGED issued_generation
          ELSE /\ issued_generation' = issued_generation + 1
               /\ BeginGeneration(issued_generation + 1, frame)
    BY <1>1 DEF PushNext
  <2>2. push = Nothing /\ output = <<>> /\ UNCHANGED options
    BY <1>1 DEF PushNext, Ready, NoPush
  <2>3. issued_generation \in Nat
    BY DEF FramesInv, Numbered
  <2>4. CASE FailsWith("CounterExhausted") /\ UNCHANGED issued_generation
    BY <2>2, <2>4 DEF FailsWith, FramesInv, Numbered, BaselineProjected, Projection, selected_backend
  <2>5. CASE issued_generation' = issued_generation + 1 /\ BeginGeneration(issued_generation + 1, frame)
    <3>1. Numbered' /\ UNCHANGED <<sequence, accepted, output>>
      BY <2>3, <2>5, BeginKeepsNumbered
    <3> QED BY <2>2, <3>1 DEF FramesInv, BaselineProjected, Projection, selected_backend
  <2> QED BY <2>1, <2>4, <2>5
<1>2. CASE PushGeneration
  <2>1. PICK frame \in Frames, generation \in Generation :
          issued_generation' = Issued(generation) /\ BeginGeneration(generation, frame)
    BY <1>2 DEF PushGeneration
  <2>2. push = Nothing /\ output = <<>> /\ UNCHANGED options
    BY <1>2 DEF PushGeneration, Ready, NoPush
  <2>3. generation \in Nat /\ issued_generation \in Nat
    BY FramesAssumption DEF FramesInv, Numbered, Generation
  <2>4. Numbered' /\ UNCHANGED <<sequence, accepted, output>>
    BY <2>1, <2>3, BeginKeepsNumbered DEF Issued
  <2> QED BY <2>2, <2>4 DEF FramesInv, BaselineProjected, Projection, selected_backend
<1>3. CASE PushPlain
  <2>1. PICK frame \in Frames : BeginWith(Nothing, frame)
    BY <1>3 DEF PushPlain
  <2>2. push = Nothing /\ output = <<>> /\ UNCHANGED <<options, issued_generation>>
    BY <1>3 DEF PushPlain, Ready, NoPush
  <2>3. push'.generation = Nothing /\ push' \in Push /\ UNCHANGED <<sequence, accepted, output>>
    BY <2>1 DEF BeginWith, Push, Stages
  <2>4. Numbered'
    BY <2>2, <2>3, FramesAssumption DEF FramesInv, Numbered
  <2> QED BY <2>2, <2>3, <2>4 DEF FramesInv, BaselineProjected, Projection, selected_backend
<1>4. CASE DecodeBase64 \/ DecodePng \/ Project
  <2>1. PICK stage \in Stages :
          /\ push # Nothing /\ push' = [push EXCEPT !.stage = stage]
          /\ UNCHANGED <<sequence, issued_generation, options, accepted, output>>
    BY <1>4 DEF DecodeBase64, DecodePng, Project, Proceed, At, NoPush, Stages
  <2>2. push \in Push
    BY <2>1 DEF FramesInv, Numbered
  <2>3. push' \in Push /\ push'.generation = push.generation /\ push' # Nothing
    BY <2>1, <2>2, FramesAssumption DEF Push
  <2> QED BY <2>1, <2>3 DEF FramesInv, Numbered, BaselineProjected, Projection, selected_backend
<1>5. CASE DecodeBase64Fails \/ DecodePngFails \/ ProjectFails \/ EncodeFails \/ TooManyOperations
  <2>1. /\ push # Nothing /\ push' = Nothing /\ outcome' # "ok"
        /\ UNCHANGED <<sequence, accepted, output, issued_generation, options>>
    BY <1>5 DEF DecodeBase64Fails, DecodePngFails, ProjectFails, EncodeFails, TooManyOperations,
                FailAt, FailsWith, At, NoPush
  <2> QED BY <2>1 DEF FramesInv, Numbered, BaselineProjected, Projection, selected_backend
<1>6. CASE Accept
  <2>1. /\ push # Nothing /\ push' = Nothing /\ outcome' = "ok"
        /\ previous' = candidate_row
        /\ latest_generation' = IF push.generation = Nothing THEN latest_generation ELSE push.generation
        /\ accepted' = [frame |-> push.frame, plain |-> push.generation = Nothing]
        /\ UNCHANGED <<terminal_background, issued_generation, options>>
    BY <1>6 DEF Accept, At, NoPush
  <2>2. Numbered'
    BY <2>1 DEF FramesInv, Numbered, Push
  <2>3. previous' = Projection(accepted.frame, accepted.plain)'
    BY <2>1 DEF candidate_row, Projection, selected_backend
  <2> QED BY <2>1, <2>2, <2>3 DEF FramesInv, BaselineProjected
<1>7. CASE set_terminal_background \/ reset \/ resize
  <2>1. /\ push = Nothing /\ push' = Nothing /\ previous' \in {previous, Nothing}
        /\ previous' = Nothing \/ UNCHANGED terminal_background
        /\ UNCHANGED <<latest_generation, issued_generation, options, accepted>>
    BY <1>7 DEF set_terminal_background, reset, resize, NoPush
  <2>2. Numbered'
    BY <2>1 DEF FramesInv, Numbered
  <2>3. BaselineProjected'
    BY <2>1 DEF FramesInv, BaselineProjected, Projection, selected_backend
  <2> QED BY <2>1, <2>2, <2>3 DEF FramesInv
<1>8. CASE WriteOutput
  <2>1. /\ output # <<>> /\ output' = <<>>
        /\ UNCHANGED <<sequence, issued_generation, options, push, accepted>>
    BY <1>8 DEF WriteOutput
  <2> QED BY <2>1 DEF FramesInv, Numbered, BaselineProjected, Projection, selected_backend
<1>9. CASE Resized \/ Overdrawn \/ UNCHANGED frames_vars
  <2>1. UNCHANGED <<sequence, issued_generation, options, push, accepted, output>>
    BY <1>9 DEF Resized, Overdrawn, frames_vars
  <2> QED BY <2>1 DEF FramesInv, Numbered, BaselineProjected, Projection, selected_backend
<1> QED BY <1>1, <1>2, <1>3, <1>4, <1>5, <1>6, <1>7, <1>8, <1>9 DEF FramesNext

LEMMA FramesInductive == FramesSpec => []FramesInv
<1>1. FramesInv /\ [FramesNext]_frames_vars => FramesInv'
  BY FramesStep
<1> QED BY <1>1, InitFramesInv, PTL DEF FramesSpec

\* The generation the adapter issues next is above every one accepted, whoever
\* chose them: its counter follows the numbers of its callers.
THEOREM OwnGenerationsNeverStale == FramesSpec => []OwnGenerationsAccepted
<1>1. FramesInv => OwnGenerationsAccepted
  BY FramesAssumption DEF FramesInv, Numbered, OwnGenerationsAccepted
<1> QED BY <1>1, FramesInductive, PTL

\* push_generation_projection_controlled changes the sequence at its very end: a
\* push that fails anywhere before leaves nothing behind, and one that does not
\* moves the generation forward.
THEOREM PushesAllOrNothing == FramesSpec => AllOrNothing
<1>1. FramesInv /\ [FramesNext]_frames_vars =>
        [push # Nothing =>
           /\ push' # Nothing \/ outcome' # "ok" => UNCHANGED <<sequence, output>>
           /\ push' = Nothing /\ outcome' = "ok" /\ {push.generation, latest_generation} \subseteq Nat =>
                latest_generation' > latest_generation]_frames_vars
  <2> SUFFICES ASSUME FramesInv, [FramesNext]_frames_vars, push # Nothing
               PROVE  /\ push' # Nothing \/ outcome' # "ok" => UNCHANGED <<sequence, output>>
                      /\ push' = Nothing /\ outcome' = "ok"
                           /\ {push.generation, latest_generation} \subseteq Nat =>
                           latest_generation' > latest_generation
    OBVIOUS
  <2>1. \/ UNCHANGED <<sequence, output>> /\ (push' # Nothing \/ outcome' # "ok")
        \/ /\ push' = Nothing /\ outcome' = "ok"
           /\ push.generation # Nothing => latest_generation' = push.generation
    BY FramesStep
  <2> QED BY <2>1, FramesAssumption DEF FramesInv, Numbered
<1> QED BY <1>1, FramesInductive, PTL DEF FramesSpec, AllOrNothing

\* The row the next difference is taken against is the last screenshot accepted,
\* composed over the background of now and in the colors of this terminal, whatever
\* the terminal shows meanwhile.
THEOREM BaselineIsOfNow == FramesSpec => []BaselineProjected
<1>1. FramesInv => BaselineProjected
  BY DEF FramesInv
<1> QED BY <1>1, FramesInductive, PTL

-----------------------------------------------------------------------------
(* What the terminal shows. *)

\* What screenshots are drawn with.
Glyphs == {NoText, BlankText, "?", "half"}
Paints == Colors \cup {"white", "default"}

Operable == OperationsOf(Glyphs, Paints)
Tty(n)   == TerminalsOf(n, Glyphs, Paints)

Fitting(row) ==
  /\ Len(row) \in 1..MaxColumns /\ row \in [1..Len(row) -> CellsOf(Glyphs, Paints)]
  /\ Formed(row)

TerminalFits ==
  /\ terminal_background \in Colors
  /\ Len(terminal.row) \in 1..MaxColumns /\ terminal \in Tty(Len(terminal.row))
  /\ terminal.style = "default"

PushFits ==
  push # Nothing => /\ disturbance = "no" => Len(push.frame) = Len(terminal.row)
                    /\ disturbance = "resized" => Len(push.frame) # Len(terminal.row)

BaselineFits ==
  previous # Nothing => /\ Fitting(previous)
                        /\ disturbance = "resized" => Len(previous) # Len(terminal.row)

\* What is yet to be written makes a terminal that nobody disturbed show the baseline.
OutputFits ==
  /\ output \in Seq(Operable)
  /\ disturbance = "no" =>
       /\ ApplyAll(terminal, output) \in Tty(Len(terminal.row))
       /\ ApplyAll(terminal, output).style = "default"
       /\ previous # Nothing => ApplyAll(terminal, output).row = previous

ScreenInv == TerminalFits /\ PushFits /\ BaselineFits /\ OutputFits

\* What the lemmas about cells ask of the two.
LEMMA GlyphsPaints == {NoText, "?", BlankText} \subseteq Glyphs /\ "default" \in Paints
BY DEF Glyphs, Paints

\* A number, of columns.
LEMMA MaxColumnsNat == MaxColumns \in Nat
BY FramesAssumption

\* Nothing written, nothing changed.
LEMMA NothingWritten == ASSUME NEW n \in Nat, NEW t \in Tty(n) PROVE ApplyAll(t, <<>>) = t /\ <<>> \in Seq(Operable)
<1>1. <<>> \in Seq(Operable)
  OBVIOUS
<1> QED BY <1>1, GlyphsPaints, ApplyAllSays DEF Tty, Operable

\* A terminal of a size is as long as that.
LEMMA TtyLength ==
  ASSUME NEW n \in Nat, NEW t \in Tty(n)
  PROVE  Len(t.row) = n /\ DOMAIN t.row = 1..n /\ t.column \in Nat /\ t.style \in Paints
<1>1. t.row \in [1..n -> CellsOf(Glyphs, Paints)] /\ t.column \in Nat /\ t.style \in Paints
  BY DEF Tty, TerminalsOf
<1>2. t.row \in Seq(CellsOf(Glyphs, Paints))
  BY <1>1
<1> QED BY <1>1, <1>2

\* project draws narrow cells, as many as the screenshot is wide.
LEMMA ProjectFits ==
  ASSUME NEW frame \in Frames, NEW plain, terminal_background \in Colors
  PROVE  Fitting(Projection(frame, plain)) /\ Len(Projection(frame, plain)) = Len(frame)
<1>1. PICK n \in 1..MaxColumns : frame \in [1..n -> Pixels]
  BY DEF Frames
<1>2. n \in Nat
  BY MaxColumnsNat
<1>3. Len(frame) = n
  <2>1. frame \in Seq(Pixels)
    BY <1>1, <1>2
  <2> QED BY <1>1, <1>2, <2>1
<1>4. ASSUME NEW backend, NEW background \in Paints, NEW level
      PROVE  Fitting(project(frame, backend, background, level)) /\ Len(project(frame, backend, background, level)) = n
  <2> DEFINE row == project(frame, backend, background, level)
             draw(column) == Cell(IF backend = "Halfblock" THEN "half" ELSE BlankText,
                                  quantize(composite(frame[column], background), level), 1)
  <2>1. row = [column \in 1..n |-> draw(column)]
    BY <1>1 DEF project
  <2>2. ASSUME NEW column \in 1..n PROVE draw(column) \in CellsOf(Glyphs, Paints) /\ draw(column).width = 1
    <3>1. frame[column] \in Colors \cup {"clear"}
      BY <1>1 DEF Pixels
    <3>2. composite(frame[column], background) \in Paints
      BY <3>1 DEF composite, Paints
    <3>3. quantize(composite(frame[column], background), level) \in Paints
      BY <3>2 DEF quantize, Paints
    <3>4. (IF backend = "Halfblock" THEN "half" ELSE BlankText) \in Glyphs
      BY DEF Glyphs
    <3>5. 1 \in 0..2
      OBVIOUS
    <3> QED BY <3>3, <3>4, <3>5 DEF Cell, CellsOf
  <2> HIDE DEF draw, row
  <2>3. row \in [1..n -> CellsOf(Glyphs, Paints)] /\ \A column \in 1..n : row[column].width = 1
    BY <2>1, <2>2
  <2>4. row \in Seq(CellsOf(Glyphs, Paints))
    BY <1>2, <2>3
  <2>5. Len(row) = n /\ DOMAIN row = 1..n
    BY <1>2, <2>3, <2>4
  <2>6. Formed(row)
    BY <2>3, <2>5 DEF Formed, validate
  <2> QED BY <2>3, <2>5, <2>6 DEF Fitting, row
<1>5. "white" \in Paints /\ terminal_background \in Paints
  BY DEF Paints
<1> QED BY <1>3, <1>4, <1>5 DEF Projection

\* What Operations returns leaves a terminal that shows the baseline with the next row.
LEMMA OperationsLeave ==
  ASSUME BaselineFits, NEW next, Fitting(next), NEW t \in Tty(Len(next)), t.style = "default",
         previous # Nothing /\ Len(previous) = Len(next) => t.row = previous
  PROVE  Leaves(Operations(next), t, next, Len(next), Glyphs, Paints)
<1> DEFINE n == Len(next)
<1>1. n \in Nat /\ next \in [1..n -> CellsOf(Glyphs, Paints)] /\ Formed(next)
  BY MaxColumnsNat DEF Fitting
<1>2. t \in TerminalsOf(n, Glyphs, Paints)
  BY DEF Tty
<1>3. CASE previous = Nothing
  <2>1. Leaves(full_redraw(next), t, next, n, Glyphs, Paints)
    BY <1>1, <1>2, GlyphsPaints, RedrawShown
  <2> QED BY <1>3, <2>1 DEF Operations
<1>4. CASE previous # Nothing /\ previous = next
  <2>1. t.row = next /\ Operations(next) = <<>>
    BY <1>4 DEF Operations
  <2>2. ApplyAll(t, <<>>) = t /\ <<>> \in Seq(Operable)
    BY <1>1, NothingWritten
  <2> QED BY <1>2, <2>1, <2>2 DEF Leaves, Operable
<1>5. CASE previous # Nothing /\ previous # next
  <2>1. PICK m \in Nat : m = Len(previous) /\ previous \in [1..m -> CellsOf(Glyphs, Paints)] /\ Formed(previous)
    <3>1. Fitting(previous)
      BY <1>5 DEF BaselineFits
    <3>2. Len(previous) \in 1..MaxColumns
      BY <3>1 DEF Fitting
    <3>3. Len(previous) \in Nat
      BY <3>2, MaxColumnsNat
    <3> QED BY <3>1, <3>3 DEF Fitting
  <2>2. m = n => t.row = previous
    BY <1>5, <2>1
  <2>3. Leaves(diff(previous, next), t, next, n, Glyphs, Paints)
    BY <1>1, <1>2, <2>1, <2>2, GlyphsPaints, AnyDiffShowsNext
  <2> QED BY <1>5, <2>3 DEF Operations
<1> QED BY <1>3, <1>4, <1>5

\* A terminal that others have changed is one still.
LEMMA UnknownFits == ASSUME NEW columns \in 1..MaxColumns
                     PROVE  /\ Unknown(columns) \in Tty(columns) /\ Unknown(columns).style = "default"
                            /\ Len(Unknown(columns).row) = columns
<1>1. columns \in Nat
  BY MaxColumnsNat
<1>2. Broken \in CellsOf(Glyphs, Paints)
  <2>1. 1 \in 0..2
    OBVIOUS
  <2> QED BY <2>1 DEF Broken, Cell, CellsOf, Glyphs, Paints
<1>3. 1 \in Nat
  OBVIOUS
<1>4. Unknown(columns) \in Tty(columns)
  BY <1>2, <1>3, GlyphsPaints DEF Unknown, Tty, TerminalsOf
<1>5. Unknown(columns).style = "default"
  BY DEF Unknown
<1> QED BY <1>1, <1>4, <1>5, TtyLength

\* The invariant at the start.
LEMMA InitScreenInv == FramesInit => ScreenInv
<1> SUFFICES ASSUME FramesInit PROVE ScreenInv
  OBVIOUS
<1>1. PICK columns \in 1..MaxColumns :
        terminal = [row |-> Row(columns), column |-> 1, style |-> "default"]
  BY DEF FramesInit
<1>2. columns \in Nat
  BY MaxColumnsNat
<1>3. Row(columns) \in [1..columns -> CellsOf(Glyphs, Paints)] /\ Len(Row(columns)) = columns
  BY <1>2, GlyphsPaints, BlankRow
<1>4. 1 \in Nat
  OBVIOUS
<1>5. terminal \in Tty(columns) /\ Len(terminal.row) = columns /\ terminal.style = "default"
  BY <1>1, <1>3, <1>4, GlyphsPaints DEF Tty, TerminalsOf
<1>6. ApplyAll(terminal, <<>>) = terminal /\ <<>> \in Seq(Operable)
  BY <1>2, <1>5, NothingWritten
<1>7. /\ push = Nothing /\ previous = Nothing /\ output = <<>> /\ disturbance = "no"
      /\ terminal_background \in Colors
  BY DEF FramesInit
<1> QED BY <1>5, <1>6, <1>7 DEF ScreenInv, TerminalFits, PushFits, BaselineFits, OutputFits

\* The terminal as the output leaves it, of a terminal that nobody disturbed.
LEMMA OutputLeaves ==
  ASSUME ScreenInv, disturbance = "no"
  PROVE  /\ ApplyAll(terminal, output) \in Tty(Len(terminal.row))
         /\ ApplyAll(terminal, output).style = "default"
         /\ Len(ApplyAll(terminal, output).row) = Len(terminal.row)
         /\ previous # Nothing => /\ ApplyAll(terminal, output).row = previous
                                  /\ Len(previous) = Len(terminal.row)
<1>1. /\ ApplyAll(terminal, output) \in Tty(Len(terminal.row))
      /\ ApplyAll(terminal, output).style = "default"
      /\ previous # Nothing => ApplyAll(terminal, output).row = previous
  BY DEF ScreenInv, OutputFits
<1>2. Len(terminal.row) \in Nat
  BY MaxColumnsNat DEF ScreenInv, TerminalFits
<1>3. Len(ApplyAll(terminal, output).row) = Len(terminal.row)
  BY <1>1, <1>2, TtyLength
<1> QED BY <1>1, <1>3

\* A terminal that nothing has to be written to is as it is.
LEMMA OutputEmpty ==
  ASSUME ScreenInv, output = <<>> PROVE ApplyAll(terminal, output) = terminal
<1>1. Len(terminal.row) \in Nat /\ terminal \in Tty(Len(terminal.row))
  BY MaxColumnsNat DEF ScreenInv, TerminalFits
<1> QED BY <1>1, NothingWritten

\* What begins a push, changes its stage, or ends it with an error leaves the screen be.
LEMMA ScreenKept ==
  ASSUME ScreenInv, UNCHANGED <<previous, terminal_background, output, terminal, disturbance>>, PushFits'
  PROVE  ScreenInv'
BY DEF ScreenInv, TerminalFits, BaselineFits, OutputFits

\* A push begins on a terminal of its size.
LEMMA PushBegun ==
  ASSUME ScreenInv, Ready, NEW generation, NEW frame \in Frames, Framing(frame),
         BeginWith(generation, frame), UNCHANGED tty
  PROVE  ScreenInv'
<1>1. UNCHANGED <<previous, terminal_background, output, terminal, disturbance>>
  BY DEF BeginWith, sequence, tty
<1>2. push'.frame = frame /\ Len(frame) = Len(terminal.row) /\ disturbance = "no"
  BY DEF BeginWith, Framing, Ready
<1>3. PushFits'
  BY <1>1, <1>2 DEF PushFits
<1> QED BY <1>1, <1>3, ScreenKept

\* A push that fails.
LEMMA PushFailed ==
  ASSUME ScreenInv, NEW error, FailsWith(error), UNCHANGED tty PROVE ScreenInv'
<1>1. UNCHANGED <<previous, terminal_background, output, terminal, disturbance>> /\ PushFits'
  BY DEF FailsWith, sequence, tty, PushFits
<1> QED BY <1>1, ScreenKept

\* A push with a generation.
LEMMA GenerationBegun ==
  ASSUME ScreenInv, Ready, NEW generation, NEW frame \in Frames, Framing(frame),
         BeginGeneration(generation, frame), UNCHANGED tty
  PROVE  ScreenInv'
BY PushBegun, PushFailed DEF BeginGeneration

\* The new row, when the push is accepted, and the operations that show it.
LEMMA Accepted ==
  ASSUME FramesInv, ScreenInv, Accept PROVE ScreenInv'
<1> DEFINE next == candidate_row
<1>1. /\ push # Nothing /\ previous' = next /\ output' = Operations(next) /\ push' = Nothing
      /\ UNCHANGED <<terminal_background, options, terminal, disturbance>>
  BY DEF Accept, At, NoPush, tty
<1>2. output = <<>> /\ push.frame \in Frames
  BY <1>1 DEF FramesInv, Numbered, Push
<1>3. Fitting(next) /\ Len(next) = Len(push.frame)
  <2>1. terminal_background \in Colors
    BY DEF ScreenInv, TerminalFits
  <2> QED BY <1>2, <2>1, ProjectFits DEF candidate_row
<1>4. BaselineFits /\ PushFits /\ TerminalFits
  BY DEF ScreenInv
<1> HIDE DEF next
<1>5. output' \in Seq(Operable)
  <2>1. PICK n \in Nat : n = Len(next)
    BY <1>3, MaxColumnsNat DEF Fitting
  <2> DEFINE row == IF previous # Nothing /\ Len(previous) = n THEN previous ELSE next
             t   == [row |-> row, column |-> 1, style |-> "default"]
  <2>2. row \in [1..n -> CellsOf(Glyphs, Paints)]
    <3>1. next \in [1..n -> CellsOf(Glyphs, Paints)]
      BY <1>3, <2>1 DEF Fitting
    <3>2. previous # Nothing /\ Len(previous) = n => previous \in [1..n -> CellsOf(Glyphs, Paints)]
      BY <1>4 DEF BaselineFits, Fitting
    <3> QED BY <3>1, <3>2
  <2>3. previous # Nothing /\ Len(previous) = n => row = previous
    OBVIOUS
  <2> HIDE DEF row
  <2>4. 1 \in Nat
    OBVIOUS
  <2>5. t \in Tty(n) /\ t.style = "default" /\ t.row = row
    BY <2>2, <2>4, GlyphsPaints DEF Tty, TerminalsOf
  <2> HIDE DEF t
  <2>6. Leaves(Operations(next), t, next, n, Glyphs, Paints)
    BY <1>3, <1>4, <2>1, <2>3, <2>5, OperationsLeave
  <2> QED BY <1>1, <2>6 DEF Leaves, Operable
<1>6. ASSUME disturbance = "no"
      PROVE  /\ ApplyAll(terminal, output') \in Tty(Len(terminal.row))
             /\ ApplyAll(terminal, output').style = "default"
             /\ ApplyAll(terminal, output').row = next
  <2>1. Len(next) = Len(terminal.row)
    BY <1>1, <1>3, <1>4, <1>6 DEF PushFits
  <2>2. terminal \in Tty(Len(next)) /\ terminal.style = "default"
    BY <1>4, <2>1 DEF TerminalFits
  <2>3. previous # Nothing => terminal.row = previous
    BY <1>2, <1>6, OutputLeaves, OutputEmpty
  <2>4. Leaves(Operations(next), terminal, next, Len(next), Glyphs, Paints)
    BY <1>3, <1>4, <2>2, <2>3, OperationsLeave
  <2> QED BY <1>1, <2>1, <2>4 DEF Leaves, Tty
<1>7. BaselineFits'
  BY <1>1, <1>3, <1>4 DEF BaselineFits, PushFits
<1>8. TerminalFits' /\ PushFits'
  BY <1>1, <1>4 DEF TerminalFits, PushFits
<1>9. OutputFits'
  BY <1>1, <1>5, <1>6 DEF OutputFits
<1> QED BY <1>7, <1>8, <1>9 DEF ScreenInv

\* One case for each action.
LEMMA ScreenStep ==
  ASSUME FramesInv, ScreenInv, [FramesNext]_frames_vars PROVE ScreenInv'
<1> USE DEF sequence, tty
<1>1. CASE PushNext
  <2>1. PICK frame \in Frames :
          /\ Framing(frame)
          /\ FailsWith("CounterExhausted") \/ BeginGeneration(issued_generation + 1, frame)
    BY <1>1 DEF PushNext
  <2>2. Ready /\ UNCHANGED tty
    BY <1>1 DEF PushNext
  <2> QED BY <2>1, <2>2, PushFailed, GenerationBegun
<1>2. CASE PushGeneration
  <2>1. PICK frame \in Frames, generation \in Generation :
          Framing(frame) /\ BeginGeneration(generation, frame)
    BY <1>2 DEF PushGeneration
  <2>2. Ready /\ UNCHANGED tty
    BY <1>2 DEF PushGeneration
  <2> QED BY <2>1, <2>2, GenerationBegun
<1>3. CASE PushPlain
  <2>1. PICK frame \in Frames : Framing(frame) /\ BeginWith(Nothing, frame)
    BY <1>3 DEF PushPlain
  <2>2. Ready /\ UNCHANGED tty
    BY <1>3 DEF PushPlain
  <2> QED BY <2>1, <2>2, PushBegun
<1>4. CASE DecodeBase64 \/ DecodePng \/ Project
  <2>1. PICK stage \in Stages :
          /\ push # Nothing /\ push' = [push EXCEPT !.stage = stage]
          /\ UNCHANGED <<previous, terminal_background, output, terminal, disturbance>>
    BY <1>4 DEF DecodeBase64, DecodePng, Project, Proceed, At, NoPush, Stages
  <2>2. push \in Push
    BY <2>1 DEF FramesInv, Numbered
  <2>3. push'.frame = push.frame
    BY <2>1, <2>2 DEF Push
  <2>4. PushFits'
    BY <2>1, <2>3 DEF ScreenInv, PushFits
  <2> QED BY <2>1, <2>4, ScreenKept
<1>5. CASE DecodeBase64Fails \/ DecodePngFails \/ ProjectFails \/ EncodeFails \/ TooManyOperations
  <2>1. (\E error : FailsWith(error)) /\ UNCHANGED tty
    BY <1>5 DEF DecodeBase64Fails, DecodePngFails, ProjectFails, EncodeFails, TooManyOperations, FailAt
  <2> QED BY <2>1, PushFailed
<1>6. CASE Accept
  BY <1>6, Accepted
<1>7. CASE set_terminal_background
  <2>1. /\ push = Nothing /\ push' = Nothing /\ previous' = Nothing /\ terminal_background' \in Colors
        /\ UNCHANGED <<output, terminal, disturbance>>
    BY <1>7 DEF set_terminal_background, NoPush
  <2> QED BY <2>1 DEF ScreenInv, TerminalFits, PushFits, BaselineFits, OutputFits
<1>8. CASE reset \/ resize
  <2>1. /\ push = Nothing /\ push' = Nothing /\ output = <<>> /\ output' = <<>>
        /\ UNCHANGED <<terminal_background, terminal>>
    BY <1>8 DEF reset, resize, NoPush
  <2>2. previous' = Nothing
    BY <1>8 DEF reset, resize, ScreenInv, BaselineFits
  <2>3. ApplyAll(terminal, <<>>) = terminal
    BY <2>1, OutputEmpty
  <2> QED BY <2>1, <2>2, <2>3 DEF ScreenInv, TerminalFits, PushFits, BaselineFits, OutputFits
<1>9. CASE WriteOutput
  <2>1. output' = <<>> /\ UNCHANGED <<terminal_background, push, previous, disturbance>>
    BY <1>9 DEF WriteOutput
  <2>2. output # <<>>
    BY <1>9 DEF WriteOutput
  <2>3. push = Nothing
    BY <2>2 DEF FramesInv
  <2>4. CASE disturbance = "no"
    <3>1. terminal' = ApplyAll(terminal, output)
      BY <1>9, <2>4 DEF WriteOutput
    <3>2. /\ terminal' \in Tty(Len(terminal'.row)) /\ terminal'.style = "default"
          /\ Len(terminal'.row) = Len(terminal.row)
          /\ previous # Nothing => terminal'.row = previous
      BY <2>4, <3>1, OutputLeaves
    <3>3. Len(terminal'.row) \in Nat
      BY <3>2, MaxColumnsNat DEF ScreenInv, TerminalFits
    <3>4. ApplyAll(terminal', <<>>) = terminal' /\ <<>> \in Seq(Operable)
      BY <3>2, <3>3, NothingWritten
    <3> QED BY <2>1, <2>3, <2>4, <3>2, <3>4
            DEF ScreenInv, TerminalFits, PushFits, BaselineFits, OutputFits
  <2>5. CASE disturbance # "no"
    <3>1. terminal' = terminal
      BY <1>9, <2>5 DEF WriteOutput
    <3>2. <<>> \in Seq(Operable)
      OBVIOUS
    <3> QED BY <2>1, <2>3, <2>5, <3>1, <3>2
            DEF ScreenInv, TerminalFits, PushFits, BaselineFits, OutputFits
  <2> QED BY <2>4, <2>5
<1>10. CASE Resized
  <2>1. PICK columns \in 1..MaxColumns \ {Len(terminal.row)} : terminal' = Unknown(columns)
    BY <1>10 DEF Resized
  <2>2. /\ disturbance = "no" /\ disturbance' = "resized"
        /\ UNCHANGED <<terminal_background, push, previous, output>>
    BY <1>10 DEF Resized
  <2>3. terminal' \in Tty(columns) /\ terminal'.style = "default" /\ Len(terminal'.row) = columns
    BY <2>1, UnknownFits
  <2>4. previous # Nothing => Len(previous) = Len(terminal.row)
    BY <2>2, OutputLeaves
  <2>5. TerminalFits'
    BY <2>1, <2>2, <2>3 DEF ScreenInv, TerminalFits
  <2>6. PushFits' /\ BaselineFits'
    BY <2>1, <2>2, <2>3, <2>4 DEF ScreenInv, PushFits, BaselineFits
  <2>7. OutputFits'
    BY <2>2 DEF ScreenInv, OutputFits
  <2> QED BY <2>5, <2>6, <2>7 DEF ScreenInv
<1>11. CASE Overdrawn
  <2>1. /\ terminal' = Unknown(Len(terminal.row)) /\ disturbance' = "overdrawn"
        /\ UNCHANGED <<terminal_background, push, previous, output>>
    BY <1>11 DEF Overdrawn
  <2>2. Len(terminal.row) \in 1..MaxColumns
    BY DEF ScreenInv, TerminalFits
  <2>3. /\ terminal' \in Tty(Len(terminal.row)) /\ terminal'.style = "default"
        /\ Len(terminal'.row) = Len(terminal.row)
    BY <2>1, <2>2, UnknownFits
  <2> QED BY <2>1, <2>2, <2>3 DEF ScreenInv, TerminalFits, PushFits, BaselineFits, OutputFits
<1>12. CASE UNCHANGED frames_vars
  BY <1>12 DEF frames_vars, ScreenInv, TerminalFits, PushFits, BaselineFits, OutputFits
<1> QED BY <1>1, <1>2, <1>3, <1>4, <1>5, <1>6, <1>7, <1>8, <1>9, <1>10, <1>11, <1>12 DEF FramesNext

\* Once its output is written, a terminal that nobody disturbed shows the screenshot
\* accepted last, whatever came between: pushes that failed at any step, resizes, rows
\* overdrawn, and backgrounds changed while output was still to be written.
THEOREM ScreenShowsTheFrame == FramesSpec => []ShowsTheFrame
<1>1. FramesInv /\ ScreenInv /\ [FramesNext]_frames_vars => ScreenInv'
  BY ScreenStep
<1>2. FramesInv /\ ScreenInv => ShowsTheFrame
  <2> SUFFICES ASSUME FramesInv, ScreenInv, output = <<>>, disturbance = "no", previous # Nothing
               PROVE  terminal.row = previous /\ previous = Projection(accepted.frame, accepted.plain)
    BY DEF ShowsTheFrame
  <2> QED BY OutputLeaves, OutputEmpty DEF FramesInv, BaselineProjected
<1> QED BY <1>1, <1>2, InitScreenInv, FramesInductive, PTL DEF FramesSpec

\* diff on the small rows that put_cell builds, which AnyDiffShowsNext makes a special
\* case of what holds of any rows.
THEOREM DiffsShowNext == FramesSpec => []DiffShowsNext
<1>1. DiffShowsNext
  <2> SUFFICES ASSUME NEW before \in SmallRows(3), NEW after \in SmallRows(3)
               PROVE  LET shown == IF Len(before) = Len(after) THEN before ELSE Unknown(Len(after)).row
                          end   == ApplyAll([row |-> shown, column |-> 1, style |-> "default"],
                                            diff(before, after))
                      IN  /\ validate(after)
                          /\ end.row = after
                          /\ end.style = "default"
    BY DEF DiffShowsNext
  <2> DEFINE shown == IF Len(before) = Len(after) THEN before ELSE Unknown(Len(after)).row
             t == [row |-> shown, column |-> 1, style |-> "default"]
  <2>1. PICK m \in 1..3 : before \in [1..m -> CellsOf(Graphemes, Styles)] /\ Len(before) = m /\ Formed(before)
    <3>1. before \in RowsOf(3, Graphemes, Styles)
      BY SmallRowsFormed
    <3> QED BY <3>1 DEF RowsOf
  <2>2. PICK n \in 1..3 : after \in [1..n -> CellsOf(Graphemes, Styles)] /\ Len(after) = n /\ Formed(after)
    <3>1. after \in RowsOf(3, Graphemes, Styles)
      BY SmallRowsFormed
    <3> QED BY <3>1 DEF RowsOf
  <2>3. {NoText, "?", BlankText} \subseteq Graphemes /\ "default" \in Styles
    BY DEF Graphemes, Styles
  <2>4. shown \in [1..n -> CellsOf(Graphemes, Styles)]
    <3>1. 1 \in 0..2
      OBVIOUS
    <3>2. Broken \in CellsOf(Graphemes, Styles)
      BY <2>3, <3>1 DEF Broken, Cell, CellsOf
    <3>3. Unknown(n).row \in [1..n -> CellsOf(Graphemes, Styles)]
      BY <3>2 DEF Unknown
    <3> QED BY <2>1, <2>2, <3>3
  <2>5. m = n => shown = before
    BY <2>1, <2>2
  <2> HIDE DEF shown
  <2>6. 1 \in Nat
    OBVIOUS
  <2>7. t \in TerminalsOf(n, Graphemes, Styles) /\ t.style = "default" /\ t.row = shown
    BY <2>3, <2>4, <2>6 DEF TerminalsOf
  <2> HIDE DEF t
  <2>8. m \in Nat /\ n \in Nat
    OBVIOUS
  <2>9. Leaves(diff(before, after), t, after, n, Graphemes, Styles)
    BY <2>1, <2>2, <2>3, <2>5, <2>7, <2>8, AnyDiffShowsNext
  <2>10. ApplyAll(t, diff(before, after)).row = after /\ ApplyAll(t, diff(before, after)).style = "default"
    BY <2>9 DEF Leaves
  <2>11. validate(after)
    BY <2>2 DEF Formed
  <2> QED BY <2>10, <2>11 DEF t, shown
<1> QED BY <1>1, PTL

(***************************************************************************)
(* TerminalTransaction.                                                      *)
(***************************************************************************)

\* The parts of TypeOK that steps change together.
OwnerTypes ==
  /\ writer \in Writers
  /\ next_sequence \in Sequences
  /\ baseline \in Surface \cup {None}
  /\ last_good \in Frame \cup {None}
  /\ last_receipt \in Nat
  /\ pending \in Frame \cup {None}

TerminalTypes ==
  /\ screen \in [Ids -> Surface \cup {Garbled}]
  /\ written \in Amounts
  /\ disturbed \in BOOLEAN

\* The pending frame is the newest, for the writer in force, and a difference
\* against the baseline, which cannot change under it.
PendingIsCurrent ==
  pending # None =>
    /\ pending.writer = writer
    /\ pending.sequence = next_sequence - 1
    /\ pending.base \in {None, baseline}

LastGoodIsOlder ==
  last_good # None =>
    /\ last_good.sequence < next_sequence
    /\ pending # None => last_good.sequence < pending.sequence

\* The baseline is the surface of the last good frame, of this writer, and no
\* receipt came since.
BaselineIsLastGood ==
  baseline # None =>
    /\ last_good # None
    /\ last_good.writer = writer
    /\ last_good.surface = baseline
    /\ last_receipt = last_good.sequence

\* Until the pending frame is written the terminal shows the baseline,
\* afterwards the frame.
ShownBefore ==
  (baseline # None /\ ~disturbed /\ (pending = None \/ written = "nothing")) =>
    screen[writer.id] = baseline

ShownAfter ==
  (pending # None /\ written = "all" /\ ~disturbed) => screen[writer.id] = pending.surface

IInv == /\ OwnerTypes /\ TerminalTypes
        /\ PendingIsCurrent /\ LastGoodIsOlder /\ BaselineIsLastGood
        /\ ShownBefore /\ ShownAfter

USE DEF owner, terminals

LEMMA TypeParts == TypeOK <=> OwnerTypes /\ TerminalTypes
BY DEF TypeOK, OwnerTypes, TerminalTypes

-----------------------------------------------------------------------------
(* Writing and settling the pending frame. *)

\* A write leaves the terminal in a known state: see ShownAfter.
LEMMA PutShows ==
  ASSUME IInv, pending # None, NEW amount \in Amounts, Put(amount)
  PROVE  /\ TerminalTypes'
         /\ (written' = "all" /\ ~disturbed') => screen'[writer.id] = pending.surface
         /\ (written' = "nothing" /\ ~disturbed' /\ baseline # None) => screen'[writer.id] = baseline
         /\ amount = "all" => written' = "all"
<1>1. pending \in Frame /\ pending.writer = writer /\ writer \in Writers
  BY DEF IInv, OwnerTypes, PendingIsCurrent
<1>2. writer.id \in Ids /\ pending.surface \in Surface
  BY <1>1 DEF Writers, Frame
<1>3. Drawn(pending, screen[writer.id]) \in Surface \cup {Garbled}
  BY <1>2 DEF Drawn
<1>4. CASE amount = "nothing"
  <2>1. screen' = screen /\ written' = written /\ disturbed' = disturbed
    BY <1>1, <1>2, <1>4 DEF Put, IInv, TerminalTypes
  <2> QED BY <2>1, <1>4 DEF IInv, TerminalTypes, ShownBefore, ShownAfter
<1>5. CASE amount = "some"
  <2>1. /\ screen' = [screen EXCEPT ![writer.id] = Garbled]
        /\ written' = "some" /\ disturbed' = disturbed
    BY <1>1, <1>5 DEF Put
  <2> QED BY <2>1, <1>2, <1>5 DEF IInv, TerminalTypes, Amounts
<1>6. CASE amount = "all"
  <2>1. /\ screen' = [screen EXCEPT ![writer.id] = Drawn(pending, screen[writer.id])]
        /\ written' = "all"
        /\ disturbed' = (pending.base # None /\ (disturbed \/ written = "some"))
    BY <1>1, <1>6 DEF Put
  <2>2. TerminalTypes'
    BY <2>1, <1>2, <1>3 DEF IInv, TerminalTypes, Amounts
  <2>3. screen'[writer.id] = Drawn(pending, screen[writer.id])
    BY <2>1, <1>2 DEF IInv, TerminalTypes
  <2>4. ~disturbed' => pending.base = None \/ (~disturbed /\ written # "some")
    BY <2>1 DEF IInv, TerminalTypes
  <2>5. ~disturbed' => Drawn(pending, screen[writer.id]) = pending.surface
    <3>1. CASE pending.base = None
      BY <3>1 DEF Drawn
    <3>2. CASE ~disturbed /\ written = "all"
      BY <3>2 DEF IInv, ShownAfter, Drawn
    <3>3. CASE ~disturbed /\ written = "nothing" /\ pending.base # None
      <4>1. pending.base = baseline /\ baseline # None
        BY <3>3 DEF IInv, PendingIsCurrent
      <4> QED BY <4>1, <3>3 DEF IInv, ShownBefore, Drawn
    <3> QED BY <2>4, <3>1, <3>2, <3>3 DEF IInv, TerminalTypes, Amounts
  <2> QED BY <2>1, <2>2, <2>3, <2>5
<1> QED BY <1>4, <1>5, <1>6 DEF Amounts

\* Abandoning the pending frame keeps what does not concern the terminal.
LEMMA AbandonKeeps ==
  ASSUME IInv, pending # None, AbandonPending, TerminalTypes'
  PROVE  IInv'
<1>1. pending \in Frame /\ pending.sequence \in Nat /\ last_good \in Frame \cup {None}
  BY DEF IInv, OwnerTypes, Frame, Sequences
<1>2. OwnerTypes'
  BY <1>1 DEF IInv, OwnerTypes, AbandonPending
<1>3. PendingIsCurrent' /\ BaselineIsLastGood' /\ ShownBefore' /\ ShownAfter'
  BY DEF AbandonPending, PendingIsCurrent, BaselineIsLastGood, ShownBefore, ShownAfter
<1>4. LastGoodIsOlder'
  BY DEF IInv, AbandonPending, LastGoodIsOlder
<1> QED BY <1>2, <1>3, <1>4 DEF IInv

\* A receipt keeps the invariant when the terminal shows what it claims.
LEMMA SettleKeeps ==
  ASSUME IInv, NEW receipt, SettleReceipt(receipt),
         TerminalTypes',
         (pending # None /\ written' = "all" /\ ~disturbed') => screen'[writer.id] = pending.surface,
         (written' = "nothing" /\ ~disturbed' /\ baseline # None) => screen'[writer.id] = baseline,
         (pending = None /\ ~disturbed' /\ baseline # None) => screen'[writer.id] = baseline,
         (Accepts(receipt) /\ receipt.outcome = "FullWriteAndFlush") => written' = "all"
  PROVE  IInv'
<1>1. CASE ~Accepts(receipt)
  <2>1. UNCHANGED owner
    BY <1>1 DEF SettleReceipt
  <2>2. OwnerTypes' /\ PendingIsCurrent' /\ LastGoodIsOlder' /\ BaselineIsLastGood'
    BY <2>1 DEF IInv, OwnerTypes, PendingIsCurrent, LastGoodIsOlder, BaselineIsLastGood
  <2>3. ShownBefore' /\ ShownAfter'
    BY <2>1 DEF ShownBefore, ShownAfter
  <2> QED BY <2>2, <2>3 DEF IInv
<1>2. CASE Accepts(receipt) /\ receipt.outcome # "FullWriteAndFlush"
  BY <1>2, AbandonKeeps DEF SettleReceipt, Accepts
<1>3. CASE Accepts(receipt) /\ receipt.outcome = "FullWriteAndFlush"
  <2>1. /\ pending' = None /\ baseline' = pending.surface /\ last_good' = pending
        /\ last_receipt' = pending.sequence
        /\ writer' = writer /\ next_sequence' = next_sequence
        /\ pending # None
    BY <1>3 DEF SettleReceipt, Accepts
  <2>2. /\ pending \in Frame /\ pending.sequence \in Nat /\ pending.surface \in Surface
        /\ next_sequence \in Int
        /\ pending.writer = writer /\ pending.sequence = next_sequence - 1
    BY <2>1, ConstantsAssumption DEF IInv, OwnerTypes, PendingIsCurrent, Frame, Sequences
  <2>3. OwnerTypes'
    BY <2>1, <2>2 DEF IInv, OwnerTypes
  <2>4. PendingIsCurrent' /\ BaselineIsLastGood' /\ ShownAfter'
    BY <2>1, <2>2 DEF PendingIsCurrent, BaselineIsLastGood, ShownAfter
  <2>5. LastGoodIsOlder'
    BY <2>1, <2>2 DEF LastGoodIsOlder
  <2>6. ShownBefore'
    BY <2>1, <1>3 DEF ShownBefore
  <2> QED BY <2>3, <2>4, <2>5, <2>6 DEF IInv
<1> QED BY <1>1, <1>2, <1>3

-----------------------------------------------------------------------------
(* The invariant. *)

LEMMA InitIInv == Init => IInv
<1> SUFFICES ASSUME Init PROVE IInv
  OBVIOUS
<1>1. 1 \in Sequences
  BY ConstantsAssumption DEF Sequences
<1>2. OwnerTypes
  BY <1>1 DEF Init, OwnerTypes
<1>3. TerminalTypes
  BY DEF Init, TerminalTypes, Amounts
<1> QED BY <1>2, <1>3 DEF Init, IInv, PendingIsCurrent, LastGoodIsOlder, BaselineIsLastGood, ShownBefore, ShownAfter

LEMMA StutterIInv == IInv /\ UNCHANGED vars => IInv'
BY DEF vars, IInv, OwnerTypes, TerminalTypes, PendingIsCurrent, LastGoodIsOlder, BaselineIsLastGood, ShownBefore, ShownAfter

LEMMA NextIInv == IInv /\ [Next]_vars => IInv'
<1> SUFFICES ASSUME IInv, [Next]_vars PROVE IInv'
  OBVIOUS
<1>1. CASE TransportWrites
  <2>1. PICK amount \in {"some", "all"} : Put(amount)
    BY <1>1 DEF TransportWrites
  <2>2. UNCHANGED owner /\ pending # None
    BY <1>1 DEF TransportWrites
  <2>3. amount \in Amounts /\ written' # "nothing"
    BY <2>1 DEF Amounts, Put
  <2>4. TerminalTypes' /\ ((written' = "all" /\ ~disturbed') => screen'[writer.id] = pending.surface)
    BY <2>1, <2>2, <2>3, PutShows
  <2>5. OwnerTypes' /\ PendingIsCurrent' /\ LastGoodIsOlder' /\ BaselineIsLastGood'
    BY <2>2 DEF IInv, OwnerTypes, PendingIsCurrent, LastGoodIsOlder, BaselineIsLastGood
  <2>6. ShownBefore' /\ ShownAfter'
    BY <2>2, <2>3, <2>4 DEF ShownBefore, ShownAfter
  <2> QED BY <2>4, <2>5, <2>6 DEF IInv
<1>2. CASE Disturb
  <2>1. writer.id \in Ids
    BY DEF IInv, OwnerTypes, Writers
  <2>2. TerminalTypes' /\ disturbed'
    BY <1>2, <2>1 DEF Disturb, IInv, TerminalTypes
  <2>3. OwnerTypes' /\ PendingIsCurrent' /\ LastGoodIsOlder' /\ BaselineIsLastGood'
    BY <1>2 DEF Disturb, IInv, OwnerTypes, PendingIsCurrent, LastGoodIsOlder, BaselineIsLastGood
  <2> QED BY <2>2, <2>3 DEF IInv, ShownBefore, ShownAfter
<1>3. CASE InvalidateBaseline
  <2>1. CASE pending # None
    BY <1>3, <2>1, StutterIInv DEF InvalidateBaseline, Refused
  <2>2. CASE pending = None
    <3>1. /\ baseline' = None
          /\ UNCHANGED <<writer, next_sequence, last_good, last_receipt, pending, terminals>>
      BY <1>3, <2>2 DEF InvalidateBaseline
    <3>2. OwnerTypes' /\ TerminalTypes' /\ LastGoodIsOlder'
      BY <3>1 DEF IInv, OwnerTypes, TerminalTypes, LastGoodIsOlder
    <3> QED BY <3>1, <3>2, <2>2 DEF IInv, PendingIsCurrent, BaselineIsLastGood, ShownBefore, ShownAfter
  <2> QED BY <2>1, <2>2
<1>4. CASE RebindWriter
  <2>1. CASE pending # None
    BY <1>4, <2>1, StutterIInv DEF RebindWriter, Refused
  <2>2. CASE pending = None
    <3>1. PICK next \in Writers :
            /\ writer' = next
            /\ baseline' = IF SameWriter(writer, next) THEN baseline ELSE None
            /\ screen' = IF writer = next THEN screen ELSE [screen EXCEPT ![next.id] = Garbled]
            /\ UNCHANGED <<next_sequence, last_good, last_receipt, pending, written, disturbed>>
      BY <1>4, <2>2 DEF RebindWriter
    <3>3. CASE next = writer
      BY <3>1, <3>3, StutterIInv DEF vars, SameWriter
    <3>4. CASE next # writer
      <4>1. baseline' = None /\ screen' = [screen EXCEPT ![next.id] = Garbled]
        BY <3>1, <3>4 DEF SameWriter
      <4>2. OwnerTypes' /\ LastGoodIsOlder'
        BY <3>1, <4>1 DEF IInv, OwnerTypes, LastGoodIsOlder
      <4>3. TerminalTypes'
        BY <3>1, <4>1 DEF IInv, TerminalTypes, Writers
      <4> QED BY <3>1, <4>1, <4>2, <4>3, <2>2
              DEF IInv, PendingIsCurrent, BaselineIsLastGood, ShownBefore, ShownAfter
    <3> QED BY <3>3, <3>4
  <2> QED BY <2>1, <2>2
<1>5. CASE Prepare
  <2>1. PICK caller \in Writers, surface \in Surface :
          IF caller # writer \/ pending # None \/ SequenceExhausted THEN Refused
          ELSE /\ pending' = [sequence |-> next_sequence, writer |-> writer,
                              surface |-> surface, base |-> OperationsFor(surface)]
               /\ next_sequence' = next_sequence + 1
               /\ written' = "nothing"
               /\ UNCHANGED <<writer, baseline, last_good, last_receipt, screen, disturbed>>
    BY <1>5 DEF Prepare
  <2>2. CASE Refused
    BY <2>2, StutterIInv DEF Refused
  <2>3. CASE ~Refused
    <3>1. /\ pending' = [sequence |-> next_sequence, writer |-> writer,
                         surface |-> surface, base |-> OperationsFor(surface)]
          /\ next_sequence' = next_sequence + 1
          /\ written' = "nothing"
          /\ UNCHANGED <<writer, baseline, last_good, last_receipt, screen, disturbed>>
          /\ pending = None /\ next_sequence # MaxSequence
      BY <2>1, <2>3 DEF SequenceExhausted
    <3>2. OperationsFor(surface) \in {None, baseline} /\ OperationsFor(surface) \in Surface \cup {None}
      BY DEF OperationsFor, IInv, OwnerTypes
    <3>3. next_sequence \in Nat /\ next_sequence' \in Sequences
      BY <3>1, ConstantsAssumption DEF IInv, OwnerTypes, Sequences
    <3>4. pending' \in Frame
      BY <3>1, <3>2 DEF IInv, OwnerTypes, Frame
    <3>5. OwnerTypes'
      BY <3>1, <3>3, <3>4 DEF IInv, OwnerTypes
    <3>6. TerminalTypes'
      BY <3>1 DEF IInv, TerminalTypes, Amounts
    <3>7. PendingIsCurrent'
      BY <3>1, <3>2, <3>3 DEF PendingIsCurrent
    <3>8. LastGoodIsOlder'
      <4>1. last_good # None => last_good.sequence \in Int
        BY DEF IInv, OwnerTypes, Frame, Sequences
      <4> QED BY <4>1, <3>1, <3>3 DEF IInv, LastGoodIsOlder
    <3>9. BaselineIsLastGood' /\ ShownBefore' /\ ShownAfter'
      BY <3>1 DEF IInv, BaselineIsLastGood, ShownBefore, ShownAfter
    <3> QED BY <3>5, <3>6, <3>7, <3>8, <3>9 DEF IInv
  <2> QED BY <2>2, <2>3
<1>6. CASE Acknowledge
  <2>1. PICK receipt \in Receipt : Truthful(receipt) /\ SettleReceipt(receipt)
    BY <1>6 DEF Acknowledge
  <2>2. UNCHANGED terminals
    BY <1>6 DEF Acknowledge
  <2>3. TerminalTypes'
    BY <2>2 DEF IInv, TerminalTypes
  <2>4. (Accepts(receipt) /\ receipt.outcome = "FullWriteAndFlush") => written' = "all"
    BY <2>1, <2>2 DEF Accepts, Truthful, IInv, PendingIsCurrent
  <2>5. /\ (pending # None /\ written' = "all" /\ ~disturbed') => screen'[writer.id] = pending.surface
        /\ (written' = "nothing" /\ ~disturbed' /\ baseline # None) => screen'[writer.id] = baseline
        /\ (pending = None /\ ~disturbed' /\ baseline # None) => screen'[writer.id] = baseline
    BY <2>2 DEF IInv, ShownBefore, ShownAfter
  <2> QED BY <2>1, <2>3, <2>4, <2>5, SettleKeeps
<1>7. CASE WriteInterrupted
  <2>1. PICK amount \in Amounts : Put(amount)
    BY <1>7 DEF WriteInterrupted
  <2>2. pending # None /\ AbandonPending
    BY <1>7 DEF WriteInterrupted
  <2>3. TerminalTypes'
    BY <2>1, <2>2, PutShows
  <2> QED BY <2>2, <2>3, AbandonKeeps
<1>8. CASE WritePending
  <2>1. pending # None
    BY <1>8 DEF WritePending
  <2>2. PICK amount \in Amounts, result \in Outcomes \ {"Lost"}, early \in BOOLEAN :
          /\ result = "FullWriteAndFlush" => amount = "all"
          /\ Put(amount)
          /\ SettleReceipt([sequence |-> pending.sequence, writer |-> writer,
                            outcome |-> result, fits |-> TRUE, early |-> early])
    BY <1>8 DEF WritePending
  <2> DEFINE receipt == [sequence |-> pending.sequence, writer |-> writer,
                         outcome |-> result, fits |-> TRUE, early |-> early]
  <2>3. SettleReceipt(receipt) /\ receipt.outcome = result
    BY <2>2
  <2>4. /\ TerminalTypes'
        /\ (written' = "all" /\ ~disturbed') => screen'[writer.id] = pending.surface
        /\ (written' = "nothing" /\ ~disturbed' /\ baseline # None) => screen'[writer.id] = baseline
        /\ amount = "all" => written' = "all"
    BY <2>1, <2>2, PutShows
  <2>5. receipt.outcome = "FullWriteAndFlush" => written' = "all"
    BY <2>2, <2>3, <2>4
  <2> HIDE DEF receipt
  <2> QED BY <2>1, <2>3, <2>4, <2>5, SettleKeeps
<1>9. CASE PrepareRefused \/ AcknowledgeInterrupted \/ WriteRefused \/ UNCHANGED vars
  BY <1>9, StutterIInv DEF PrepareRefused, AcknowledgeInterrupted, WriteRefused, Refused
<1> QED BY <1>1, <1>2, <1>3, <1>4, <1>5, <1>6, <1>7, <1>8, <1>9 DEF Next

-----------------------------------------------------------------------------
(* The theorems. *)

LEMMA Invariance == Spec => []IInv
BY InitIInv, NextIInv, PTL DEF Spec

\* TypeOK is an invariant.
THEOREM TypeCorrect == Spec => []TypeOK
<1>1. IInv => TypeOK
  BY TypeParts DEF IInv
<1> QED BY <1>1, Invariance, PTL

\* Differences are prepared against what an undisturbed terminal shows.
THEOREM BaselineShown == Spec => []BaselineIsShown
<1>1. IInv => BaselineIsShown
  BY DEF IInv, ShownBefore, BaselineIsShown
<1> QED BY <1>1, Invariance, PTL

\* A difference is prepared only against the last good frame of the same
\* writer, with no failure since.
THEOREM DifferenceBase == Spec => []DifferencesAgainstLastGood
<1>1. IInv => DifferencesAgainstLastGood
  BY DEF IInv, PendingIsCurrent, BaselineIsLastGood, DifferencesAgainstLastGood
<1> QED BY <1>1, Invariance, PTL

\* A settled frame replaces the last good frame only by the pending frame that
\* the receipt names.
LEMMA SettleAdvances ==
  ASSUME IInv, NEW receipt, SettleReceipt(receipt), last_good' # last_good
  PROVE  /\ Accepts(receipt) /\ receipt.outcome = "FullWriteAndFlush"
         /\ pending # None /\ last_good' = pending
         /\ pending.writer = writer
         /\ last_good # None => last_good.sequence < pending.sequence
<1>1. Accepts(receipt) /\ receipt.outcome = "FullWriteAndFlush"
  BY DEF SettleReceipt, AbandonPending
<1>2. pending # None /\ last_good' = pending
  BY <1>1 DEF SettleReceipt, Accepts
<1> QED BY <1>1, <1>2 DEF IInv, PendingIsCurrent, LastGoodIsOlder

\* The last good frame advances to the pending frame, once it is written whole.
THEOREM SettlesInOrder == Spec => SettlesWrittenFrames
<1> DEFINE Settles ==
      last_good' # last_good =>
        /\ pending # None /\ last_good' = pending
        /\ pending.writer = writer
        /\ written' = "all"
        /\ last_good # None => last_good.sequence < pending.sequence
<1>1. ASSUME IInv, [Next]_vars, last_good' # last_good PROVE Settles
  <2>1. Acknowledge \/ WritePending
    <3>1. ~(TransportWrites \/ Disturb \/ InvalidateBaseline \/ RebindWriter \/ Prepare)
      BY <1>1, Zenon DEF TransportWrites, Disturb, InvalidateBaseline, RebindWriter, Prepare, Refused, vars
    <3>2. ~(PrepareRefused \/ AcknowledgeInterrupted \/ WriteRefused \/ WriteInterrupted \/ UNCHANGED vars)
      BY <1>1, Zenon DEF PrepareRefused, AcknowledgeInterrupted, WriteRefused, WriteInterrupted,
           AbandonPending, Refused, vars
    <3> QED BY <1>1, <3>1, <3>2 DEF Next
  <2>2. CASE Acknowledge
    <3>1. PICK receipt \in Receipt : Truthful(receipt) /\ SettleReceipt(receipt)
      BY <2>2 DEF Acknowledge
    <3>2. written' = written
      BY <2>2 DEF Acknowledge
    <3>3. /\ Accepts(receipt) /\ receipt.outcome = "FullWriteAndFlush"
          /\ pending # None /\ last_good' = pending /\ pending.writer = writer
          /\ last_good # None => last_good.sequence < pending.sequence
      BY <3>1, <1>1, SettleAdvances
    <3> QED BY <3>1, <3>2, <3>3 DEF Truthful, Accepts
  <2>3. CASE WritePending
    <3>1. PICK amount \in Amounts, result \in Outcomes \ {"Lost"}, early \in BOOLEAN :
            /\ result = "FullWriteAndFlush" => amount = "all"
            /\ Put(amount)
            /\ SettleReceipt([sequence |-> pending.sequence, writer |-> writer,
                              outcome |-> result, fits |-> TRUE, early |-> early])
      BY <2>3 DEF WritePending
    <3> DEFINE receipt == [sequence |-> pending.sequence, writer |-> writer,
                           outcome |-> result, fits |-> TRUE, early |-> early]
    <3>2. SettleReceipt(receipt) /\ receipt.outcome = result
      BY <3>1
    <3> HIDE DEF receipt
    <3>3. /\ receipt.outcome = "FullWriteAndFlush"
          /\ pending # None /\ last_good' = pending /\ pending.writer = writer
          /\ last_good # None => last_good.sequence < pending.sequence
      BY <3>2, <1>1, SettleAdvances
    <3>4. written' = "all"
      BY <3>1, <3>2, <3>3 DEF Put
    <3> QED BY <3>3, <3>4
  <2> QED BY <2>1, <2>2, <2>3
<1>2. IInv /\ [Next]_vars => [Settles]_vars
  BY <1>1
<1>3. [][Settles]_vars <=> SettlesWrittenFrames
  BY DEF SettlesWrittenFrames
<1> QED BY <1>2, <1>3, Invariance, PTL DEF Spec
===============================================================================
