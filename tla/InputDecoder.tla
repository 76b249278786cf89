---------------------------- MODULE InputDecoder ----------------------------
(***************************************************************************)
(* Terminal bytes to input events: InputDecoder and decode_input of        *)
(* crates/tg-terminal/src/lib.rs.                                          *)
(*                                                                         *)
(* A terminal sends keys, escape sequences and bracketed pastes, and the   *)
(* decoder takes them one byte at a time, however its caller cuts them.    *)
(* The caller may be cancelled, which loses the rest of the bytes in hand, *)
(* or decide at any time that no more bytes follow (finish), which is what *)
(* tells the escape key from the start of a sequence.                      *)
(*                                                                         *)
(* Bytes are classes of bytes.  "0" stands for 200 and "1" for 201, so a   *)
(* marker has four bytes here; "A" is a final byte a key is known for,     *)
(* after "[" and after "O"; "x" is any other printable character.          *)
(***************************************************************************)
EXTENDS Integers, SequencesExt

CONSTANTS
  MaxSequenceBytes, \* max_sequence_bytes
  MaxPaste,         \* max_paste_bytes
  MaxContent,       \* bound: bytes in a paste
  MaxDigits,        \* bound: parameters of an escape sequence
  MaxUnread         \* bound: bytes of cut messages a new one is sent behind

ASSUME LimitsAssumption ==
  /\ MaxSequenceBytes \in Nat
  /\ MaxPaste \in Nat
  /\ MaxContent \in Nat
  /\ MaxDigits \in Nat
  /\ MaxUnread \in Nat

VARIABLES
  buffer,
  discarding_paste,
  discard_match,    \* bytes of the end marker matched while discarding
  left,             \* what the terminal sent and the caller has not pushed yet
  intact,           \* history: the last message was pushed whole, to a decoder in step
  message,          \* history: that message
  start,            \* history: the state the decoder was in when it began
  got               \* history: the results since

decoder == <<buffer, discarding_paste, discard_match>>
history == <<intact, message, start, got>>
decoder_vars == <<decoder, left, history>>

Byte  == {"ESC", "[", "O", "0", "1", "~", "A", "x", "lead", "cont"}
Start == <<"ESC", "[", "0", "~">>
End   == <<"ESC", "[", "1", "~">>
Final == {"[", "O", "~", "A", "x"}   \* 0x40..0x7e

-----------------------------------------------------------------------------
(* What a terminal sends. *)

\* A paste has one byte at most that is not an ordinary character: an escape, a
\* bracket, or the first of a character of two bytes, cut short at the end.
PasteContents ==
  {[i \in 1..length |-> IF i = at THEN byte
                        ELSE IF i = at + 1 /\ byte = "lead" THEN "cont" ELSE "x"] :
     length \in 0..MaxContent, at \in 1..MaxContent, byte \in {"x", "ESC", "[", "lead"}}

Escape == [kind |-> "key", body |-> <<"ESC">>]

Messages ==
  {[kind |-> "key", body |-> body] :
     body \in {<<"x">>, <<"0">>, <<"ESC">>, <<"lead", "cont">>, <<"ESC", "x">>,
               <<"ESC", "lead", "cont">>, <<"ESC", "O", "A">>, <<"ESC", "[", "O">>}}
  \cup {[kind |-> "key", body |-> <<"ESC", "[">> \o [i \in 1..digits |-> "0"] \o <<"A">>] :
          digits \in 0..MaxDigits}
  \cup [kind : {"paste"}, body : PasteContents]

Bytes(m) == IF m.kind = "paste" THEN Start \o m.body \o End ELSE m.body

-----------------------------------------------------------------------------
(* The end of the sequence that starts a buffer: next_sequence_length. *)

Incomplete       == [length |-> 0, error |-> "none"]
Complete(length) == [length |-> length, error |-> "none"]
Fails(error)     == [length |-> 0, error |-> error]

\* utf8_sequence_length, 0 where it fails.
CharacterLength(first) == CASE first = "lead" -> 2 [] first = "cont" -> 0 [] OTHER -> 1

EndOfPaste(bytes) ==
  LET ends     == {i \in Len(Start) + 1 .. Len(bytes) - Len(End) + 1 :
                     SubSeq(bytes, i, i + Len(End) - 1) = End}
      overlong == IF ends # {} THEN Min(ends) - Len(Start) - 1 > MaxPaste
                  ELSE Len(bytes) > MaxPaste + Len(Start) + Len(End)
  IN CASE overlong                 -> Fails("PasteLimit")
       [] ~overlong /\ ends # {}   -> Complete(Min(ends) + Len(End) - 1)
       [] OTHER                    -> Incomplete

EndOfCsi(bytes) ==
  LET finals   == {i \in 3..Len(bytes) : bytes[i] \in Final}
      overlong == (IF finals # {} THEN Min(finals) ELSE Len(bytes)) > MaxSequenceBytes
  IN CASE overlong                 -> Fails("SequenceLimit")
       [] ~overlong /\ finals # {} -> Complete(Min(finals))
       [] OTHER                    -> Incomplete

Fixed(bytes, length) ==
  IF length > MaxSequenceBytes THEN Fails("SequenceLimit")
  ELSE IF Len(bytes) >= length THEN Complete(length)
  ELSE Incomplete

Character(bytes, at) ==
  IF CharacterLength(bytes[at]) = 0 THEN Fails("Invalid")
  ELSE Fixed(bytes, at - 1 + CharacterLength(bytes[at]))

next_sequence_length(bytes) ==
  IF bytes = << >> THEN Incomplete
  ELSE IF IsPrefix(Start, bytes) THEN EndOfPaste(bytes)
  ELSE IF bytes[1] # "ESC" THEN Character(bytes, 1)
  ELSE IF bytes = <<"ESC">> THEN (IF MaxSequenceBytes = 0 THEN Fails("SequenceLimit") ELSE Incomplete)
  ELSE CASE bytes[2] = "[" -> EndOfCsi(bytes)
         [] bytes[2] = "O" -> Fixed(bytes, 3)
         [] OTHER          -> Character(bytes, 2)

-----------------------------------------------------------------------------
(* The event of a whole sequence: decode_input.  UnknownSequence,            *)
(* InvalidKeyCode, InvalidCoordinate and InvalidUtf8 are one error, Invalid. *)

Error(name) == [kind |-> name, body |-> << >>]

Utf8(bytes) ==
  \A i \in DOMAIN bytes :
    /\ bytes[i] = "lead" => i < Len(bytes) /\ bytes[i + 1] = "cont"
    /\ bytes[i] = "cont" => i > 1 /\ bytes[i - 1] = "lead"

\* One printable character.
Printable(bytes) ==
  /\ bytes # << >> /\ bytes[1] # "ESC"
  /\ Utf8(bytes) /\ Len(bytes) = CharacterLength(bytes[1])

\* A final byte of a key counts without parameters, or with a 1 first; no key has
\* the number 200, 201 or one made of them.
decode_csi_key(bytes) == bytes = <<"ESC", "[", "A">>

Known(bytes) ==
  \/ decode_csi_key(bytes)
  \/ bytes \in {<<"ESC">>, <<"ESC", "[", "O">>, <<"ESC", "O", "A">>}
  \/ Printable(bytes)
  \/ bytes[1] = "ESC" /\ Printable(Tail(bytes))

decode_input(bytes) ==
  IF IsPrefix(Start, bytes)
  THEN LET content == SubSeq(bytes, Len(Start) + 1, Len(bytes) - Len(End))
       IN IF Utf8(content) THEN [kind |-> "paste", body |-> content] ELSE Error("Invalid")
  ELSE IF Known(bytes) THEN [kind |-> "key", body |-> bytes] ELSE Error("Invalid")

-----------------------------------------------------------------------------
(* The decoder. *)

Idle == buffer = << >> /\ ~discarding_paste

DecoderInit ==
  /\ buffer = << >>
  /\ discarding_paste = FALSE
  /\ discard_match = 0
  /\ left = << >>
  /\ intact = FALSE
  /\ message = Escape
  /\ start = "idle"
  /\ got = << >>

\* Nothing is said of a message that was cut, or met a decoder out of step.
Forget ==
  /\ intact' = FALSE
  /\ message' = Escape
  /\ start' = "idle"
  /\ got' = << >>

Results(results) ==
  /\ got' = IF intact THEN got \o results ELSE << >>
  /\ UNCHANGED <<intact, message, start>>

\* The terminal sends something more once what came before was pushed.
Sends ==
  /\ left = << >> /\ Len(buffer) <= MaxUnread
  /\ \E sent \in Messages :
       /\ left' = Bytes(sent)
       /\ IF Idle \/ discarding_paste
          THEN /\ intact' = TRUE
               /\ message' = sent
               /\ start' = IF Idle THEN "idle" ELSE "discarding"
               /\ got' = << >>
          ELSE Forget
  /\ UNCHANGED decoder

Pushed == Append(buffer, Head(left))
Taken  == left' = Tail(left)

Pushing == left # << >> /\ ~discarding_paste

\* The byte is one of a sequence that goes on.
PushIncomplete ==
  /\ Pushing
  /\ next_sequence_length(Pushed) = Incomplete
  /\ buffer' = Pushed
  /\ Taken
  /\ UNCHANGED <<discarding_paste, discard_match, history>>

\* The byte completes a sequence, which is decoded.
PushComplete ==
  /\ Pushing
  /\ LET length == next_sequence_length(Pushed).length
     IN /\ length > 0
        /\ buffer' = SubSeq(Pushed, length + 1, Len(Pushed))
        /\ Results(<<decode_input(SubSeq(Pushed, 1, length))>>)
  /\ Taken
  /\ UNCHANGED <<discarding_paste, discard_match>>

Mut_PushFailsAlwaysDiscards ==
  /\ Pushing
  /\ LET error == next_sequence_length(Pushed).error
     IN /\ error # "none"
        /\ discarding_paste' = (error = "PasteLimit")
        /\ Results(<<Error(error)>>)
  /\ discard_match' = 0
  /\ buffer' = << >>
  /\ Taken

\* The byte breaks the sequence, or is one more than a limit.  The rest of a
\* paste that did not end with it is discarded.
PushFails ==
  /\ Pushing
  /\ LET error == next_sequence_length(Pushed).error
     IN /\ error # "none"
        /\ discarding_paste' = (error = "PasteLimit" /\ ~IsSuffix(End, Pushed))
        /\ Results(<<Error(error)>>)
  /\ discard_match' = 0
  /\ buffer' = << >>
  /\ Taken

Mut_MatchedForgetsEscape(byte) ==
  IF byte = End[discard_match + 1] THEN discard_match + 1 ELSE 0

\* consume_discarded_paste_byte.
Matched(byte) ==
  IF byte = End[discard_match + 1] THEN discard_match + 1
  ELSE IF byte = Head(End) THEN 1 ELSE 0

PushDiscarded ==
  /\ left # << >> /\ discarding_paste
  /\ discarding_paste' = (Matched(Head(left)) < Len(End))
  /\ discard_match' = IF discarding_paste' THEN Matched(Head(left)) ELSE 0
  /\ Taken
  /\ UNCHANGED <<buffer, history>>

\* A push whose cancellation is set loses the rest of its bytes.
PushCancelled ==
  /\ left # << >>
  /\ \E count \in 1..Len(left) : left' = SubSeq(left, count + 1, Len(left))
  /\ Forget
  /\ UNCHANGED decoder

Clear == buffer' = << >> /\ discarding_paste' = FALSE /\ discard_match' = 0

\* finish_map.  It cuts a message in two, and leaves one that was pushed whole.
Finish ==
  /\ Clear
  /\ IF left = << >> /\ ~discarding_paste
     THEN Results(CASE buffer = << >>    -> << >>
                    [] buffer = <<"ESC">> -> <<decode_input(buffer)>>
                    [] OTHER              -> <<Error("Invalid")>>)
     ELSE Forget
  /\ UNCHANGED left

ResetDecoder ==
  /\ Clear
  /\ Forget
  /\ UNCHANGED left

DecoderNext ==
  \/ Sends
  \/ PushIncomplete \/ PushComplete \/ PushFails \/ PushDiscarded \/ PushCancelled
  \/ Finish \/ ResetDecoder

DecoderSpec == DecoderInit /\ [][DecoderNext]_decoder_vars

-----------------------------------------------------------------------------
(* Properties. *)

Pasted == message.kind = "paste"

Outcome ==
  IF Len(message.body) > IF Pasted THEN MaxPaste ELSE MaxSequenceBytes
  THEN Error(IF Pasted THEN "PasteLimit" ELSE "SequenceLimit")
  ELSE IF IF Pasted THEN Utf8(message.body) ELSE Known(message.body)
  THEN message
  ELSE Error("Invalid")

\* Sequences whose length their first bytes tell, before the last one comes.
Foretold == {<<"lead", "cont">>, <<"ESC", "lead", "cont">>, <<"ESC", "O", "A">>}

\* What the decoder cannot tell the end of: an escape key nobody finished, a
\* sequence the limit cuts before its end, a paste that does not even begin within
\* it, and one whose end marker is cut, because it is 2 to Len(End) bytes too long.
EndLost ==
  \/ message = Escape /\ got = << >>
  \/ ~Pasted /\ Len(message.body) > MaxSequenceBytes + 1
  \/ ~Pasted /\ Len(message.body) > MaxSequenceBytes /\ message.body \in Foretold
  \/ Pasted /\ Len(Start) > MaxSequenceBytes + 1
  \/ Pasted /\ Len(message.body) - MaxPaste \in 2..Len(End)

Delivered(state) == left = << >> /\ intact /\ start = state

\* Whatever came before, a message that reaches an idle decoder whole gives one
\* result, the event that was sent or the error it deserves, and leaves it idle
\* (push_with_cancellation_map, decode_input_event).
OneResultEach == Delivered("idle") /\ ~EndLost => Idle /\ got = <<Outcome>>

\* A decoder that discards does so, without results, to the end of a paste and no
\* further: when one reaches it whole it is idle again, whatever the paste holds
\* (consume_discarded_paste_byte).
DiscardsToEndOfPaste == Delivered("discarding") => (Idle <=> Pasted) /\ got = << >>

\* The test input_decoder_recovers_after_limits_corruption_and_cancellation says
\* that after a paste beyond the limit the next key is decoded.
RecoversAfterLimits == Delivered("idle") /\ Pasted => Idle
=============================================================================
