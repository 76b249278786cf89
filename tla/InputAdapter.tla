---------------------------- MODULE InputAdapter ----------------------------
(***************************************************************************)
(* What a keyboard and a mouse do to the page: translate_crossterm_event   *)
(* in apps/termglide/src/interactive.rs, handle_address_input in           *)
(* apps/termglide/src/external_interactive.rs, and ExternalInputAdapter in *)
(* crates/tg-browser/src/external_input.rs.                                *)
(*                                                                         *)
(* A terminal event is translated whole, then sent as one or two calls to  *)
(* Chrome.  Between any two of them the session may be cancelled and any   *)
(* of them may fail; the address bar takes some keys for itself; Chrome    *)
(* may be replaced between events by one that has seen no key.  Terminals  *)
(* differ in what they report: most only presses, some also releases, and  *)
(* those with the kitty protocol left on repeats and lock keys as well.    *)
(***************************************************************************)
EXTENDS Naturals, SequencesExt

CONSTANTS
  Characters,   \* keys that print, the shortcuts and the space among them
  Space,
  Keys,         \* keys that do not print, Enter and Escape among them
  Columns,      \* terminal_columns: cells are 0..Columns - 1
  MaxActions,   \* limits.max_actions
  MaxEvents     \* bound: events the user makes

Untranslated == {"Null", "Media"}   \* keys that are no InputEvent
Unnamed      == {"CapsLock", "F25"} \* keys Chrome has no name for

Buttons   == {"Left", "Right"}
Wheels    == {"WheelUp", "WheelLeft"}

\* Keys and buttons have names of their own; a paste may be empty, a character not.
ASSUME AdapterAssumption ==
  /\ Space \in Characters
  /\ "" \notin Characters
  /\ Characters \cap (Keys \cup Untranslated \cup Unnamed) = {}
  /\ (Characters \cup Keys) \cap (Buttons \cup Wheels \cup {"None"}) = {}
  /\ Columns \in Nat \ {0}
  /\ MaxActions \in 1..32
  /\ MaxEvents \in Nat

VARIABLES
  pc,       \* "idle", "sending" or how the session ended
  address_bar_active,
  actions,  \* of the event being dispatched, those not yet sent
  cancelled,
  reports,  \* what the terminal reports of a key: "presses", "releases" or "all"
  held,     \* keys and buttons the user holds down
  typed,    \* history: what the user has typed or pasted into the page
  missed,   \* history: keys and buttons whose release Chrome was not sent
  taken,    \* history: keys and buttons whose press Chrome was not sent
  down,     \* keys and buttons Chrome believes are down
  text,     \* what insertText has given it
  carried,  \* what its keyDowns carried as text
  events    \* events made

user   == <<reports, held, typed, missed, taken, events>>
chrome == <<down, text, carried>>
adapter_vars == <<pc, address_bar_active, actions, cancelled, user, chrome>>

\* CONTROL stands for every modifier that makes a character a command, and
\* CAPS_LOCK for the lock keys; SHIFT changes nothing here.
Modifiers == {{}, {"CONTROL"}, {"CAPS_LOCK"}}
Pastes    == {"", "pasted", "NUL", "overlong"}
Ends      == {"Quit", "Cancelled", "Unsupported", "Input", "Cdp"}

Key(code, kind, modifiers) ==
  [type |-> "key", code |-> code, kind |-> kind, modifiers |-> modifiers]
Mouse(button, pressed, column, modifiers) ==
  [type |-> "mouse", button |-> button, pressed |-> pressed, column |-> column,
   modifiers |-> modifiers]
Paste(string)  == [type |-> "paste", text |-> string]
Focus(focused) == [type |-> "focus", focused |-> focused]

AdapterInit ==
  /\ pc = "idle"
  /\ address_bar_active = FALSE
  /\ actions = <<>>
  /\ cancelled \in BOOLEAN
  /\ reports \in {"presses", "releases", "all"}
  /\ held = {}
  /\ typed = <<>>
  /\ missed = {}
  /\ taken = {}
  /\ down = {}
  /\ text = <<>>
  /\ carried = <<>>
  /\ events = 0

-----------------------------------------------------------------------------
(* Translation. *)

is_quit_key(e) ==
  e.type = "key" /\ e.kind = "Press" /\ e.code = "c" /\ "CONTROL" \in e.modifiers

\* translate_key: control characters, media and modifier keys have no translation.
Unsupported(e) == e.type = "key" /\ e.code \in Untranslated

\* The text a key event carries, in a sequence.
KeyText(e) ==
  IF e.code \in Characters /\ "CONTROL" \notin e.modifiers THEN <<e.code>> ELSE <<>>

text_actions(string) == IF string = "" THEN <<>> ELSE <<[call |-> "InsertText", text |-> string]>>

\* The text of a release too.
Mut_key_actions(e) ==
  <<[call |-> "Key", kind |-> e.kind, key |-> e.code, modifiers |-> e.modifiers]>>
  \o IF KeyText(e) # <<>> THEN text_actions(Head(KeyText(e))) ELSE <<>>

key_actions(e) ==
  <<[call |-> "Key", kind |-> e.kind, key |-> e.code, modifiers |-> e.modifiers]>>
  \o IF e.kind # "Release" /\ KeyText(e) # <<>> THEN text_actions(Head(KeyText(e))) ELSE <<>>

\* Releases dropped for the buttons as they are for the wheels.
Mut_pointer_actions(e) ==
  LET kind == CASE e.button \in Wheels  -> "Wheel"
                [] e.button \in Buttons -> IF e.pressed THEN "Press" ELSE "Release"
                [] OTHER                -> "Move"
  IN  IF kind # "Move" /\ ~e.pressed
      THEN <<>>
      ELSE <<[call |-> "Pointer", kind |-> kind, button |-> e.button]>>

\* translate_mouse gives a drag the button and the state of a mere movement.
pointer_actions(e) ==
  LET kind == CASE e.button \in Wheels  -> "Wheel"
                [] e.button \in Buttons -> IF e.pressed THEN "Press" ELSE "Release"
                [] OTHER                -> "Move"
  IN  IF kind = "Wheel" /\ ~e.pressed
      THEN <<>>
      ELSE <<[call |-> "Pointer", kind |-> kind, button |-> e.button]>>

\* cdp_modifier_mask has no bit for the lock keys.
BadModifier(e) == e.type \in {"key", "mouse"} /\ "CAPS_LOCK" \in e.modifiers

\* cdp_key_name.
BadKey(e) == e.type = "key" /\ e.code \in Unnamed

\* cell_center: the terminal may report a cell of a size it no longer has.
BadCell(e) == e.type = "mouse" /\ e.column >= Columns

\* validate_text.
BadText(e) == e.type = "paste" /\ e.text \in {"NUL", "overlong"}

Untranslatable(e) == BadModifier(e) \/ BadKey(e) \/ BadCell(e) \/ BadText(e)

translate(e) ==
  CASE e.type = "key"   -> key_actions(e)
    [] e.type = "mouse" -> pointer_actions(e)
    [] e.type = "paste" -> text_actions(e.text)
    [] e.type = "focus" -> <<[call |-> "Focus", focused |-> e.focused]>>

-----------------------------------------------------------------------------
(* The address bar. *)

Shortcuts == {"g", "l", "+", "-"}

\* handle_address_input: whether it keeps the event from Chrome.
KeptFromChrome(e) ==
  /\ e.type = "key"
  /\ address_bar_active \/ (e.kind = "Press" /\ e.code \in Shortcuts)

BarAfter(e) ==
  IF address_bar_active
  THEN ~(e.kind = "Press" /\ e.code \in {"Enter", "Escape"})
  ELSE e.code = "g"

\* Enter may load another page, 'l' reloads it and the zooms resize it.
MayCallChrome(e) == IF address_bar_active THEN e.code = "Enter" ELSE e.code # "g"

-----------------------------------------------------------------------------
(* The user. *)

Input(e) == CASE e.type = "mouse" -> e.button
              [] e.type = "key"   -> e.code
              [] OTHER            -> "None"

Pressing(e)  == \/ e.type = "key" /\ e.kind = "Press"
                \/ e.type = "mouse" /\ e.button \in Buttons /\ e.pressed
Releasing(e) == \/ e.type = "key" /\ e.kind = "Release"
                \/ e.type = "mouse" /\ e.button \in Buttons /\ ~e.pressed

\* What there is to report, given what is held down.
Reported(e) ==
  /\ Pressing(e) => \/ Input(e) \notin held
                    \/ e.type = "key" /\ reports # "all"   \* a key held down repeats
  /\ Releasing(e) => Input(e) \in held
  /\ e.type = "key" =>
       /\ e.kind = "Release" => reports # "presses"
       /\ e.kind = "Repeat" => reports = "all" /\ e.code \in held
       /\ "CAPS_LOCK" \in e.modifiers => reports = "all"

\* What the event adds to the page's text, in the user's eyes.
Meant(e) ==
  CASE e.type = "paste" -> IF e.text = "" THEN <<>> ELSE <<e.text>>
    [] e.type = "key" /\ e.kind # "Release" /\ ~KeptFromChrome(e) -> KeyText(e)
    [] OTHER -> <<>>

UserMakes(e) ==
  /\ Reported(e)
  /\ events < MaxEvents
  /\ events' = events + 1
  /\ typed' = typed \o Meant(e)
  /\ held' = CASE Pressing(e)  -> held \cup {Input(e)}
               [] Releasing(e) -> held \ {Input(e)}
               [] OTHER        -> held
  /\ missed' = IF Releasing(e) /\ KeptFromChrome(e) THEN missed \cup {Input(e)}
               ELSE missed \ {Input(e)}
  /\ taken' = IF Pressing(e) /\ KeptFromChrome(e) THEN taken \cup {Input(e)}
              ELSE IF e.type = "key" /\ ~KeptFromChrome(e) THEN taken \ {Input(e)}
              ELSE taken
  /\ UNCHANGED reports

\* A terminal that reports only presses says nothing of this one.
UnreportedRelease ==
  /\ reports = "presses"
  /\ \E key \in held \ Buttons :
       /\ held' = held \ {key}
       /\ missed' = missed \cup {key}
  /\ UNCHANGED <<pc, address_bar_active, actions, cancelled, reports, typed, taken, events, chrome>>

-----------------------------------------------------------------------------
(* The session. *)

Quit(e) ==
  /\ is_quit_key(e) \/ Unsupported(e)
  /\ pc' = IF Unsupported(e) THEN "Unsupported" ELSE "Quit"
  /\ UNCHANGED <<address_bar_active, actions, cancelled, chrome>>

HandleAddressInput(e) ==
  /\ ~is_quit_key(e) /\ ~Unsupported(e)
  /\ KeptFromChrome(e)
  /\ address_bar_active' = BarAfter(e)
  /\ pc' \in {"idle"} \cup (IF MayCallChrome(e) THEN {"Cdp"} ELSE {})
                     \cup (IF cancelled THEN {"Cancelled"} ELSE {})
  /\ UNCHANGED <<actions, cancelled, chrome>>

\* dispatch, up to its first call.
Dispatch(e) ==
  /\ ~is_quit_key(e) /\ ~Unsupported(e)
  /\ ~KeptFromChrome(e)
  /\ IF cancelled
     THEN pc' = "Cancelled" /\ UNCHANGED actions
     ELSE IF Untranslatable(e) \/ Len(translate(e)) > MaxActions
     THEN pc' = "Input" /\ UNCHANGED actions
     ELSE /\ actions' = translate(e)
          /\ pc' = IF translate(e) = <<>> THEN "idle" ELSE "sending"
  /\ UNCHANGED <<address_bar_active, cancelled, chrome>>

Handle(e) ==
  /\ pc = "idle"
  /\ UserMakes(e)
  /\ Quit(e) \/ HandleAddressInput(e) \/ Dispatch(e)

KeyEvent   == \E code \in Characters \cup Keys \cup Untranslated \cup Unnamed,
                 kind \in {"Press", "Repeat", "Release"}, modifiers \in Modifiers :
                Handle(Key(code, kind, modifiers))

MouseEvent == \E column \in 0..Columns, modifiers \in Modifiers \ {{"CAPS_LOCK"}} :
                \/ \E button \in Buttons, pressed \in BOOLEAN :
                     Handle(Mouse(button, pressed, column, modifiers))
                \/ \E wheel \in Wheels : Handle(Mouse(wheel, TRUE, column, modifiers))
                \/ Handle(Mouse("None", FALSE, column, modifiers))

TextEvent  == \/ \E string \in Pastes : Handle(Paste(string))
              \/ \E focused \in BOOLEAN : Handle(Focus(focused))

-----------------------------------------------------------------------------
(* Chrome. *)

cdp_activation_text(key) ==
  CASE key = "Enter" -> <<"CR">>
    [] key = Space   -> <<Space>>
    [] OTHER         -> <<>>

\* Chrome inserts what a keyDown carries as text, unless a chord makes it a command.
Carried(a) ==
  IF a.kind # "Release" /\ "CONTROL" \notin a.modifiers
  THEN cdp_activation_text(a.key)
  ELSE <<>>

Receives(a) ==
  CASE a.call = "Key" ->
         /\ down' = IF a.kind = "Release" THEN down \ {a.key} ELSE down \cup {a.key}
         /\ carried' = carried \o Carried(a)
         /\ UNCHANGED text
    [] a.call = "InsertText" ->
         /\ text' = Append(text, a.text)
         /\ UNCHANGED <<down, carried>>
    [] a.call = "Pointer" /\ a.kind \in {"Press", "Release"} ->
         /\ down' = IF a.kind = "Press" THEN down \cup {a.button} ELSE down \ {a.button}
         /\ UNCHANGED <<text, carried>>
    [] OTHER -> UNCHANGED chrome

\* send_action: Chrome may have acted on a call that fails.
SendAction ==
  /\ pc = "sending" /\ ~cancelled
  /\ Receives(Head(actions))
  /\ actions' = Tail(actions)
  /\ pc' \in {"Cdp", IF Tail(actions) = <<>> THEN "idle" ELSE "sending"}
  /\ UNCHANGED <<address_bar_active, cancelled, user>>

SendFails ==
  /\ pc = "sending" /\ ~cancelled
  /\ pc' = "Cdp"
  /\ UNCHANGED <<address_bar_active, actions, cancelled, user, chrome>>

\* ensure_active before each call, or the select of the loop.
Stop ==
  /\ pc \in {"idle", "sending"} /\ cancelled
  /\ pc' = "Cancelled"
  /\ UNCHANGED <<address_bar_active, actions, cancelled, user, chrome>>

Cancel ==
  /\ pc \in {"idle", "sending"} /\ ~cancelled
  /\ cancelled' = TRUE
  /\ UNCHANGED <<pc, address_bar_active, actions, user, chrome>>

\* Between two events Chrome exits and another takes its place.
Recover ==
  /\ pc = "idle" /\ ~cancelled
  /\ down # {} \/ held # {}
  /\ down' = {}
  /\ taken' = taken \cup held
  /\ UNCHANGED <<pc, address_bar_active, actions, cancelled, reports, held, typed, missed, events,
                 text, carried>>

AdapterNext ==
  \/ KeyEvent \/ MouseEvent \/ TextEvent \/ UnreportedRelease
  \/ SendAction \/ SendFails \/ Stop \/ Cancel \/ Recover

AdapterSpec == AdapterInit /\ [][AdapterNext]_adapter_vars
-----------------------------------------------------------------------------
(* Properties. *)

\* What insert_text hands to Chrome is what the user typed and pasted outside the
\* address bar, in order and once each; a session that ends inside dispatch loses
\* no more than the end of the last event.
TextArrives ==
  /\ IsPrefix(text, typed)
  /\ pc \in {"idle", "Quit"} => text = typed
  /\ Len(typed) <= Len(text) + 1

\* Between two events Chrome and the user agree on the keys and buttons held down,
\* but for those whose press the address bar or a lost browser has taken, and those
\* whose release went to the address bar or was never reported.
HeldAgrees ==
  pc = "idle" => /\ down \ held \subseteq missed
                 /\ held \ down \subseteq taken
                 /\ (down \cup held) \cap Buttons \subseteq held
=============================================================================
