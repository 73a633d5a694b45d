------------------------------ MODULE Keyboard ------------------------------
(* check_keyboard() and keyboard_readc() of WeensyOS                          *)
(* (src/pset4/k-hardware.cc): the scan codes of a PC keyboard, one byte per   *)
(* call, turned into characters with the state of the modifier keys and of    *)
(* the escape prefix kept in two static variables, which a soft reboot clears.*)
(* The keyboard itself and the person at it are external; the keys are one or *)
(* two of each kind the decoder treats differently.                           *)
EXTENDS Integers, Sequences, FiniteSets

CONSTANTS
    BufferSize,  \* bytes the keyboard controller keeps
    HeldKeys,    \* bound: keys down at once
    Keys         \* the physical keys pressed

\* The bytes of each key: its scan code and whether 0xE0 comes before it.
Scan == [a     |-> [code |-> 30, escape |-> FALSE], \* 0x1E
         c     |-> [code |-> 46, escape |-> FALSE],
         six   |-> [code |-> 7,  escape |-> FALSE],
         enter |-> [code |-> 28, escape |-> TRUE],  \* 0x1C on the keypad
         up    |-> [code |-> 72, escape |-> TRUE],  \* 0x48; without 0xE0 the keypad's 8
         eight |-> [code |-> 72, escape |-> FALSE],
         lshift |-> [code |-> 42, escape |-> FALSE],
         rshift |-> [code |-> 54, escape |-> FALSE],
         lctrl  |-> [code |-> 29, escape |-> FALSE],
         rctrl  |-> [code |-> 29, escape |-> TRUE],
         alt    |-> [code |-> 56, escape |-> FALSE],
         caps   |-> [code |-> 58, escape |-> FALSE]]

ASSUME KeyboardAssumption ==
    Keys \subseteq DOMAIN Scan /\ BufferSize \in Nat /\ HeldKeys \in Nat

\* The characters and the modifier bits, by the names of the code.
Modifier == [shift |-> 250, control |-> 251, alt |-> 252, capslock |-> 253]
CKey(n) == 128 + n
KeyUp == 192

\* keymap[], for the codes of Scan; 0x80 is added for a code after 0xE0.
Keymap == [index \in {7, 29, 30, 42, 46, 54, 56, 58, 72, 28 + 128, 29 + 128, 72 + 128} |->
              CASE index = 30 -> 97 [] index = 46 -> 99
                [] index = 7 -> CKey(5) [] index = 28 + 128 -> CKey(14)
                [] index = 72 + 128 -> KeyUp [] index = 72 -> 56
                [] index \in {42, 54} -> Modifier.shift
                [] index \in {29, 29 + 128} -> Modifier.control
                [] index = 56 -> Modifier.alt [] index = 58 -> Modifier.capslock]

\* complex_keymap[]: plain, with shift, with control, with both.
ComplexKeymap == [ch \in {CKey(5), CKey(14)} |->
                     IF ch = CKey(5) THEN <<54, 94, 0, 30>> ELSE <<10, 10, 13, 13>>]

VARIABLES
    modifiers,   \* the bits of the static variable that are set
    last_escape, \* whether the last byte was 0xE0
    buffer,      \* bytes waiting in the controller, with the key they are of
    down,        \* the keys that are down
    typed        \* history: the last key decoded and what keyboard_readc() returned

keyboardVars == <<modifiers, last_escape, buffer, down, typed>>

ScanByte(value, key) == [value |-> value, key |-> key]
ScanBytes(key, release) ==
    (IF Scan[key].escape THEN <<ScanByte(224, key)>> ELSE << >>)
        \o <<ScanByte(Scan[key].code + (IF release THEN 128 ELSE 0), key)>>

-----------------------------------------------------------------------------
(* The keyboard (external). A key that is held repeats its bytes.             *)

Press(key) == /\ Len(buffer) + Len(ScanBytes(key, FALSE)) <= BufferSize
              /\ Cardinality(down \cup {key}) <= HeldKeys
              /\ down' = down \cup {key}
              /\ buffer' = buffer \o ScanBytes(key, FALSE)
              /\ UNCHANGED <<modifiers, last_escape, typed>>

Release(key) == /\ key \in down
                /\ Len(buffer) + Len(ScanBytes(key, TRUE)) <= BufferSize
                /\ down' = down \ {key}
                /\ buffer' = buffer \o ScanBytes(key, TRUE)
                /\ UNCHANGED <<modifiers, last_escape, typed>>

-----------------------------------------------------------------------------
(* keyboard_readc() *)

Char(index) == IF index \in DOMAIN Keymap THEN Keymap[index] ELSE 0

\* A mutant: the comparison leaves shift out.
ClearedBy_NotShift(ch) ==
    IF ch > Modifier.shift /\ ch < Modifier.capslock
    THEN {m \in DOMAIN Modifier : Modifier[m] = ch} ELSE {}

\* The modifier a release clears: shift, control and alt, not the locks.
ClearedBy(ch) ==
    IF ch >= Modifier.shift /\ ch < Modifier.capslock
    THEN {m \in DOMAIN Modifier : Modifier[m] = ch} ELSE {}

IsModifier(ch) == ch >= Modifier.shift

\* The modifiers after the press of a modifier key: locks turn over.
Pressed(ch) ==
    LET bit == {m \in DOMAIN Modifier : Modifier[m] = ch}
    IN  IF ch >= Modifier.capslock
        THEN (modifiers \ bit) \cup (bit \ modifiers)
        ELSE modifiers \cup bit

Letter(ch) ==
    IF "control" \in modifiers THEN ch - 96
    ELSE IF ("shift" \in modifiers) # ("capslock" \in modifiers) THEN ch - 32
    ELSE ch

\* map[modifiers & 3]
Complex(ch) == ComplexKeymap[ch][1 + (IF "shift" \in modifiers THEN 1 ELSE 0)
                                   + (IF "control" \in modifiers THEN 2 ELSE 0)]

\* What the press of a key that is not a modifier returns.
Decoded(ch) ==
    IF ch >= 97 /\ ch <= 122 THEN Letter(ch)
    ELSE IF ch >= CKey(0) /\ ch <= CKey(21) THEN Complex(ch)
    ELSE IF ch < 128 /\ "control" \in modifiers THEN 0
    ELSE ch

Index(data) == IF last_escape THEN data + 128 ELSE data

\* A mutant: the escape stays on once it was seen.
NextEscape_Kept(data) == data = 224 \/ last_escape
NextEscape(data) == data = 224

\* The reboot after 'a' (and 'e', 'f') restarts the kernel, whose entry zeroes
\* its static variables; the keys stay down and the controller keeps its bytes.
Reboots(char) == char = 97

\* Control-C turns the machine off, in the middle of the call.
PoweredOff == typed.char = 3

\* One call with a byte ready; without one it returns -1 and changes nothing.
CheckKeyboard ==
    /\ ~PoweredOff
    /\ buffer # << >>
    /\ buffer' = Tail(buffer)
    /\ LET data    == Head(buffer).value
           prefix  == data = 224
           release == data >= 128
           ch      == Char(Index(IF release THEN data - 128 ELSE data))
           char    == IF prefix \/ release \/ IsModifier(ch) THEN 0 ELSE Decoded(ch)
       IN  /\ last_escape' = (NextEscape(data) /\ ~Reboots(char))
           /\ modifiers' = IF prefix THEN modifiers
                           ELSE IF release THEN modifiers \ ClearedBy(ch)
                           ELSE IF IsModifier(ch) THEN Pressed(ch)
                           ELSE IF Reboots(char) THEN {}
                           ELSE modifiers
           /\ typed' = [key |-> Head(buffer).key, char |-> char]
    /\ UNCHANGED down

KeyboardInit == /\ modifiers = {} /\ last_escape = FALSE
                /\ buffer = << >> /\ down = {}
                /\ typed = [key |-> "none", char |-> 0]

KeyboardNext == \/ \E key \in Keys : Press(key) \/ Release(key)
                \/ CheckKeyboard

KeyboardSpec == KeyboardInit /\ [][KeyboardNext]_keyboardVars

-----------------------------------------------------------------------------
(* Properties *)

\* The modifiers a key stands for.
Means(key) == {m \in DOMAIN Modifier :
                  Modifier[m] = Char(Scan[key].code + (IF Scan[key].escape THEN 128 ELSE 0))}

\* No modifier sticks: once every byte is read, shift, control and alt are set
\* only while a key of that name is down, whatever was pressed, released,
\* repeated or read across a reboot in the meantime. (The converse fails by
\* design: releasing one of two shift keys clears the bit.)
NothingSticks ==
    buffer = << >> =>
        \A m \in modifiers \ {"capslock"} : \E key \in down : m \in Means(key)

\* What is printed on a key, with every modifier.
Legend(key) ==
    CASE key = "a" -> {97, 65, 1}
      [] key = "c" -> {99, 67, 3}
      [] key = "six" -> {54, 94, 30}
      [] key = "enter" -> {10, 13}
      [] key = "up" -> {KeyUp}
      [] key = "eight" -> {56}
      [] OTHER -> {}

\* A character keyboard_readc() returns is one of the key whose bytes it just
\* read: no prefix is taken for the wrong key and no release types anything.
TypesWhatWasPressed == typed.char # 0 => typed.char \in Legend(typed.key)
=============================================================================
