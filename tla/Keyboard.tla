------------------------------ MODULE Keyboard ------------------------------
(***************************************************************************)
(* The keyboard driver (hardware/keyboard.c): one interrupt for every byte *)
(* of a scan code, the decoder that puts the bytes together, the modifiers *)
(* and the characters for the pipe of the first process. Keys are down or  *)
(* up on the keyboard, which sends scan codes of one, two or three bytes.  *)
(***************************************************************************)
EXTENDS Integers, Sequences

CONSTANTS Keys,   \* the keys somebody presses
          Fake,   \* the keyboard sends fake shifts around extended keys
          None    \* no character

VARIABLES down,       \* keys that are down
          wire,       \* bytes the interrupt handler has not read yet
          ext1Code, ext2Code,
          modifiers,
          out         \* the character written last

vars == <<down, wire, ext1Code, ext2Code, modifiers, out>>

AllKeys == {"shiftl", "shiftr", "ctrll", "ctrlr", "alt", "altgr", "caps", "a", "pause"}

KeyboardAssumption == Keys \subseteq AllKeys /\ Fake \in BOOLEAN

-----------------------------------------------------------------------------
(* The keyboard.                                                           *)

E0 == 224
E1 == 225
Code(k) == CASE k = "shiftl" -> 42 [] k = "shiftr" -> 54 [] k \in {"ctrll", "ctrlr"} -> 29
             [] k \in {"alt", "altgr"} -> 56 [] k = "caps" -> 58 [] k = "a" -> 30
Extended(k) == k \in {"ctrlr", "altgr"}
FakeShift == IF Fake THEN <<E0, 42>> ELSE <<>>
FakeUnshift == IF Fake THEN <<E0, 170>> ELSE <<>>

\* The pause key sends everything when it is pressed.
MakeCode(k) == IF k = "pause" THEN <<E1, 29, 69, E1, 157, 197>>
               ELSE IF Extended(k) THEN FakeShift \o <<E0, Code(k)>> ELSE <<Code(k)>>
BreakCode(k) == IF k = "pause" THEN <<>>
                ELSE IF Extended(k) THEN <<E0, Code(k) + 128>> \o FakeUnshift
                ELSE <<Code(k) + 128>>

Press(k) ==
    /\ wire = <<>> /\ k \notin down
    /\ down' = down \cup {k} /\ wire' = MakeCode(k)
    /\ UNCHANGED <<ext1Code, ext2Code, modifiers, out>>

Lift(k) ==
    /\ wire = <<>> /\ k \in down
    /\ down' = down \ {k} /\ wire' = BreakCode(k)
    /\ UNCHANGED <<ext1Code, ext2Code, modifiers, out>>

-----------------------------------------------------------------------------
(* The driver.                                                             *)

\* standardKeyCodes, extendedKeyCodes
MappedKey(extended, code) ==
    LET found == {k \in AllKeys \ {"pause"} : Code(k) = code /\ Extended(k) = (extended = 1)}
    IN  IF extended = 2 \/ found = {} THEN None ELSE CHOOSE k \in found : TRUE

\* The map the modifiers select; a locked shift counts as shift.
DecodeMap ==
    IF modifiers.shift \/ modifiers.shiftLocked
    THEN IF modifiers.ctrl THEN "shift_ctrl" ELSE IF modifiers.alt THEN "shift_alt" ELSE "shift"
    ELSE IF modifiers.ctrl THEN IF modifiers.altgr THEN "altgr_ctrl" ELSE "ctrl"
    ELSE IF modifiers.altgr THEN IF modifiers.alt THEN "altgr_alt" ELSE "altgr"
    ELSE IF modifiers.alt THEN "alt" ELSE "plain"

\* keymap_de.c: the modifier a key stands for; Alt turns AltGr into another key.
ModifierOf(map, k) ==
    CASE k \in {"shiftl", "shiftr"} -> "shift" [] k \in {"ctrll", "ctrlr"} -> "ctrl"
      [] k = "alt" -> "alt" [] k = "altgr" -> IF map = "alt" THEN None ELSE "altgr"
      [] OTHER -> None

\* keymap_de.c: what the letter is; with Alt it is no character.
CharOf(map, k) ==
    CASE k # "a" \/ map \in {"alt", "shift_alt", "altgr_alt"} -> None
      [] map \in {"ctrl", "shift_ctrl", "altgr_ctrl"} -> "^A"
      [] map = "shift" -> "A"
      [] OTHER -> "a"

ProcessScancode(extended, code, keyUp) ==
    LET k == MappedKey(extended, code)
        mod == ModifierOf(DecodeMap, k)
        char == CharOf(DecodeMap, k)
    IN  IF k = None THEN UNCHANGED <<modifiers, out>>
        ELSE /\ modifiers' = IF mod # None THEN [modifiers EXCEPT ![mod] = ~keyUp]
                             ELSE IF k = "caps" /\ ~keyUp
                             THEN [modifiers EXCEPT !.shiftLocked = ~@] ELSE modifiers
             /\ out' = IF ~keyUp /\ char # None THEN char ELSE out

\* A byte with the highest bit set, unless it is a prefix where one can stand.
KeyUp(byte) == byte >= 128 /\ (ext2Code > 0 \/ byte # E1) /\ (ext1Code \/ byte # E0)

IsFake(code) == code \in {42, 54}

MutExtendedByte(code, keyUp) ==
    /\ UNCHANGED <<ext1Code, ext2Code>>
    /\ IF IsFake(code) THEN UNCHANGED <<modifiers, out>>
       ELSE ProcessScancode(1, code, keyUp)

\* The byte after 0xE0; a fake shift is dropped.
ExtendedByte(code, keyUp) ==
    /\ ext1Code' = FALSE /\ UNCHANGED ext2Code
    /\ IF IsFake(code) THEN UNCHANGED <<modifiers, out>>
       ELSE ProcessScancode(1, code, keyUp)

\* One of the two bytes after 0xE1.
PauseByte(code, keyUp) ==
    /\ ext2Code' = (IF ext2Code = 2 THEN 0 ELSE ext2Code + 1) /\ UNCHANGED ext1Code
    /\ IF ext2Code = 2 THEN ProcessScancode(2, code, keyUp)
       ELSE UNCHANGED <<modifiers, out>>

\* keyboard_irq
KeyboardIrq ==
    LET byte == Head(wire)
        code == IF KeyUp(byte) THEN byte - 128 ELSE byte
    IN  /\ wire # <<>>
        /\ wire' = Tail(wire)
        /\ CASE ext1Code -> ExtendedByte(code, KeyUp(byte))
             [] ~ext1Code /\ ext2Code > 0 -> PauseByte(code, KeyUp(byte))
             [] ~ext1Code /\ ext2Code = 0 /\ code = E0 ->
                 ext1Code' = TRUE /\ UNCHANGED <<ext2Code, modifiers, out>>
             [] ~ext1Code /\ ext2Code = 0 /\ code = E1 ->
                 ext2Code' = 1 /\ UNCHANGED <<ext1Code, modifiers, out>>
             [] OTHER ->
                 ProcessScancode(0, code, KeyUp(byte)) /\ UNCHANGED <<ext1Code, ext2Code>>
        /\ UNCHANGED down

\* keyboardInit
Init ==
    /\ down = {} /\ wire = <<>>
    /\ ext1Code = FALSE /\ ext2Code = 0
    /\ modifiers = [m \in {"shift", "shiftLocked", "ctrl", "alt", "altgr"} |-> FALSE]
    /\ out = None

Next == KeyboardIrq \/ \E k \in Keys : Press(k) \/ Lift(k)

Spec == Init /\ [][Next]_vars

-----------------------------------------------------------------------------
(* Properties                                                              *)

\* Types of the keys, the decoder and the modifiers.
TypeOK ==
    /\ down \subseteq AllKeys
    /\ wire \in Seq(0..255)
    /\ ext1Code \in BOOLEAN /\ ext2Code \in 0..2
    /\ modifiers \in [{"shift", "shiftLocked", "ctrl", "alt", "altgr"} -> BOOLEAN]
    /\ out \in {"a", "A", "^A", None}

\* After the last byte of a scan code the decoder waits for a new one.
InSync == wire = <<>> => ~ext1Code /\ ext2Code = 0

KeysOf(m) == {k \in AllKeys : ModifierOf("plain", k) = m}

\* No modifier is stuck: whatever the order of keys, one that is on belongs
\* to a key that is down, although each key is decoded by the map that the
\* other modifiers select.
NoneStuck ==
    wire = <<>> => \A m \in {"shift", "ctrl", "alt", "altgr"} :
                       modifiers[m] => down \cap KeysOf(m) # {}

\* A shift key that is down is noticed.
ShiftTracked == wire = <<>> /\ down \cap KeysOf("shift") # {} => modifiers.shift

\* The decoder is in step with the codes and its modifiers with the keys.
DecoderSound == TypeOK /\ InSync /\ NoneStuck
====
