---------------------------- MODULE KeyboardPort ----------------------------
(***************************************************************************)
(* The input port of the console, scheme_port_get_char of                  *)
(* kscm/scheme/port.c: it polls the keyboard for a line, keeps it in       *)
(* _line_buffer, and gives a character of it at each call.                 *)
(***************************************************************************)
EXTENDS Integers, Sequences

CONSTANTS
  Keys,       (* the keys of the keyboard but the shift keys              *)
  Chars,      (* the characters                                           *)
  KeyMap,     (* key_map: the character of each key                       *)
  ShiftMap,   (* shift_map: the same with shift                           *)
  NUL, CR, NL,
  Size,       (* of _line_buffer: 1024                                    *)
  Overrun     (* bound: the bytes after _line_buffer that are neither NUL *)
              (* nor NL                                                   *)

ASSUME KeyboardAssumption ==
  /\ {NUL, CR, NL} \subseteq Chars /\ NUL # CR /\ NUL # NL /\ CR # NL
  /\ KeyMap \in [Keys -> Chars \ {NL}] /\ ShiftMap \in [Keys -> Chars \ {NL}]
  /\ Size \in Nat \ {0, 1} /\ Overrun \in Nat

VARIABLES
  lineBuffer,  (* _line_buffer                                      *)
  offset,      (* _offset                                           *)
  polling,     (* a call is waiting for keys                        *)
  keymap,      (* the map that call uses                            *)
  out,         (* what the last call returned                       *)
  spoiled      (* the line in the buffer is not the one that was    *)
               (* typed: set and cleared for LineInput, not read    *)

vars == <<lineBuffer, offset, polling, keymap, out, spoiled>>

(* What a read at offset may find. Nothing looks whether it is in the      *)
(* buffer.                                                                 *)
Found ==
  IF offset < Size THEN {lineBuffer[offset]}
  ELSE IF offset < Size + Overrun THEN Chars ELSE {NUL, NL}

Init ==
  /\ lineBuffer = [i \in 0 .. Size - 1 |-> NUL]
  /\ offset = 0
  /\ polling = FALSE
  /\ keymap = KeyMap
  /\ out = NUL
  /\ spoiled = FALSE

-----------------------------------------------------------------------------
(* A call that finds a character of the line. *)
GetBuffered ==
  /\ ~ polling
  /\ \E c \in Found \ {NL, NUL} : out' = c
  /\ offset' = offset + 1
  /\ UNCHANGED <<lineBuffer, polling, keymap, spoiled>>

(* One that finds its end. *)
UnclearedGetNewline ==
  /\ ~ polling /\ NL \in Found
  /\ out' = NL
  /\ offset' = 0
  /\ UNCHANGED <<lineBuffer, polling, keymap, spoiled>>

GetNewline ==
  /\ ~ polling /\ NL \in Found
  /\ out' = NL
  /\ offset' = 0
  /\ lineBuffer' = [lineBuffer EXCEPT ![0] = NUL]
  /\ UNCHANGED <<polling, keymap, spoiled>>

(* One that finds nothing polls for a line, with no shift key held.        *)
StartPolling ==
  /\ ~ polling /\ NUL \in Found
  /\ offset' = 0
  /\ polling' = TRUE
  /\ keymap' = KeyMap
  /\ spoiled' = FALSE
  /\ UNCHANGED <<lineBuffer, out>>

PressShift ==
  /\ polling /\ keymap' = ShiftMap
  /\ UNCHANGED <<lineBuffer, offset, polling, out, spoiled>>

ReleaseShift ==
  /\ polling /\ keymap' = KeyMap
  /\ UNCHANGED <<lineBuffer, offset, polling, out, spoiled>>

UncheckedStored(c) ==
  /\ lineBuffer' = [lineBuffer EXCEPT ![offset] = c]
  /\ offset' = offset + 1

(* The character goes into the buffer, or nowhere when that is full.       *)
Stored(c) ==
  IF offset >= Size THEN UNCHANGED <<lineBuffer, offset>>
  ELSE /\ lineBuffer' = [lineBuffer EXCEPT ![offset] = c]
       /\ offset' = offset + 1

PressKey(k) ==
  /\ polling /\ keymap[k] # CR
  /\ Stored(keymap[k])
  /\ UNCHANGED <<polling, keymap, out, spoiled>>

(* The line is not what was typed when its end found no room, when one of  *)
(* its keys has no character, or when it is empty and the buffer still     *)
(* holds the rest of an earlier one.                                       *)
Spoils ==
  \/ offset >= Size
  \/ \E i \in 0 .. offset - 1 : lineBuffer[i] = NUL
  \/ offset = 0 /\ lineBuffer[1] # NUL

(* Enter ends the line, and the call returns its first character.          *)
PressEnter(k) ==
  /\ polling /\ keymap[k] = CR
  /\ lineBuffer' = IF offset >= Size THEN lineBuffer ELSE [lineBuffer EXCEPT ![offset] = NL]
  /\ offset' = 1
  /\ out' = lineBuffer'[0]
  /\ polling' = FALSE
  /\ spoiled' = Spoils
  /\ UNCHANGED keymap

Next ==
  \/ GetBuffered \/ GetNewline \/ StartPolling
  \/ PressShift \/ ReleaseShift
  \/ \E k \in Keys : PressKey(k) \/ PressEnter(k)

Spec == Init /\ [][Next]_vars

-----------------------------------------------------------------------------
(***************************************************************************)
(* The types of the state. A call that polls writes within the buffer, and *)
(* only reads run past it.                                                 *)
(***************************************************************************)
TypeOK ==
  /\ lineBuffer \in [0 .. Size - 1 -> Chars]
  /\ offset \in 0 .. Size + Overrun
  /\ polling => offset <= Size
  /\ polling \in BOOLEAN /\ spoiled \in BOOLEAN
  /\ keymap \in {KeyMap, ShiftMap}
  /\ out \in Chars

(***************************************************************************)
(* The buffer implements LineInput: whatever earlier lines left in it, the *)
(* characters of a line are given once each, in order, and none before the *)
(* line is ended, unless the line is one of those of Spoils.               *)
(***************************************************************************)
FirstNewline == CHOOSE i \in offset .. Size - 1 :
  lineBuffer[i] = NL /\ \A j \in offset .. i - 1 : lineBuffer[j] # NL

Due ==
  IF polling THEN [i \in 1 .. offset |-> lineBuffer[i - 1]]
  ELSE IF offset >= Size \/ spoiled \/ lineBuffer[offset] = NUL THEN << >>
  ELSE [i \in 1 .. FirstNewline - offset + 1 |-> lineBuffer[offset + i - 1]]

Lines == INSTANCE LineInput WITH
  typed <- Due,
  ready <- ~ polling /\ Due # << >>,
  broken <- spoiled

ImplementsLineInput == Lines!Spec

=============================================================================
