----------------------------- MODULE ChatInput -----------------------------
(***************************************************************************)
(* The line the user of a chat edits (MrBoboChatt/MrBoboChatt.cpp): every  *)
(* byte the terminal gives, the line and its cursor, the inputs of before, *)
(* and the bytes of a key that come one by one.  A line tells only its     *)
(* slashes from its other bytes; what is printed is left out.              *)
(* Operator_Word is a plausible mistake in Operator.                       *)
(***************************************************************************)
EXTENDS Integers, Sequences

CONSTANTS MaxInput,    \* bound: bytes typed since the last Enter
          MaxInputs,   \* bound: lines entered
          MaxBuffer    \* bound: bytes kept of a key

VARIABLES IsWindows,                \* set once, by the build
          CurrentInput, CursorPosition,
          CharactersInInput,        \* counted by itself, not Len(CurrentInput)
          PreviousInputs, CurrentInputlineIndex,
          SpecialCharacterBuffer,   \* the bytes of a key so far
          InitiatingCancelableInput

inputVars == <<IsWindows, CurrentInput, CursorPosition, CharactersInInput, PreviousInputs,
               CurrentInputlineIndex, SpecialCharacterBuffer, InitiatingCancelableInput>>

InputInit ==
    /\ IsWindows \in BOOLEAN
    /\ CurrentInput = <<>> /\ CursorPosition = 0 /\ CharactersInInput = 0
    /\ PreviousInputs = <<>> /\ CurrentInputlineIndex = 0
    /\ SpecialCharacterBuffer = <<>> /\ InitiatingCancelableInput = FALSE

(* The first byte of a key, the byte before the last one on a terminal,    *)
(* and the last one.                                                       *)
Escape == IF IsWindows THEN "e0" ELSE "1b"
Prefix == IF IsWindows THEN <<"e0">> ELSE <<"1b", "[">>
Last == IF IsWindows THEN [left |-> "K", right |-> "M", up |-> "H", down |-> "P"]
                     ELSE [left |-> "D", right |-> "C", up |-> "A", down |-> "B"]
KeyCode(key) == Append(Prefix, Last[key])
Keys == {"left", "right", "up", "down"}
Printable == {"x", "/"} \cup {Last[k] : k \in Keys} \cup (IF IsWindows THEN {} ELSE {"["})
Bytes == Printable \cup {Escape, "tab"}

Before(n) == SubSeq(CurrentInput, 1, n)
After(n) == SubSeq(CurrentInput, n + 1, Len(CurrentInput))
-----------------------------------------------------------------------------
(* At what the counter takes for the line's end the byte is appended.      *)
AddCharToInput(c) ==
    /\ CharactersInInput < MaxInput
    /\ \E b \in {IF c = "/" THEN c ELSE "x"} :
          CurrentInput' = IF CursorPosition = CharactersInInput
                          THEN Append(CurrentInput, b)
                          ELSE Append(Before(CursorPosition), b) \o After(CursorPosition)
    /\ CursorPosition' = CursorPosition + 1
    /\ CharactersInInput' = CharactersInInput + 1

SetCurrentInput(line, cursor) ==
    CurrentInput' = line /\ CursorPosition' = cursor /\ UNCHANGED CharactersInInput

Key(key) == CASE
    key = "left" ->
        /\ CursorPosition' = IF CursorPosition > 0 THEN CursorPosition - 1 ELSE 0
        /\ UNCHANGED <<CurrentInput, CharactersInInput, CurrentInputlineIndex>>
 [] key = "right" ->
        /\ CursorPosition' = IF CursorPosition + 1 > Len(CurrentInput)
                             THEN Len(CurrentInput) ELSE CursorPosition + 1
        /\ UNCHANGED <<CurrentInput, CharactersInInput, CurrentInputlineIndex>>
 [] key = "down" ->
        \E i \in {CurrentInputlineIndex + 1} :
            IF i < Len(PreviousInputs)
            THEN /\ SetCurrentInput(PreviousInputs[i + 1], Len(PreviousInputs[i + 1]))
                 /\ CurrentInputlineIndex' = i
            ELSE SetCurrentInput(<<>>, 0) /\ CurrentInputlineIndex' = Len(PreviousInputs)
 [] key = "up" ->
        \E i \in {CurrentInputlineIndex - 1} :
            IF i >= 0
            THEN /\ SetCurrentInput(PreviousInputs[i + 1], Len(PreviousInputs[i + 1]))
                 /\ CurrentInputlineIndex' = i
            ELSE /\ CurrentInputlineIndex' = 0
                 /\ UNCHANGED <<CurrentInput, CursorPosition, CharactersInInput>>

(* A buffer that can no longer become a key is dropped.  On Linux the      *)
(* second byte is compared with the third one's values, so that every key  *)
(* is dropped before it is complete, and what follows Escape and one of    *)
(* those values is kept for ever: only a tab empties the buffer again.     *)
Kept(buffer) ==
    IF buffer[1] # Escape \/ (Len(buffer) > 1 /\ buffer[2] \notin {Last[k] : k \in Keys})
    THEN <<>> ELSE buffer

PrintableByte(c) ==
    /\ c \in Printable /\ SpecialCharacterBuffer = <<>>
    /\ IF InitiatingCancelableInput
       THEN UNCHANGED <<CurrentInput, CursorPosition, CharactersInInput>>
       ELSE AddCharToInput(c)
    /\ UNCHANGED <<CurrentInputlineIndex, SpecialCharacterBuffer>>
SpecialByte(c) ==
    /\ c \notin Printable \/ SpecialCharacterBuffer # <<>>
    /\ Len(SpecialCharacterBuffer) < MaxBuffer
    /\ \E buffer \in {Append(SpecialCharacterBuffer, c)} :
        IF \E k \in Keys : buffer = KeyCode(k)
        THEN /\ \E k \in Keys : buffer = KeyCode(k) /\ Key(k)
             /\ SpecialCharacterBuffer' = <<>>
        ELSE /\ SpecialCharacterBuffer' = IF c = "tab" THEN <<>> ELSE Kept(buffer)
             /\ UNCHANGED <<CurrentInput, CursorPosition, CharactersInInput,
                            CurrentInputlineIndex>>
MainLoopByte(c) == /\ PrintableByte(c) \/ SpecialByte(c)
                   /\ UNCHANGED <<IsWindows, PreviousInputs, InitiatingCancelableInput>>

(* Backspace takes no byte off the counter, and no notice of a key that    *)
(* has begun.                                                              *)
Backspace_Cursor ==
    /\ ~InitiatingCancelableInput /\ CursorPosition > 0
    /\ SetCurrentInput(Before(CursorPosition - 1) \o After(CursorPosition), CursorPosition)
    /\ UNCHANGED <<IsWindows, PreviousInputs, CurrentInputlineIndex, SpecialCharacterBuffer,
                   InitiatingCancelableInput>>
Backspace ==
    /\ ~InitiatingCancelableInput /\ CursorPosition > 0
    /\ SetCurrentInput(Before(CursorPosition - 1) \o After(CursorPosition), CursorPosition - 1)
    /\ UNCHANGED <<IsWindows, PreviousInputs, CurrentInputlineIndex, SpecialCharacterBuffer,
                   InitiatingCancelableInput>>

(* A command is looked up in the lists, /startcon begins what Enter can    *)
(* cancel; any other line, an empty one too, goes to the active connection *)
(* (ChatTransfer).                                                         *)
ParseInput(line) ==
    /\ InitiatingCancelableInput' \in BOOLEAN
    /\ InitiatingCancelableInput' => line # <<>> /\ line[1] = "/"
Enter ==
    /\ ~InitiatingCancelableInput /\ Len(PreviousInputs) < MaxInputs
    /\ CurrentInput' = <<>> /\ CursorPosition' = 0 /\ CharactersInInput' = 0
    /\ IF CurrentInput = <<>>
       THEN UNCHANGED <<PreviousInputs, CurrentInputlineIndex>>
       ELSE /\ PreviousInputs' = Append(PreviousInputs, CurrentInput)
            /\ CurrentInputlineIndex' = Len(PreviousInputs) + 1
    /\ ParseInput(CurrentInput)
    /\ UNCHANGED <<IsWindows, SpecialCharacterBuffer>>

(* Enter while a connection is being initiated, or its end.                *)
Cancel ==
    /\ InitiatingCancelableInput /\ InitiatingCancelableInput' = FALSE
    /\ UNCHANGED <<IsWindows, CurrentInput, CursorPosition, CharactersInInput, PreviousInputs,
                   CurrentInputlineIndex, SpecialCharacterBuffer>>

InputNext == (\E c \in Bytes : MainLoopByte(c)) \/ Backspace \/ Enter \/ Cancel
-----------------------------------------------------------------------------
(* AddCharToInput cuts the line at the cursor, and the arrows take a line  *)
(* out of the ones before: the cursor is never behind the line's end and   *)
(* the index never behind the last line, although the length is counted    *)
(* apart from the line and not everywhere.                                 *)
CursorInInput == /\ CursorPosition \in 0..Len(CurrentInput)
                 /\ CurrentInputlineIndex \in 0..Len(PreviousInputs)
=============================================================================
