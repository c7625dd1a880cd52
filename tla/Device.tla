------------------------------- MODULE Device -------------------------------
(***************************************************************************)
(* The device (firmware/esp32c3/src/main.rs): the loop that reads bytes    *)
(* from the serial port, edits a line, and hands it to the console.        *)
(*                                                                         *)
(* A byte is a glyph (a graphic character or a blank), an erase (backspace *)
(* or delete), an end of line (CR or LF), a byte the loop ignores, or a    *)
(* read error.  A glyph is one byte and the line is ASCII, so from_utf8    *)
(* of it never fails.  `screen` is what the user sees after the last       *)
(* prompt; the erase sequence takes the last glyph off it.                 *)
(*                                                                         *)
(* Every step of the device is a step of the console's session, or leaves  *)
(* it alone (theorem ImplementsConsole of Shells_proofs), so what module   *)
(* Console promises holds of the device.                                   *)
(***************************************************************************)
EXTENDS Console, Sequences, SequencesExt

CONSTANTS
    Glyphs,     \* bytes that are echoed
    LineMax,    \* LINE_MAX
    Meaning     \* the command a line of glyphs stands for

Lines == BoundedSeq(Glyphs, LineMax)

ASSUME LineMaxAssumption == LineMax \in Nat
ASSUME MeaningAssumption == Meaning \in [Lines -> Command]

VARIABLES
    line,       \* line[..len]
    screen      \* what the terminal shows after the last prompt

deviceVars == <<hardware, opts, filter, limit, outcome, typed, line, screen>>

DeviceInit == Init /\ line = <<>> /\ screen = <<>>

-----------------------------------------------------------------------------
\* A glyph beyond LINE_MAX is neither kept nor echoed.
Glyph(g) ==
    /\ IF Len(line) < LineMax
       THEN line' = Append(line, g) /\ screen' = Append(screen, g)
       ELSE UNCHANGED <<line, screen>>
    /\ UNCHANGED vars

\* Erase: 0x08 or 0x7F.
Erase ==
    /\ line # <<>>
    /\ line' = Front(line)
    /\ screen' = Front(screen)
    /\ UNCHANGED vars

\* Mutant: the line is not emptied once handled.
EndOfLine_KeepsTheLine ==
    /\ Handle(Meaning[line])
    /\ screen' = <<>>
    /\ UNCHANGED line

\* CR or LF: the line is handled, the report sent, and the prompt printed.
\* A terminal that sends both ends an empty line after each one.
EndOfLine ==
    /\ Handle(Meaning[line])
    /\ line' = <<>>
    /\ screen' = <<>>

\* A byte the loop drops, an erase of nothing, or a read that failed.
Ignored == UNCHANGED deviceVars

DeviceNext ==
    \/ \E g \in Glyphs : Glyph(g)
    \/ Erase
    \/ EndOfLine
    \/ Ignored

DeviceSpec == DeviceInit /\ [][DeviceNext]_deviceVars

-----------------------------------------------------------------------------
(***************************************************************************)
(* Properties                                                              *)
(***************************************************************************)

\* The line never outgrows its buffer: `line[len] = b` stays in bounds, and
\* len -= 1 is never taken at zero (main.rs:99, 106).
DeviceTypeOK == TypeOK /\ line \in Lines

\* What the user sees is what will be handled, through any sequence of
\* glyphs, erases, overlong input and submitted lines (main.rs:98-111).
ScreenShowsTheLine == screen = line

\* The session moves only when a line is ended, and then as the line that was
\* on the screen says: nothing typed earlier lingers (main.rs:81-96).
SessionFollowsTheScreen ==
    [][UNCHANGED vars \/ Handle(Meaning[screen])]_deviceVars
=============================================================================
