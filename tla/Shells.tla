------------------------------- MODULE Shells -------------------------------
(***************************************************************************)
(* The two shells over one engine: the device (module Device) and the      *)
(* desktop command line (module Cli).  A user sits at one of them.  At the *)
(* device the session is the console's own; at the command line it is the  *)
(* console that is told the same.                                          *)
(***************************************************************************)
EXTENDS Device, Cli

\* No word of a command line is the absent value.
ASSUME NoneIsNoCommand == None \notin {"system", "recommend", "fit", "help", "other"}

AtTheDevice ==
    /\ command = None
    /\ stage = "done"
    /\ argc = 0
    /\ options = [o \in Option |-> None]
    /\ hw = None
    /\ gpuName = None /\ total = 0 /\ listed = <<>> /\ notes = {}

ShellsInit == DeviceInit /\ (AtTheDevice \/ CliInit)

ShellsNext ==
    \/ command = None /\ DeviceNext /\ UNCHANGED cliVars
    \/ CliNext /\ UNCHANGED <<line, screen>>

ShellsSpec == ShellsInit /\ [][ShellsNext]_<<deviceVars, cliVars>>

-----------------------------------------------------------------------------
\* At the device the session moves only as the line on the screen says, through
\* any sequence of glyphs, erases, overlong input and submitted lines
\* (firmware/esp32c3/src/main.rs:81-111).
DeviceFollowsTheScreen ==
    [][command = None => UNCHANGED vars \/ Handle(Meaning[screen])]_<<deviceVars, cliVars>>
=============================================================================
