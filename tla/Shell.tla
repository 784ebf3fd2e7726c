------------------------------- MODULE Shell --------------------------------
(***************************************************************************)
(* LUPOS from power-on to its prompt: CLuposApp::Initialize, CKernel::Run, *)
(* the loop of lua_interface, and Ctrl-Alt-Del, whose handler is called by *)
(* the interrupt of the keyboard between any two steps.                    *)
(*                                                                         *)
(* What the lines and hello.lua do is up to Lua: here they end, fail,      *)
(* reboot, or never end.  Names that Repl has too begin with Shell, as the *)
(* proofs about both, the two ends of the prompt, are in one module.       *)
(***************************************************************************)
EXTENDS Integers, Sequences, SequencesExt

CONSTANTS
    Nets,          \* network devices of cmdline.txt: "none", "eth", "wlan"
    NetTimeout     \* the seconds that Initialize waits for the network

ASSUME ShellAssumption == Nets \subseteq {"none", "eth", "wlan"} /\ NetTimeout \in Nat

VARIABLES
    phase,            \* where the main task is
    next,             \* how many steps of Initialize are done
    net, waited,      \* mNetDevice, and the seconds waited for it
    handler,          \* CtrlAltDelete is registered with a live keyboard
    mShutdownMode,
    pressed, lines    \* history: the handler was called in this loop of
                      \* lua_interface, and lines were read after that

shellVars == <<phase, next, net, waited, handler, mShutdownMode, pressed, lines>>

Steps == <<"interrupt", "screen", "serial", "logger", "timer", "emmc", "usb",
           "mount", "chdrive", "console", "wlan", "net", "wpa">>
NetSteps == {"wlan", "net", "wpa"}

ShellTypeOK ==
    /\ phase \in {"init", "wait", "run", "load", "hello", "check", "read", "exec",
                  "halted", "rebooted"}
    /\ next \in 0 .. Len(Steps) /\ net \in Nets /\ waited \in 0 .. NetTimeout
    /\ handler \in BOOLEAN /\ pressed \in BOOLEAN
    /\ mShutdownMode \in {"None", "Halt", "Reboot"}
    /\ lines \in 0 .. 1

ShellInit ==
    /\ phase = "init" /\ next = 0
    /\ net \in Nets /\ waited = 0
    /\ handler = FALSE /\ mShutdownMode = "None"
    /\ pressed = FALSE /\ lines = 0

-----------------------------------------------------------------------------
(* Booting                                                                 *)

boot     == <<next, net, waited>>
shutdown == <<handler, mShutdownMode>>
prompt   == <<pressed, lines>>

\* Without a network the three last steps are left out, without WLAN the two
\* that belong to it.
Skipped(s) == s \in NetSteps /\ (net = "none" \/ (s # "net" /\ net # "wlan"))

InitializeStep ==
    /\ phase = "init" /\ next < Len(Steps)
    /\ next' = next + 1
    /\ UNCHANGED <<phase, net, waited, shutdown, prompt>>

\* main halts; a missing SD card is only logged.
InitializeFails ==
    /\ phase = "init" /\ next < Len(Steps)
    /\ Steps[next + 1] # "emmc" /\ ~Skipped(Steps[next + 1])
    /\ phase' = "halted"
    /\ UNCHANGED <<boot, shutdown, prompt>>

WaitForNet ==
    /\ phase = "init" /\ next = Len(Steps)
    /\ phase' = IF net = "none" THEN "run" ELSE "wait"
    /\ UNCHANGED <<boot, shutdown, prompt>>

\* Time passes in the Yield of the loop.
Second ==
    /\ phase = "wait" /\ waited < NetTimeout
    /\ waited' = waited + 1
    /\ UNCHANGED <<phase, next, net, shutdown, prompt>>

\* The network runs, or it takes too long.
WaitEnds ==
    /\ phase = "wait" /\ phase' = "run"
    /\ UNCHANGED <<boot, shutdown, prompt>>

\* The shutdown handler goes to the keyboard that is there now, if any.
Run ==
    /\ phase = "run" /\ phase' = "load"
    /\ handler' \in BOOLEAN
    /\ UNCHANGED <<boot, mShutdownMode, prompt>>

-----------------------------------------------------------------------------
(* lua_interface                                                           *)

\* hello.lua is loaded into a new Lua state, and run if it is there.
LoadHello ==
    /\ phase = "load" /\ phase' = "hello"
    /\ UNCHANGED <<boot, shutdown, prompt>>

\* A syntax error: lua_interface returns, and CKernel::Run starts again.
LoadFails ==
    /\ phase = "load"
    /\ mShutdownMode' = "None"
    /\ UNCHANGED <<phase, boot, handler, prompt>>

\* A plausible slip: a request that came during hello.lua is kept.
HelloEndsKept ==
    /\ phase = "hello" /\ phase' = "check"
    /\ mShutdownMode' = IF mShutdownMode = "None" THEN "Halt" ELSE mShutdownMode
    /\ pressed' = FALSE /\ lines' = 0
    /\ UNCHANGED <<boot, handler>>

HelloEnds ==
    /\ phase = "hello" /\ phase' = "check"
    /\ mShutdownMode' = "Halt"
    /\ pressed' = FALSE /\ lines' = 0
    /\ UNCHANGED <<boot, handler>>

Prompt ==
    /\ phase = "check" /\ mShutdownMode # "Reboot"
    /\ phase' = "read"
    /\ UNCHANGED <<boot, shutdown, prompt>>

\* fgets returns a line, or nothing.
ReadLine ==
    /\ phase = "read"
    /\ phase' = "exec" /\ lines' = (IF pressed THEN lines + 1 ELSE lines)
    /\ UNCHANGED <<boot, shutdown, pressed>>

ReadNothing ==
    /\ phase = "read" /\ phase' = "check"
    /\ UNCHANGED <<boot, shutdown, prompt>>

LineEnds ==
    /\ phase = "exec" /\ phase' = "check"
    /\ UNCHANGED <<boot, shutdown, prompt>>

\* lua_reboot, from a line or from hello.lua.
LuaReboots ==
    /\ phase \in {"hello", "exec"} /\ phase' = "rebooted"
    /\ UNCHANGED <<boot, shutdown, prompt>>

\* The loop is left, and CKernel::Run starts again.
Leave ==
    /\ phase = "check" /\ mShutdownMode = "Reboot"
    /\ phase' = "load" /\ mShutdownMode' = "None"
    /\ UNCHANGED <<boot, handler, prompt>>

-----------------------------------------------------------------------------
(* The keyboard                                                            *)

\* A plausible slip: the second press halts again.
CtrlAltDeleteHalts ==
    /\ handler /\ phase \notin {"halted", "rebooted"}
    /\ mShutdownMode' = IF mShutdownMode = "None" THEN "Halt" ELSE mShutdownMode
    /\ pressed' = TRUE
    /\ UNCHANGED <<phase, boot, handler, lines>>

CtrlAltDelete ==
    /\ handler /\ phase \notin {"halted", "rebooted"}
    /\ mShutdownMode' = IF mShutdownMode = "None" THEN "Halt" ELSE "Reboot"
    /\ pressed' = TRUE
    /\ UNCHANGED <<phase, boot, handler, lines>>

\* The keyboard is pulled out; the next one has no handler.
KeyboardRemoved ==
    /\ handler /\ handler' = FALSE
    /\ UNCHANGED <<phase, boot, mShutdownMode, prompt>>

-----------------------------------------------------------------------------
ShellNext ==
    \/ InitializeStep \/ InitializeFails \/ WaitForNet \/ Second \/ WaitEnds \/ Run
    \/ LoadHello \/ LoadFails \/ HelloEnds
    \/ Prompt \/ ReadLine \/ ReadNothing \/ LineEnds \/ LuaReboots \/ Leave
    \/ CtrlAltDelete \/ KeyboardRemoved

ShellSpec == ShellInit /\ [][ShellNext]_shellVars

-----------------------------------------------------------------------------
(* Properties                                                              *)

InLoop == phase \in {"check", "read", "exec"}

\* Ctrl-Alt-Del at the prompt, or while a line runs, is answered as soon as
\* the line that is typed or running has ended: no second line is read.
OneMoreLine == InLoop => lines <= 1

\* What was pressed before the prompt, while booting or in hello.lua, does not
\* end it: a prompt is left only for a press that came in it.
LeftForPress == [][InLoop /\ phase' = "load" => pressed]_shellVars

\* Why the properties hold: in the loop the mode is "Reboot" if the handler was
\* called there, and a line is counted only between that call and the next look
\* at the mode.
LoopInv ==
    /\ InLoop => /\ mShutdownMode = (IF pressed THEN "Reboot" ELSE "Halt")
                 /\ ~pressed => lines = 0
                 /\ phase = "read" => lines = 0
=============================================================================
