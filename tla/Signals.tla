------------------------------ MODULE Signals -------------------------------
(***************************************************************************)
(* The signal dispositions of the process: install_spine_signal_handler(), *)
(* spine_signal_handler() and uninstall_spine_signal_handler(), with       *)
(* signals arriving between any two changes of a disposition. Where the    *)
(* code asks for a disposition and then changes it, both are one step: a   *)
(* signal in between ends the process or, when the handler is in place,    *)
(* sets the default action that the change would set. The handler runs on  *)
(* whichever thread the kernel picks.                                      *)
(***************************************************************************)
EXTENDS Naturals, Sequences

CONSTANT FatalSignals   \* spine_fatal_signals[]; "SEGV" is the one that exits

\* The table is not empty, and a broken pipe is not fatal.
ASSUME SignalsAssumption ==
    /\ FatalSignals \in Seq(STRING) /\ FatalSignals # <<>>
    /\ \A i \in DOMAIN FatalSignals : FatalSignals[i] \notin {"PIPE", "no", "exit", "exit1"}

Fatal == {FatalSignals[i] : i \in DOMAIN FatalSignals}

VARIABLES
    disp,           \* kernel: "dfl", "ign", "pipe" (spine_sigpipe_handler) or "spine"
    inherited,      \* the dispositions the process was started with
    phase, index,   \* where the main thread is
    ohandler,
    handling,       \* each signal's handler: "no", "entered" or "reset"
    on_main,        \* a handler interrupts the main thread
    ended           \* "no", "exit", "exit1", or the signal that ended the process

signalVars == <<disp, inherited, phase, index, ohandler, handling, on_main, ended>>

SignalsInit ==
    /\ inherited \in [Fatal \cup {"PIPE"} -> {"dfl", "ign"}]
    /\ disp = inherited
    /\ phase = "start" /\ index = 1 /\ ohandler = "dfl"
    /\ handling = [s \in Fatal |-> "no"] /\ on_main = FALSE
    /\ ended = "no"

Running == ended = "no" /\ ~on_main
Signal == FatalSignals[index]
Set(s, handler) == disp' = [disp EXCEPT ![s] = handler]

\* On to the next signal, or to the next loop.
Advance(loop, next) ==
    IF index < Len(FatalSignals)
    THEN phase' = loop /\ index' = index + 1
    ELSE phase' = next /\ index' = 1

-----------------------------------------------------------------------------
(* install_spine_signal_handler() *)

InstallPipe ==
    /\ phase = "start"
    /\ Set("PIPE", "pipe")
    /\ phase' = "first"
    /\ UNCHANGED <<index, ohandler>>

\* sigaction(): where the default action is in place.
InstallFirst ==
    /\ phase = "first"
    /\ IF disp[Signal] = "dfl" THEN Set(Signal, "spine") ELSE UNCHANGED disp
    /\ Advance("first", "second")
    /\ UNCHANGED ohandler

\* signal(): once more for all of them, which may be the wrong one for a moment.
InstallSecond ==
    /\ phase = "second"
    /\ ohandler' = disp[Signal]
    /\ Set(Signal, "spine")
    /\ phase' = "restore"
    /\ UNCHANGED index

InstallRestore ==
    /\ phase = "restore"
    /\ IF ohandler # "dfl" THEN Set(Signal, ohandler) ELSE UNCHANGED disp
    /\ Advance("second", "installed")
    /\ UNCHANGED ohandler

-----------------------------------------------------------------------------
(* uninstall_spine_signal_handler() *)

UninstallPipe ==
    /\ phase = "installed"
    /\ IF disp["PIPE"] = "pipe" THEN Set("PIPE", "dfl") ELSE UNCHANGED disp
    /\ phase' = "remove"
    /\ UNCHANGED <<index, ohandler>>

UninstallFirst ==
    /\ phase = "remove"
    /\ IF disp[Signal] = "spine" THEN Set(Signal, "dfl") ELSE UNCHANGED disp
    /\ Advance("remove", "sweep")
    /\ UNCHANGED ohandler

UninstallSecond ==
    /\ phase = "sweep"
    /\ ohandler' = disp[Signal]
    /\ Set(Signal, "dfl")
    /\ phase' = "putback"
    /\ UNCHANGED index

UninstallRestore ==
    /\ phase = "putback"
    /\ IF ohandler # "spine" THEN Set(Signal, ohandler) ELSE UNCHANGED disp
    /\ Advance("sweep", "uninstalled")
    /\ UNCHANGED ohandler

Install == /\ Running
           /\ InstallPipe \/ InstallFirst \/ InstallSecond \/ InstallRestore
           /\ UNCHANGED <<inherited, handling, on_main, ended>>

Uninstall == /\ Running
             /\ UninstallPipe \/ UninstallFirst \/ UninstallSecond \/ UninstallRestore
             /\ UNCHANGED <<inherited, handling, on_main, ended>>

Exit == /\ Running /\ phase = "uninstalled"
        /\ ended' = "exit"
        /\ UNCHANGED <<disp, inherited, phase, index, ohandler, handling, on_main>>

-----------------------------------------------------------------------------
(* Signals *)

\* Another thread may be running: workers, also those that outlive their deadline.
Workers == phase \notin {"start", "first", "second", "restore"}

\* A signal arrives: it is dropped, ends the process, or enters a handler.
Arrive(s) ==
    /\ ended = "no"
    /\ \/ disp[s] = "dfl" /\ ended' = s /\ UNCHANGED <<handling, on_main>>
       \/ /\ disp[s] = "spine" /\ s \in Fatal /\ handling[s] = "no"
          /\ handling' = [handling EXCEPT ![s] = "entered"]
          /\ on_main' \in IF Workers THEN {on_main, TRUE} ELSE {TRUE}
          /\ UNCHANGED ended
    /\ UNCHANGED <<disp, inherited, phase, index, ohandler>>

\* spine_signal_handler(), up to the message.
Reset(s) ==
    /\ handling[s] = "entered"
    /\ Set(s, "dfl")
    /\ handling' = [handling EXCEPT ![s] = "reset"]
    /\ UNCHANGED <<inherited, phase, index, ohandler, on_main, ended>>

\* Returning without the signal raised again.
Raise_returns(s) ==
    /\ handling[s] = "reset"
    /\ ended' = IF s = "SEGV" THEN "exit1" ELSE "no"
    /\ handling' = [handling EXCEPT ![s] = "no"]
    /\ on_main' = FALSE
    /\ UNCHANGED <<disp, inherited, phase, index, ohandler>>

\* _exit(1), or raise(): the signal stays pending until the handler returns, and
\* then meets whatever disposition is in place.
Raise(s) ==
    /\ handling[s] = "reset"
    /\ ended' = IF s = "SEGV" THEN "exit1" ELSE IF disp[s] = "dfl" THEN s ELSE "no"
    /\ handling' = [handling EXCEPT ![s] = "no"]
    /\ on_main' = FALSE
    /\ UNCHANGED <<disp, inherited, phase, index, ohandler>>

Handler == ended = "no" /\ \E s \in Fatal : Reset(s) \/ Raise(s)

-----------------------------------------------------------------------------
(* Properties *)

\* While Spine polls, a broken pipe never ends it and a signal that was ignored
\* when it started is still ignored, as it is again after the handlers are
\* removed; no signal is left with Spine's handler then.
DispositionsKept ==
    /\ ended = "PIPE" => phase \in {"start", "remove", "sweep", "putback", "uninstalled"}
    /\ phase \in {"installed", "uninstalled"} =>
         \A s \in Fatal : inherited[s] = "ign" => disp[s] = "ign"
    /\ phase = "uninstalled" => "spine" \notin {disp[s] : s \in Fatal}

\* A fatal signal that Spine's handler takes ends the process: the handler never
\* returns to a poller that goes on ("the poller logged FATAL and kept going"
\* before the signal was raised again), whichever thread it runs on and whatever
\* the main thread installs or removes between the reset and the raise(). All
\* other dispositions are kept: no step leaves those of DispositionsKept.
FatalSignalEnds ==
    [][/\ \A s \in Fatal : handling[s] # "no" => handling'[s] # "no" \/ ended' # "no"
       /\ DispositionsKept']_signalVars
=============================================================================
