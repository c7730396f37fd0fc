------------------------------ MODULE Startup -------------------------------
(***************************************************************************)
(* spine_run() around the polling: root is given up, the signal handlers   *)
(* are installed, the settings are read, ICMP access is looked at, and     *)
(* after the poll the handlers are removed.                                *)
(*                                                                         *)
(* The settings neither depend on the privileges and signals nor act on    *)
(* them, so a behaviour is about one of the two; a signal that ends the    *)
(* process cuts the reading of the settings short, as Stop does.           *)
(***************************************************************************)
EXTENDS Config, Privileges, Signals

VARIABLE part       \* "settings" or "process"

processVars == <<privilegeVars, signalVars>>
vars == <<part, configVars, processVars>>

\* One state of each variable that the behaviour is not about.
Init ==
    /\ part \in {"settings", "process"}
    /\ ConfigInit /\ PrivilegesInit /\ SignalsInit
    /\ part = "settings" =>
         /\ ~lcap /\ ~dgram_allowed /\ started = "user"
         /\ \A s \in DOMAIN inherited : inherited[s] = "dfl"
    /\ part = "process" =>
         /\ focus = CHOOSE s \in Focus : TRUE
         /\ kinds = CHOOSE group \in Groups : TRUE
         /\ row = Absent

\* drop_privileges() comes first, checkAsRoot() when the handlers are in place.
Privileges ==
    /\ Running
    /\ DropPrivileges \/ (phase = "installed" /\ CheckAsRoot)
    /\ UNCHANGED signalVars

Dispositions ==
    /\ \/ stage = "dropped" /\ Install
       \/ stage = "ready" /\ (Uninstall \/ Exit)
    /\ UNCHANGED privilegeVars

Signalled ==
    /\ stage # "died"
    /\ Handler \/ \E s \in Fatal \cup {"PIPE"} : Arrive(s)
    /\ UNCHANGED privilegeVars

Over == pc \in {"run", "stopped"} \/ stage = "died" \/ ended # "no"
Done == Over /\ UNCHANGED vars

Next ==
    \/ part = "settings" /\ ConfigNext /\ UNCHANGED <<part, processVars>>
    \/ part = "process" /\ Privileges /\ UNCHANGED <<part, configVars>>
    \/ part = "process" /\ Dispositions /\ UNCHANGED <<part, configVars>>
    \/ part = "process" /\ Signalled /\ UNCHANGED <<part, configVars>>
    \/ Done

Spec == Init /\ [][Next]_vars
=============================================================================
