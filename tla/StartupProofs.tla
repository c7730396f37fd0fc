--------------------------- MODULE StartupProofs ----------------------------
(***************************************************************************)
(* What start-up and end guarantee for any table of fatal signals, any     *)
(* settings and any command line.                                          *)
(***************************************************************************)
EXTENDS Startup, TLAPS

(* Privileges *)

Ids == {"root", "user"}
Capabilities == {"net_raw", "other"}
Credentials == [real : Ids, effective : Ids, saved : Ids, permitted : SUBSET Capabilities,
                usable : SUBSET Capabilities, keep : BOOLEAN]

PrivilegeTypes ==
    /\ lcap \in BOOLEAN /\ dgram_allowed \in BOOLEAN
    /\ started \in {"setuid", "root", "user", "filecap"}
    /\ stage \in {"start", "confirm", "dropped", "ready", "died"}
    /\ cred \in Credentials
    /\ shared \in BOOLEAN /\ icmp_ready \in BOOLEAN
    /\ icmp_avail \in BOOLEAN /\ icmp_uses_caps \in BOOLEAN

\* What is promised about root, and what the pings got, at each stage. Before it is
\* confirmed, a saved id of root is what can be left.
GivenUp == ~HasRoot(cred) => cred.permitted \subseteq {"net_raw"}
PingsReady == icmp_ready => shared \/ "net_raw" \in cred.usable

PrivilegesInv ==
    /\ PrivilegeTypes
    /\ stage = "start" =>
         /\ ~icmp_ready /\ ~shared /\ ~cred.keep
         /\ started = "setuid" => cred.real = "user" /\ cred.effective = "root" /\ cred.saved = "root"
         /\ started = "root" => cred.real = "root" /\ cred.effective = "root" /\ cred.saved = "root"
    /\ stage = "confirm" => started = "setuid" /\ GivenUp /\ PingsReady
    /\ stage \in {"dropped", "ready"} =>
         /\ started = "setuid" => ~HasRoot(cred) /\ cred.permitted \subseteq {"net_raw"}
         /\ started = "root" /\ lcap => cred.permitted \subseteq {"net_raw"}
         /\ PingsReady
    /\ stage = "ready" => (shared => icmp_avail)

-----------------------------------------------------------------------------
(* Signals: the invariant *)

Caught == Fatal \cup {"PIPE"}
Phases == {"start", "first", "second", "restore", "installed",
           "remove", "sweep", "putback", "uninstalled"}
\* install_spine_signal_handler() has not returned, so there is one thread.
Installing == phase \in {"start", "first", "second", "restore"}

SignalTypes ==
    /\ disp \in [Caught -> {"dfl", "ign", "pipe", "spine"}]
    /\ inherited \in [Caught -> {"dfl", "ign"}]
    /\ phase \in Phases /\ index \in 1..Len(FatalSignals)
    /\ ohandler \in {"dfl", "ign", "pipe", "spine"}
    /\ handling \in [Fatal -> {"no", "entered", "reset"}]
    /\ on_main \in BOOLEAN

\* The disposition of each signal next to the one it was inherited with: an ignored
\* one differs only between the two calls that put another one there for a moment.
DispositionsFollow ==
    /\ \A s \in Fatal : inherited[s] = "dfl" => disp[s] \in {"dfl", "spine"}
    /\ \A s \in Fatal : inherited[s] = "ign" =>
         disp[s] = "ign" \/ (phase \in {"restore", "putback"} /\ s = Signal)
    /\ phase \in {"restore", "putback"} =>
         ohandler \in IF inherited[Signal] = "ign" THEN {"ign"} ELSE {"dfl", "spine"}

\* How far the removal is.
Removed ==
    /\ phase = "installed" => index = 1
    /\ phase = "remove" => \A i \in 1..(index - 1) : disp[FatalSignals[i]] # "spine"
    /\ phase \in {"sweep", "putback", "uninstalled"} => \A s \in Fatal : disp[s] # "spine"
    /\ phase = "putback" => ohandler # "spine"

PipeCaught ==
    /\ phase \in {"first", "second", "restore", "installed"} => disp["PIPE"] = "pipe"
    /\ ended = "PIPE" => phase \in {"start", "remove", "sweep", "putback", "uninstalled"}

\* The signals being handled: one that was ignored, or one that came before there
\* were other threads, interrupts the main thread, which then stands still.
HandlersHold ==
    ended = "no" => \A s \in Fatal :
        /\ handling[s] # "no" =>
             /\ inherited[s] = "ign" => on_main /\ phase = "restore" /\ s = Signal
             /\ Installing => on_main
        /\ handling[s] = "reset" => disp[s] = "dfl"

SignalsInv ==
    SignalTypes /\ DispositionsFollow /\ Removed /\ PipeCaught /\ HandlersHold

-----------------------------------------------------------------------------
(* Settings: the invariant *)

\* The settings that have been read from the table when start-up is at pc.
ReadBy(at) ==
    (IF at \in {"ping", "flags", "process", "script", "php", "batch", "interval", "run"}
     THEN LoggingOptions ELSE {})
    \cup (IF at \in {"flags", "process", "script", "php", "batch", "interval", "run"}
          THEN PingOptions ELSE {})
    \cup (IF at \in {"process", "script", "php", "batch", "interval", "run"}
          THEN BoolOptions ELSE {})
    \cup (IF at \in {"script", "php", "batch", "interval"} THEN ProcessOptions
          ELSE IF at = "run" THEN ProcessOptions \ {"poller_interval"} ELSE {})
    \cup (IF at \in {"php", "batch", "interval", "run"} THEN ScriptOptions ELSE {})
    \cup (IF at \in {"interval", "run"} THEN BatchOptions ELSE {})

ConfigTypes ==
    /\ focus \in Settings /\ row \in Texts \cup {Absent}
    /\ opttable \in Seq(Texts)
    /\ set \in [Settings -> Int]
    /\ threads_set \in BOOLEAN /\ typed \in Nat

\* The number of threads: -t before the poller table, and never above the limit.
ThreadsTyped ==
    /\ threads_set => typed > 0 /\ set["threads"] = AtMost(MaxThreads, typed)
    /\ ~threads_set => typed = 0
    /\ set["threads"] <= MaxThreads

ThreadsRead ==
    pc \in {"script", "php", "batch", "interval", "run"} =>
        \/ threads_set \/ Getpsetting("threads") = Absent
        \/ set["threads"] = Value("threads", Getpsetting("threads"))

ConfigInv ==
    /\ ConfigTypes
    /\ \A s \in ReadBy(pc) : set[s] = Value(s, Getsetting(s))
    /\ ThreadsTyped /\ ThreadsRead
    /\ pc = "run" =>
         set["poller_interval"] = Used("poller_interval", Getsetting("poller_interval"))

StartupInv == PrivilegesInv /\ SignalsInv /\ ConfigInv

-----------------------------------------------------------------------------
(* Privileges *)

\* setresuid() and its relatives.
LEMMA SetIdsType ==
    ASSUME NEW c \in Credentials, NEW r \in Ids, NEW e \in Ids, NEW s \in Ids
    PROVE  SetIds(c, r, e, s) \in Credentials
BY ZenonT(60) DEF SetIds, HasRoot, Credentials, Ids

\* drop_root() of a setuid start: no id of root is left, and CAP_NET_RAW if it was
\* to be kept.
LEMMA DropRootUser ==
    ASSUME cred \in Credentials, NEW kept \in BOOLEAN, ~cred.keep,
           cred.real = "user", cred.effective = "root", cred.saved = "root"
    PROVE  /\ DropRoot("user", kept) \in Credentials
           /\ ~HasRoot(DropRoot("user", kept))
           /\ DropRoot("user", kept).permitted \subseteq {"net_raw"}
           /\ kept => DropRoot("user", kept).usable = {"net_raw"}
<1> DEFINE keeping == [cred EXCEPT !.keep = TRUE]
           aside == SetIds(keeping, cred.real, "user", cred.saved)
           narrowed == IF kept
                       THEN [aside EXCEPT !.permitted = {"net_raw"}, !.usable = {"net_raw"}]
                       ELSE [aside EXCEPT !.keep = FALSE]
           new == SetIds(narrowed, "user", "user", "user")
<1>0. "user" \in Ids /\ "root" \in Ids /\ cred.real \in Ids /\ cred.saved \in Ids
  BY DEF Ids
<1>1. keeping \in Credentials /\ keeping.keep
  BY ZenonT(60) DEF Credentials
<1>2. aside \in Credentials /\ aside.saved = "root" /\ aside.effective = "user" /\ aside.keep
  <2> HIDE DEF keeping
  <2>1. aside \in Credentials
    BY <1>0, <1>1, SetIdsType, Zenon
  <2>2. aside.saved = "root" /\ aside.effective = "user" /\ aside.keep = keeping.keep
    BY <1>0, <1>1, ZenonT(60) DEF SetIds, HasRoot, Credentials, Ids
  <2> QED
    BY <1>1, <2>1, <2>2, Zenon
<1>3. narrowed \in Credentials /\ HasRoot(narrowed) /\ narrowed.effective = "user"
  <2> HIDE DEF aside
  <2> QED
    BY <1>2, ZenonT(60) DEF Credentials, HasRoot, Capabilities
<1>4. kept => /\ narrowed.keep
              /\ narrowed.permitted = {"net_raw"} /\ narrowed.usable = {"net_raw"}
  <2> HIDE DEF aside
  <2> QED
    BY <1>2 DEF Credentials, HasRoot, Capabilities
<1>5. ~kept => ~narrowed.keep
  <2> HIDE DEF aside
  <2> QED
    BY <1>2 DEF Credentials, HasRoot, Capabilities
<1>6. new = DropRoot("user", kept)
  BY DEF DropRoot
<1> HIDE DEF narrowed
<1>7. new \in Credentials
  BY <1>0, <1>3, SetIdsType, Zenon
<1>8. new.real = "user" /\ new.effective = "user" /\ new.saved = "user"
  BY <1>3 DEF SetIds, HasRoot, Credentials, Ids
<1>9. kept => new.permitted = {"net_raw"} /\ new.usable = {"net_raw"}
  BY <1>3, <1>4 DEF SetIds, HasRoot, Credentials, Ids
<1>10. ~kept => new.permitted = {}
  BY <1>3, <1>5 DEF SetIds, HasRoot, Credentials, Ids
<1> HIDE DEF new
<1>11. ~HasRoot(new)
  BY <1>8 DEF HasRoot
<1>12. new.permitted \subseteq {"net_raw"}
  BY <1>9, <1>10
<1> QED
  BY <1>6, <1>7, <1>9, <1>11, <1>12, Zenon

\* drop_root() for root itself: only CAP_NET_RAW can be raised again.
LEMMA DropRootRoot ==
    ASSUME cred \in Credentials, ~cred.keep,
           cred.real = "root", cred.effective = "root", cred.saved = "root"
    PROVE  /\ DropRoot("root", TRUE) \in Credentials
           /\ DropRoot("root", TRUE).permitted \subseteq {"net_raw"}
<1> DEFINE keeping == [cred EXCEPT !.keep = TRUE]
           aside == SetIds(keeping, cred.real, "root", cred.saved)
           narrowed == [aside EXCEPT !.permitted = {"net_raw"}, !.usable = {"net_raw"}]
           new == SetIds(narrowed, "root", "root", "root")
<1>0. "root" \in Ids /\ cred.real \in Ids /\ cred.saved \in Ids
  BY DEF Ids
<1>1. keeping \in Credentials
  BY ZenonT(60) DEF Credentials
<1>2. aside \in Credentials
  <2> HIDE DEF keeping
  <2> QED
    BY <1>0, <1>1, SetIdsType, Zenon
<1>3. narrowed \in Credentials /\ narrowed.permitted = {"net_raw"}
  <2> HIDE DEF aside
  <2> QED
    BY <1>2, ZenonT(60) DEF Credentials, Capabilities
<1>4. new = DropRoot("root", TRUE)
  BY DEF DropRoot
<1> HIDE DEF narrowed
<1>5. new \in Credentials
  BY <1>0, <1>3, SetIdsType, Zenon
<1>6. new.permitted = {"net_raw"}
  BY <1>3 DEF SetIds, HasRoot, Credentials, Ids
<1> HIDE DEF new
<1> QED
  BY <1>4, <1>5, <1>6, Zenon


\* drop_privileges() of root and of an ordinary user.
LEMMA KeepRootKeeps == ASSUME PrivilegesInv, KeepRoot PROVE PrivilegesInv'
<1>1. CASE lcap /\ started = "root" /\ cred' = DropRoot("root", TRUE) /\ stage' = "dropped"
           /\ UNCHANGED <<shared, icmp_ready>>
  <2>1. /\ cred \in Credentials /\ ~cred.keep
        /\ cred.real = "root" /\ cred.effective = "root" /\ cred.saved = "root"
    BY <1>1, Zenon DEF PrivilegesInv, PrivilegeTypes, KeepRoot
  <2>2. cred' \in Credentials /\ cred'.permitted \subseteq {"net_raw"}
    BY <1>1, <2>1, DropRootRoot, Zenon
  <2> QED
    BY <1>1, <2>2, Zenon DEF KeepRoot, host, PrivilegesInv, PrivilegeTypes, PingsReady
<1>2. CASE Die
  BY <1>2, Zenon DEF Die, KeepRoot, host, PrivilegesInv, PrivilegeTypes
<1>3. CASE /\ ~lcap \/ started # "root"
           /\ stage' = "dropped" /\ UNCHANGED <<cred, shared, icmp_ready>>
  BY <1>3, Zenon DEF KeepRoot, host, PrivilegesInv, PrivilegeTypes, PingsReady
<1> QED
  BY <1>1, <1>2, <1>3, Zenon DEF KeepRoot

\* drop_privileges() of a setuid start with libcap.
LEMMA DropWithCapsKeeps == ASSUME PrivilegesInv, DropWithCaps PROVE PrivilegesInv'
<1>1. ASSUME NEW kept \in BOOLEAN, cred' = DropRoot("user", kept), icmp_ready' = kept,
             stage' = "confirm", UNCHANGED shared
      PROVE  PrivilegesInv'
  <2>1. /\ cred \in Credentials /\ ~cred.keep
        /\ cred.real = "user" /\ cred.effective = "root" /\ cred.saved = "root"
    BY Zenon DEF PrivilegesInv, PrivilegeTypes, DropWithCaps
  <2>2. /\ cred' \in Credentials /\ ~HasRoot(cred') /\ cred'.permitted \subseteq {"net_raw"}
        /\ kept => cred'.usable = {"net_raw"}
    BY <1>1, <2>1, DropRootUser, Zenon
  <2> QED
    BY <1>1, <2>2, Zenon
    DEF DropWithCaps, host, PrivilegesInv, PrivilegeTypes, PingsReady, GivenUp
<1>2. CASE Die
  BY <1>2, Zenon DEF Die, DropWithCaps, host, PrivilegesInv, PrivilegeTypes
<1> QED
  BY <1>1, <1>2, Zenon DEF DropWithCaps

\* drop_privileges() of a setuid start without it.
LEMMA DropWithSocketKeeps == ASSUME PrivilegesInv, DropWithSocket PROVE PrivilegesInv'
<1>1. ASSUME shared' \in {FALSE, "net_raw" \in cred.usable}, icmp_ready' = shared',
             NEW saved \in {"user", "root"}, cred' = SetIds(cred, "user", "user", saved),
             stage' = "confirm"
      PROVE  PrivilegesInv'
  <2>1. /\ cred \in Credentials /\ ~cred.keep
        /\ cred.real = "user" /\ cred.effective = "root" /\ cred.saved = "root"
    BY Zenon DEF PrivilegesInv, PrivilegeTypes, DropWithSocket
  <2>2. cred' \in Credentials /\ (~HasRoot(cred') => cred'.permitted = {})
    BY <1>1, <2>1, ZenonT(60) DEF SetIds, HasRoot, Credentials, Ids
  <2>3. ("net_raw" \in cred.usable) \in BOOLEAN
    OBVIOUS
  <2>4. shared' \in BOOLEAN
    BY <1>1, <2>3, Zenon
  <2> QED
    BY <1>1, <2>2, <2>4, Zenon
    DEF DropWithSocket, host, PrivilegesInv, PrivilegeTypes, PingsReady, GivenUp
<1>2. CASE Die
  BY <1>2, Zenon DEF Die, DropWithSocket, host, PrivilegesInv, PrivilegeTypes
<1> QED
  BY <1>1, <1>2, Zenon DEF DropWithSocket

\* privileges_dropped(): what it confirms is that no id of root is left.
LEMMA ConfirmKeeps == ASSUME PrivilegesInv, Confirm PROVE PrivilegesInv'
<1>1. CASE PrivilegesDropped /\ stage' = "dropped" /\ UNCHANGED <<cred, shared, icmp_ready>>
  BY <1>1, Zenon
  DEF PrivilegesDropped, RootReachable, Confirm, host, PrivilegesInv, PrivilegeTypes,
      PingsReady, GivenUp
<1>2. CASE Die
  BY <1>2, Zenon DEF Die, Confirm, host, PrivilegesInv, PrivilegeTypes
<1> QED
  BY <1>1, <1>2, Zenon DEF Confirm

\* checkAsRoot() finds the sockets that are open.
LEMMA CheckAsRootKeeps == ASSUME PrivilegesInv, CheckAsRoot PROVE PrivilegesInv'
<1> PICK caps \in HasCaps, probe \in {FALSE, MayOpen} :
      /\ icmp_uses_caps' = caps
      /\ icmp_avail' = (caps \/ shared \/ cred.effective = "root" \/ probe)
  BY Zenon DEF CheckAsRoot
<1>1. caps \in BOOLEAN
  <2>1. ("net_raw" \in cred.usable) \in BOOLEAN
    OBVIOUS
  <2> QED
    BY <2>1, Zenon DEF HasCaps
<1>2. (caps \/ shared \/ cred.effective = "root" \/ probe) \in BOOLEAN
  BY Zenon
<1> QED
  BY <1>1, <1>2, Zenon DEF CheckAsRoot, host, PrivilegesInv, PrivilegeTypes, PingsReady

\* All of it.
LEMMA PrivilegesKeep == ASSUME PrivilegesInv, Privileges PROVE PrivilegesInv'
BY KeepRootKeeps, DropWithCapsKeeps, DropWithSocketKeeps, ConfirmKeeps, CheckAsRootKeeps,
   Zenon DEF Privileges, DropPrivileges

\* The privileges stay while others move.
LEMMA PrivilegesStutter == ASSUME PrivilegesInv, UNCHANGED privilegeVars PROVE PrivilegesInv'
BY ZenonT(60) DEF privilegeVars, PrivilegesInv, PrivilegeTypes, PingsReady, GivenUp, MayOpen

\* The process starts with what it was given.
LEMMA PrivilegesStart == ASSUME PrivilegesInit PROVE PrivilegesInv
<1> DEFINE real == IF started = "root" THEN "root" ELSE "user"
           effective == IF started \in {"setuid", "root"} THEN "root" ELSE "user"
<1>0. PICK caps \in CASE effective = "root" -> {{"net_raw", "other"}, {"other"}}
                      [] started = "filecap" -> {{"net_raw"}}
                      [] OTHER -> {{}} :
        cred = [real |-> real, effective |-> effective, saved |-> effective,
                permitted |-> caps, usable |-> caps, keep |-> FALSE]
  BY Zenon DEF PrivilegesInit
<1>c. caps \in SUBSET Capabilities
  BY SMT DEF Capabilities
<1>1. PrivilegeTypes /\ ~cred.keep
  BY <1>0, <1>c, ZenonT(60) DEF PrivilegesInit, PrivilegeTypes, Credentials, Ids
<1>2. /\ started = "setuid" => cred.real = "user" /\ cred.effective = "root" /\ cred.saved = "root"
      /\ started = "root" => cred.real = "root" /\ cred.effective = "root" /\ cred.saved = "root"
  BY <1>0
<1> QED
  BY <1>1, <1>2 DEF PrivilegesInit, PrivilegesInv

\* The invariant says what is kept.
LEMMA PrivilegesGive == ASSUME PrivilegesInv PROVE OnlyIcmpIsKept
BY Zenon DEF PrivilegesInv, PrivilegeTypes, PingsReady, MayOpen, OnlyIcmpIsKept

-----------------------------------------------------------------------------
(* Signals *)


\* The table of signals names every fatal one, and SIGPIPE is not among them.
LEMMA FatalSignalsNames ==
    /\ "PIPE" \in Caught
    /\ \A s \in Fatal : s \in Caught /\ s \notin {"PIPE", "no", "exit", "exit1"}
    /\ \A i \in 1..Len(FatalSignals) : FatalSignals[i] \in Fatal
    /\ \A s \in Fatal : \E i \in 1..Len(FatalSignals) : s = FatalSignals[i]
    /\ Len(FatalSignals) \in Nat /\ 1 \in 1..Len(FatalSignals)
<1>1. FatalSignals \in Seq(STRING) /\ FatalSignals # <<>>
  BY SignalsAssumption
<1>2. DOMAIN FatalSignals = 1..Len(FatalSignals) /\ Len(FatalSignals) \in Nat
  BY <1>1
<1>3. 1 \in 1..Len(FatalSignals)
  BY <1>1
<1> QED
  BY <1>2, <1>3, SignalsAssumption, Zenon DEF Fatal, Caught

\* The signal at hand.
LEMMA SignalIsFatal == ASSUME SignalTypes PROVE Signal \in Fatal
BY FatalSignalsNames, Zenon DEF SignalTypes, Signal

\* sigaction() and signal() change one disposition.
LEMMA SetEffect ==
    ASSUME SignalTypes, NEW s \in Caught, NEW h \in {"dfl", "ign", "pipe", "spine"}, Set(s, h)
    PROVE  /\ disp' \in [Caught -> {"dfl", "ign", "pipe", "spine"}]
           /\ disp'[s] = h
           /\ \A x \in Caught : x # s => disp'[x] = disp[x]
BY DEF SignalTypes, Set

\* A loop over the table goes on, or ends at its last entry.
LEMMA AdvanceEffect ==
    ASSUME NEW loop, NEW next, index \in 1..Len(FatalSignals), Advance(loop, next)
    PROVE  /\ index' \in 1..Len(FatalSignals)
           /\ \/ phase' = loop /\ index' = index + 1
              \/ phase' = next /\ index = Len(FatalSignals) /\ index' = 1
BY FatalSignalsNames DEF Advance

\* What a step of the main thread finds and leaves alone.
MainSteps == /\ Running /\ UNCHANGED <<inherited, handling, on_main, ended>>

\* Installing the handler of SIGPIPE,
LEMMA InstallPipeKeeps == ASSUME SignalsInv, MainSteps, InstallPipe PROVE SignalsInv'
<1> USE DEF InstallPipe, MainSteps
<1>1. /\ disp' \in [Caught -> {"dfl", "ign", "pipe", "spine"}]
      /\ disp'["PIPE"] = "pipe"
      /\ \A x \in Caught : x # "PIPE" => disp'[x] = disp[x]
  BY FatalSignalsNames, SetEffect, Zenon DEF SignalsInv
<1>2. \A x \in Fatal : disp'[x] = disp[x]
  BY <1>1, FatalSignalsNames, Zenon
<1>3. SignalTypes'
  BY <1>1, Zenon DEF SignalsInv, SignalTypes, Phases
<1>4. DispositionsFollow'
  BY <1>2, Zenon DEF SignalsInv, DispositionsFollow
<1>5. HandlersHold'
  BY <1>2, Zenon DEF SignalsInv, HandlersHold, Installing, Running
<1> QED
  BY <1>1, <1>3, <1>4, <1>5, Zenon DEF SignalsInv, Removed, PipeCaught, Running

\* installing ours over the default actions,
LEMMA InstallFirstKeeps == ASSUME SignalsInv, MainSteps, InstallFirst PROVE SignalsInv'
<1> USE DEF InstallFirst, MainSteps
<1>a. Signal \in Fatal /\ Signal \in Caught /\ Signal # "PIPE"
  BY SignalIsFatal, FatalSignalsNames, Zenon DEF SignalsInv
<1>b. /\ index' \in 1..Len(FatalSignals) /\ phase' \in {"first", "second"}
  BY AdvanceEffect, Zenon DEF SignalsInv, SignalTypes
<1>1. /\ disp' \in [Caught -> {"dfl", "ign", "pipe", "spine"}]
      /\ \A x \in Caught : disp'[x] = disp[x] \/ (disp[x] = "dfl" /\ disp'[x] = "spine" /\ x = Signal)
  <2>1. CASE disp[Signal] = "dfl"
    <3>1. Set(Signal, "spine")
      BY <2>1, Zenon
    <3>2. /\ disp' \in [Caught -> {"dfl", "ign", "pipe", "spine"}]
          /\ disp'[Signal] = "spine"
          /\ \A x \in Caught : x # Signal => disp'[x] = disp[x]
      BY <1>a, <3>1, SetEffect, Zenon DEF SignalsInv
    <3> QED
      BY <2>1, <3>2, Zenon
  <2>2. CASE disp[Signal] # "dfl"
    BY <2>2, Zenon DEF SignalsInv, SignalTypes
  <2> QED
    BY <2>1, <2>2
<1>2. disp'["PIPE"] = disp["PIPE"]
  BY <1>1, <1>a, FatalSignalsNames, Zenon
<1>3. \A s \in Fatal : handling[s] = "no"
  BY Zenon DEF SignalsInv, HandlersHold, Installing, Running
<1>4. SignalTypes'
  BY <1>1, <1>b, Zenon DEF SignalsInv, SignalTypes, Phases
<1>5. DispositionsFollow'
  BY <1>1, <1>b, FatalSignalsNames, Zenon DEF SignalsInv, DispositionsFollow
<1>6. HandlersHold'
  BY <1>3, Zenon DEF HandlersHold
<1> QED
  BY <1>b, <1>2, <1>4, <1>5, <1>6, Zenon DEF SignalsInv, Removed, PipeCaught, Running

\* installing ours over whatever is there,
LEMMA InstallSecondKeeps == ASSUME SignalsInv, MainSteps, InstallSecond PROVE SignalsInv'
<1> USE DEF InstallSecond, MainSteps
<1>a. Signal \in Fatal /\ Signal \in Caught /\ Signal # "PIPE" /\ Signal' = Signal
  BY SignalIsFatal, FatalSignalsNames, Zenon DEF SignalsInv, Signal
<1>1. /\ disp' \in [Caught -> {"dfl", "ign", "pipe", "spine"}]
      /\ disp'[Signal] = "spine"
      /\ \A x \in Caught : x # Signal => disp'[x] = disp[x]
  BY <1>a, SetEffect, Zenon DEF SignalsInv
<1>2. \A s \in Fatal : handling[s] = "no"
  BY Zenon DEF SignalsInv, HandlersHold, Installing, Running
<1>3. disp[Signal] \in {"dfl", "ign", "pipe", "spine"}
  BY <1>a, Zenon DEF SignalsInv, SignalTypes
<1>4. SignalTypes'
  BY <1>1, <1>3, Zenon DEF SignalsInv, SignalTypes, Phases
<1>5. DispositionsFollow'
  <2>1. inherited[Signal] \in {"dfl", "ign"}
    BY <1>a, Zenon DEF SignalsInv, SignalTypes
  <2>2. ohandler' \in IF inherited[Signal] = "ign" THEN {"ign"} ELSE {"dfl", "spine"}
    BY <1>a, <2>1, Zenon DEF SignalsInv, DispositionsFollow
  <2>3. \A x \in Fatal : inherited'[x] = "dfl" => disp'[x] \in {"dfl", "spine"}
    BY <1>1, FatalSignalsNames, Zenon DEF SignalsInv, DispositionsFollow
  <2>4. \A x \in Fatal : inherited'[x] = "ign" => disp'[x] = "ign" \/ x = Signal'
    BY <1>1, <1>a, FatalSignalsNames, Zenon DEF SignalsInv, DispositionsFollow
  <2> QED
    BY <1>a, <2>2, <2>3, <2>4, Zenon DEF DispositionsFollow
<1>6. HandlersHold'
  BY <1>2, Zenon DEF HandlersHold
<1>7. disp'["PIPE"] = disp["PIPE"]
  BY <1>1, <1>a, FatalSignalsNames, Zenon
<1> QED
  BY <1>4, <1>5, <1>6, <1>7, Zenon DEF SignalsInv, Removed, PipeCaught, Running

\* putting back what was not the default,
LEMMA InstallRestoreKeeps == ASSUME SignalsInv, MainSteps, InstallRestore PROVE SignalsInv'
<1> USE DEF InstallRestore, MainSteps
<1>a. Signal \in Fatal /\ Signal \in Caught /\ Signal # "PIPE"
  BY SignalIsFatal, FatalSignalsNames, Zenon DEF SignalsInv
<1>b. /\ index' \in 1..Len(FatalSignals) /\ phase' \in {"second", "installed"}
      /\ phase' = "installed" => index' = 1
  <2>1. /\ index' \in 1..Len(FatalSignals)
        /\ \/ phase' = "second" /\ index' = index + 1
           \/ phase' = "installed" /\ index = Len(FatalSignals) /\ index' = 1
    BY AdvanceEffect, Zenon DEF SignalsInv, SignalTypes
  <2> QED
    BY <2>1, Zenon
<1>c. ohandler \in IF inherited[Signal] = "ign" THEN {"ign"} ELSE {"dfl", "spine"}
  BY Zenon DEF SignalsInv, DispositionsFollow
<1>d. inherited[Signal] \in {"dfl", "ign"}
  BY <1>a, Zenon DEF SignalsInv, SignalTypes
<1>1. /\ disp' \in [Caught -> {"dfl", "ign", "pipe", "spine"}]
      /\ \A x \in Caught : x # Signal => disp'[x] = disp[x]
      /\ inherited[Signal] = "ign" => disp'[Signal] = "ign"
      /\ inherited[Signal] = "dfl" => disp'[Signal] \in {"dfl", "spine"}
  <2>1. CASE ohandler # "dfl"
    <3>1. Set(Signal, ohandler) /\ ohandler \in {"dfl", "ign", "pipe", "spine"}
      BY <2>1, Zenon DEF SignalsInv, SignalTypes
    <3>2. /\ disp' \in [Caught -> {"dfl", "ign", "pipe", "spine"}]
          /\ disp'[Signal] = ohandler
          /\ \A x \in Caught : x # Signal => disp'[x] = disp[x]
      BY <1>a, <3>1, SetEffect, Zenon DEF SignalsInv
    <3> QED
      BY <1>c, <3>2, Zenon
  <2>2. CASE ohandler = "dfl"
    BY <1>a, <1>c, <2>2, Zenon DEF SignalsInv, SignalTypes, DispositionsFollow
  <2> QED
    BY <2>1, <2>2
<1>2. \A s \in Fatal : handling[s] = "no"
  BY Zenon DEF SignalsInv, HandlersHold, Installing, Running
<1>4. SignalTypes'
  BY <1>1, <1>b, Zenon DEF SignalsInv, SignalTypes, Phases
<1>5. DispositionsFollow'
  <2>1. \A x \in Fatal : inherited'[x] = "dfl" => disp'[x] \in {"dfl", "spine"}
    BY <1>1, FatalSignalsNames, Zenon DEF SignalsInv, DispositionsFollow
  <2>2. \A x \in Fatal : inherited'[x] = "ign" => disp'[x] = "ign"
    BY <1>1, FatalSignalsNames, Zenon DEF SignalsInv, DispositionsFollow
  <2> QED
    BY <1>b, <2>1, <2>2, Zenon DEF DispositionsFollow
<1>6. HandlersHold'
  BY <1>2, Zenon DEF HandlersHold
<1>7. disp'["PIPE"] = disp["PIPE"]
  BY <1>1, <1>a, FatalSignalsNames, Zenon
<1> QED
  BY <1>b, <1>4, <1>5, <1>6, <1>7, Zenon DEF SignalsInv, Removed, PipeCaught, Running

\* and removing the handler of SIGPIPE keep the invariant.
LEMMA UninstallPipeKeeps == ASSUME SignalsInv, MainSteps, UninstallPipe PROVE SignalsInv'
<1> USE DEF UninstallPipe, MainSteps
<1>1. /\ disp' \in [Caught -> {"dfl", "ign", "pipe", "spine"}]
      /\ \A x \in Caught : x # "PIPE" => disp'[x] = disp[x]
  <2>1. CASE disp["PIPE"] = "pipe"
    BY <2>1, FatalSignalsNames, SetEffect, Zenon DEF SignalsInv
  <2>2. CASE disp["PIPE"] # "pipe"
    BY <2>2, Zenon DEF SignalsInv, SignalTypes
  <2> QED
    BY <2>1, <2>2
<1>2. \A x \in Fatal : disp'[x] = disp[x]
  BY <1>1, FatalSignalsNames, Zenon
<1>3. SignalTypes'
  BY <1>1, Zenon DEF SignalsInv, SignalTypes, Phases
<1>4. DispositionsFollow'
  BY <1>2, Zenon DEF SignalsInv, DispositionsFollow
<1>5. HandlersHold'
  BY <1>2, Zenon DEF SignalsInv, HandlersHold, Installing, Running
<1>6. Removed'
  <2>1. index = 1
    BY Zenon DEF SignalsInv, Removed
  <2>2. 1..(index - 1) = {}
    BY <2>1
  <2> QED
    BY <2>2, Zenon DEF Removed
<1> QED
  BY <1>3, <1>4, <1>5, <1>6, Zenon DEF SignalsInv, PipeCaught

\* Every signal below the index has been looked at.
LEMMA UninstallFirstKeeps == ASSUME SignalsInv, MainSteps, UninstallFirst PROVE SignalsInv'
<1> USE DEF UninstallFirst, MainSteps
<1>a. Signal \in Fatal /\ Signal \in Caught /\ Signal # "PIPE"
  BY SignalIsFatal, FatalSignalsNames, Zenon DEF SignalsInv
<1>b. /\ index' \in 1..Len(FatalSignals)
      /\ \/ phase' = "remove" /\ index' = index + 1
         \/ phase' = "sweep" /\ index = Len(FatalSignals)
  BY AdvanceEffect, Zenon DEF SignalsInv, SignalTypes
<1>1. /\ disp' \in [Caught -> {"dfl", "ign", "pipe", "spine"}]
      /\ \A x \in Caught : disp'[x] = disp[x] \/ (disp[x] = "spine" /\ disp'[x] = "dfl" /\ x = Signal)
      /\ disp'[Signal] # "spine"
  <2>1. CASE disp[Signal] = "spine"
    <3>1. Set(Signal, "dfl")
      BY <2>1, Zenon
    <3>2. /\ disp' \in [Caught -> {"dfl", "ign", "pipe", "spine"}]
          /\ disp'[Signal] = "dfl"
          /\ \A x \in Caught : x # Signal => disp'[x] = disp[x]
      BY <1>a, <3>1, SetEffect, Zenon DEF SignalsInv
    <3> QED
      BY <2>1, <3>2, Zenon
  <2>2. CASE disp[Signal] # "spine"
    BY <2>2, Zenon DEF SignalsInv, SignalTypes
  <2> QED
    BY <2>1, <2>2
<1>3. Removed'
  <2>1. \A i \in 1..index : disp'[FatalSignals[i]] # "spine"
    <3>1. SUFFICES ASSUME NEW i \in 1..index PROVE disp'[FatalSignals[i]] # "spine"
      OBVIOUS
    <3>2. i \in 1..(index - 1) \/ i = index
      BY DEF SignalsInv, SignalTypes
    <3>3. i \in 1..Len(FatalSignals)
      BY DEF SignalsInv, SignalTypes
    <3>4. FatalSignals[i] \in Caught
      BY <3>3, FatalSignalsNames, Zenon
    <3>5. CASE i \in 1..(index - 1)
      <4>1. disp[FatalSignals[i]] # "spine"
        BY <3>5, Zenon DEF SignalsInv, Removed
      <4> QED
        BY <1>1, <3>4, <4>1, Zenon
    <3>6. CASE i = index
      BY <1>1, <3>6, Zenon DEF Signal
    <3> QED
      BY <3>2, <3>5, <3>6
  <2>2. CASE phase' = "remove" /\ index' = index + 1
    <3>1. index' - 1 = index
      BY <2>2 DEF SignalsInv, SignalTypes
    <3> QED
      BY <2>1, <2>2, <3>1, Zenon DEF Removed
  <2>3. CASE phase' = "sweep" /\ index = Len(FatalSignals)
    <3>1. \A s \in Fatal : disp'[s] # "spine"
      BY <2>1, <2>3, FatalSignalsNames, ZenonT(60)
    <3> QED
      BY <2>3, <3>1, Zenon DEF Removed
  <2> QED
    BY <1>b, <2>2, <2>3
<1>4. SignalTypes'
  BY <1>1, <1>b, Zenon DEF SignalsInv, SignalTypes, Phases
<1>5. DispositionsFollow'
  <2>1. \A x \in Fatal : inherited'[x] = "dfl" => disp'[x] \in {"dfl", "spine"}
    BY <1>1, FatalSignalsNames, Zenon DEF SignalsInv, DispositionsFollow
  <2>2. \A x \in Fatal : inherited'[x] = "ign" => disp'[x] = "ign"
    BY <1>1, FatalSignalsNames, Zenon DEF SignalsInv, DispositionsFollow
  <2> QED
    BY <1>b, <2>1, <2>2, Zenon DEF DispositionsFollow
<1>6. HandlersHold'
  <2>1. \A x \in Fatal : disp[x] = "dfl" => disp'[x] = "dfl"
    BY <1>1, FatalSignalsNames, Zenon
  <2> QED
    BY <1>b, <2>1, Zenon DEF SignalsInv, HandlersHold, Installing, Running
<1> QED
  BY <1>b, <1>3, <1>4, <1>5, <1>6, Zenon DEF SignalsInv, PipeCaught, Running

\* The default action is set for every signal, and what was there is kept aside.
LEMMA UninstallSecondKeeps == ASSUME SignalsInv, MainSteps, UninstallSecond PROVE SignalsInv'
<1> USE DEF UninstallSecond, MainSteps
<1>a. Signal \in Fatal /\ Signal \in Caught /\ Signal # "PIPE" /\ Signal' = Signal
  BY SignalIsFatal, FatalSignalsNames, Zenon DEF SignalsInv, Signal
<1>1. /\ disp' \in [Caught -> {"dfl", "ign", "pipe", "spine"}]
      /\ disp'[Signal] = "dfl"
      /\ \A x \in Caught : x # Signal => disp'[x] = disp[x]
  BY <1>a, SetEffect, Zenon DEF SignalsInv
<1>3. disp[Signal] \in {"dfl", "ign", "pipe", "spine"} /\ disp[Signal] # "spine"
  BY <1>a, Zenon DEF SignalsInv, SignalTypes, Removed
<1>4. SignalTypes'
  BY <1>1, <1>3, Zenon DEF SignalsInv, SignalTypes, Phases
<1>5. DispositionsFollow'
  <2>1. inherited[Signal] \in {"dfl", "ign"}
    BY <1>a, Zenon DEF SignalsInv, SignalTypes
  <2>2. ohandler' \in IF inherited[Signal] = "ign" THEN {"ign"} ELSE {"dfl", "spine"}
    BY <1>a, <2>1, Zenon DEF SignalsInv, DispositionsFollow
  <2>3. \A x \in Fatal : inherited'[x] = "dfl" => disp'[x] \in {"dfl", "spine"}
    BY <1>1, FatalSignalsNames, Zenon DEF SignalsInv, DispositionsFollow
  <2>4. \A x \in Fatal : inherited'[x] = "ign" => disp'[x] = "ign" \/ x = Signal'
    BY <1>1, <1>a, FatalSignalsNames, Zenon DEF SignalsInv, DispositionsFollow
  <2> QED
    BY <1>a, <2>2, <2>3, <2>4, Zenon DEF DispositionsFollow
<1>6. HandlersHold'
  <2>1. \A x \in Fatal : disp[x] = "dfl" => disp'[x] = "dfl"
    BY <1>1, FatalSignalsNames, Zenon
  <2> QED
    BY <2>1, Zenon DEF SignalsInv, HandlersHold, Installing, Running
<1>7. Removed'
  <2>1. \A x \in Fatal : disp'[x] # "spine"
    BY <1>1, FatalSignalsNames, Zenon DEF SignalsInv, Removed
  <2> QED
    BY <1>3, <2>1, Zenon DEF Removed
<1> QED
  BY <1>4, <1>5, <1>6, <1>7, Zenon DEF SignalsInv, PipeCaught, Running

\* A signal that is still being handled was not ignored, so the default action is
\* what is put back.
LEMMA UninstallRestoreKeeps == ASSUME SignalsInv, MainSteps, UninstallRestore PROVE SignalsInv'
<1> USE DEF UninstallRestore, MainSteps
<1>a. Signal \in Fatal /\ Signal \in Caught /\ Signal # "PIPE"
  BY SignalIsFatal, FatalSignalsNames, Zenon DEF SignalsInv
<1>b. /\ index' \in 1..Len(FatalSignals) /\ phase' \in {"sweep", "uninstalled"}
  BY AdvanceEffect, Zenon DEF SignalsInv, SignalTypes
<1>c. /\ ohandler \in {"dfl", "ign", "pipe", "spine"} /\ ohandler # "spine"
      /\ ohandler = inherited[Signal]
  <2>1. inherited[Signal] \in {"dfl", "ign"}
    BY <1>a, Zenon DEF SignalsInv, SignalTypes
  <2>2. ohandler \in IF inherited[Signal] = "ign" THEN {"ign"} ELSE {"dfl", "spine"}
    BY Zenon DEF SignalsInv, DispositionsFollow
  <2> QED
    BY <2>1, <2>2, Zenon DEF SignalsInv, SignalTypes, Removed
<1>1. /\ disp' \in [Caught -> {"dfl", "ign", "pipe", "spine"}]
      /\ disp'[Signal] = inherited[Signal]
      /\ \A x \in Caught : x # Signal => disp'[x] = disp[x]
  BY <1>a, <1>c, SetEffect, Zenon DEF SignalsInv
<1>4. SignalTypes'
  BY <1>1, <1>b, Zenon DEF SignalsInv, SignalTypes, Phases
<1>5. DispositionsFollow'
  <2>1. \A x \in Fatal : inherited'[x] = "dfl" => disp'[x] \in {"dfl", "spine"}
    BY <1>1, FatalSignalsNames, Zenon DEF SignalsInv, DispositionsFollow
  <2>2. \A x \in Fatal : inherited'[x] = "ign" => disp'[x] = "ign"
    BY <1>1, FatalSignalsNames, Zenon DEF SignalsInv, DispositionsFollow
  <2> QED
    BY <1>b, <2>1, <2>2, Zenon DEF DispositionsFollow
<1>6. HandlersHold'
  <2>1. \A x \in Fatal : handling[x] # "no" => inherited[x] # "ign"
    BY Zenon DEF SignalsInv, HandlersHold, Running
  <2>2. \A x \in Fatal : inherited[x] \in {"dfl", "ign"}
    BY FatalSignalsNames, Zenon DEF SignalsInv, SignalTypes
  <2>3. \A x \in Fatal : handling[x] = "reset" => disp'[x] = "dfl"
    <3>1. SUFFICES ASSUME NEW x \in Fatal, handling[x] = "reset" PROVE disp'[x] = "dfl"
      BY Zenon
    <3>2. inherited[x] = "dfl" /\ disp[x] = "dfl"
      BY <3>1, <2>1, <2>2, Zenon DEF SignalsInv, HandlersHold, Running
    <3> QED
      BY <1>1, <3>2, FatalSignalsNames, Zenon
  <2> QED
    BY <1>b, <2>1, <2>3, Zenon DEF HandlersHold, Installing
<1>7. Removed'
  <2>1. \A x \in Fatal : disp'[x] # "spine"
    BY <1>1, <1>c, FatalSignalsNames, Zenon DEF SignalsInv, Removed
  <2> QED
    BY <1>b, <2>1, Zenon DEF Removed
<1> QED
  BY <1>b, <1>4, <1>5, <1>6, <1>7, Zenon DEF SignalsInv, PipeCaught, Running

\* The steps of the main thread, by loop.
LEMMA MainKeeps ==
    ASSUME SignalsInv, Install \/ Uninstall \/ Exit
    PROVE  SignalsInv' /\ handling' = handling
<1>1. CASE Install
  BY <1>1, InstallPipeKeeps, InstallFirstKeeps, InstallSecondKeeps, InstallRestoreKeeps, Zenon
  DEF Install, MainSteps
<1>2. CASE Uninstall
  BY <1>2, UninstallPipeKeeps, UninstallFirstKeeps, UninstallSecondKeeps,
     UninstallRestoreKeeps, Zenon DEF Uninstall, MainSteps
<1>3. CASE Exit
  BY <1>3, Zenon
  DEF Exit, SignalsInv, SignalTypes, DispositionsFollow, Removed, PipeCaught, HandlersHold,
      Signal
<1> QED
  BY <1>1, <1>2, <1>3

\* A signal arrives. A handler is entered for an ignored signal only at the moment
\* another handler is in place, and then it interrupts the main thread.
LEMMA ArriveKeeps ==
    ASSUME SignalsInv, NEW s \in Caught, Arrive(s)
    PROVE  SignalsInv' /\ \A x \in Fatal : handling[x] # "no" => handling'[x] # "no"
<1> USE DEF Arrive
<1>1. CASE disp[s] = "dfl" /\ ended' = s /\ UNCHANGED <<handling, on_main>>
  <2>1. SignalTypes' /\ DispositionsFollow' /\ Removed'
    BY <1>1, Zenon DEF SignalsInv, SignalTypes, DispositionsFollow, Removed, Signal
  <2>2. s # "no"
    BY FatalSignalsNames, Zenon DEF Caught
  <2>3. HandlersHold'
    BY <1>1, <2>2, Zenon DEF HandlersHold
  <2>4. PipeCaught'
    BY <1>1, Zenon DEF SignalsInv, SignalTypes, Phases, PipeCaught
  <2> QED
    BY <1>1, <2>1, <2>3, <2>4, Zenon DEF SignalsInv
<1>2. CASE /\ disp[s] = "spine" /\ s \in Fatal /\ handling[s] = "no"
           /\ handling' = [handling EXCEPT ![s] = "entered"]
           /\ on_main' \in IF Workers THEN {on_main, TRUE} ELSE {TRUE}
           /\ UNCHANGED ended
  <2>1. /\ handling' \in [Fatal -> {"no", "entered", "reset"}]
        /\ handling'[s] = "entered" /\ \A x \in Fatal : x # s => handling'[x] = handling[x]
    BY <1>2, Zenon DEF SignalsInv, SignalTypes
  <2>2. on_main' \in BOOLEAN /\ (on_main => on_main') /\ (Installing => on_main')
    BY <1>2, Zenon DEF SignalsInv, SignalTypes, Workers, Installing
  <2>3. SignalTypes' /\ DispositionsFollow' /\ Removed' /\ PipeCaught'
    BY <1>2, <2>1, <2>2, Zenon
    DEF SignalsInv, SignalTypes, DispositionsFollow, Removed, PipeCaught, Signal
  <2>4. inherited[s] = "ign" => phase = "restore" /\ s = Signal
    BY <1>2, Zenon DEF SignalsInv, DispositionsFollow, Removed
  <2>5. HandlersHold'
    <3>1. SUFFICES ASSUME ended = "no", NEW x \in Fatal
                   PROVE  /\ handling'[x] # "no" =>
                               /\ inherited[x] = "ign" => on_main' /\ phase = "restore" /\ x = Signal
                               /\ Installing => on_main'
                          /\ handling'[x] = "reset" => disp[x] = "dfl"
      BY <1>2, Zenon DEF HandlersHold, Installing, Signal
    <3>2. CASE x = s
      BY <2>1, <2>2, <2>4, <3>2, Zenon DEF Installing
    <3>3. CASE x # s
      BY <2>1, <2>2, <3>1, <3>3, Zenon DEF SignalsInv, HandlersHold
    <3> QED
      BY <3>2, <3>3
  <2> QED
    BY <2>1, <2>3, <2>5, Zenon DEF SignalsInv
<1> QED
  BY <1>1, <1>2, Zenon

\* spine_signal_handler() puts the default action back.
LEMMA ResetKeeps ==
    ASSUME SignalsInv, ended = "no", NEW s \in Fatal, Reset(s)
    PROVE  SignalsInv' /\ \A x \in Fatal : handling[x] # "no" => handling'[x] # "no"
<1> USE DEF Reset
<1>a. s \in Caught /\ s # "PIPE"
  BY FatalSignalsNames, Zenon
<1>1. /\ disp' \in [Caught -> {"dfl", "ign", "pipe", "spine"}]
      /\ disp'[s] = "dfl" /\ \A x \in Caught : x # s => disp'[x] = disp[x]
  BY <1>a, SetEffect, Zenon DEF SignalsInv
<1>2. /\ handling' \in [Fatal -> {"no", "entered", "reset"}]
      /\ handling'[s] = "reset" /\ \A x \in Fatal : x # s => handling'[x] = handling[x]
  BY Zenon DEF SignalsInv, SignalTypes
<1>3. SignalTypes'
  BY <1>1, <1>2, Zenon DEF SignalsInv, SignalTypes
<1>4. inherited[s] = "ign" => on_main /\ phase = "restore" /\ s = Signal
  BY Zenon DEF SignalsInv, HandlersHold
<1>5. DispositionsFollow'
  <2>1. \A x \in Fatal : inherited[x] = "dfl" => disp'[x] \in {"dfl", "spine"}
    BY <1>1, FatalSignalsNames, Zenon DEF SignalsInv, DispositionsFollow
  <2>2. \A x \in Fatal : inherited[x] = "ign" =>
          disp'[x] = "ign" \/ (phase \in {"restore", "putback"} /\ x = Signal)
    BY <1>1, <1>4, FatalSignalsNames, Zenon DEF SignalsInv, DispositionsFollow
  <2> QED
    BY <2>1, <2>2, Zenon DEF SignalsInv, DispositionsFollow, Signal
<1>6. Removed'
  <2>1. \A x \in Caught : disp[x] # "spine" => disp'[x] # "spine"
    BY <1>1, Zenon
  <2>2. index \in 1..Len(FatalSignals)
    BY DEF SignalsInv, SignalTypes
  <2>3. \A i \in 1..(index - 1) : i \in 1..Len(FatalSignals)
    BY <2>2, FatalSignalsNames
  <2>4. \A i \in 1..(index - 1) : FatalSignals[i] \in Caught
    BY <2>3, FatalSignalsNames, Zenon
  <2> QED
    BY <2>1, <2>4, FatalSignalsNames, Zenon DEF SignalsInv, Removed
<1>7. PipeCaught'
  BY <1>1, <1>a, FatalSignalsNames, Zenon DEF SignalsInv, PipeCaught
<1>8. HandlersHold'
  <2>1. SUFFICES ASSUME NEW x \in Fatal
                 PROVE  /\ handling'[x] # "no" =>
                             /\ inherited[x] = "ign" => on_main /\ phase = "restore" /\ x = Signal
                             /\ Installing => on_main
                        /\ handling'[x] = "reset" => disp'[x] = "dfl"
    BY Zenon DEF HandlersHold, Installing, Signal
  <2>2. CASE x = s
    BY <1>1, <1>2, <1>4, <2>2, Zenon DEF SignalsInv, HandlersHold
  <2>3. CASE x # s
    <3>1. x \in Caught
      BY FatalSignalsNames, Zenon
    <3> QED
      BY <1>1, <1>2, <2>3, <3>1, Zenon DEF SignalsInv, HandlersHold
  <2> QED
    BY <2>2, <2>3
<1> QED
  BY <1>2, <1>3, <1>5, <1>6, <1>7, <1>8, Zenon DEF SignalsInv

\* raise() finds the default action, whatever the main thread did since: the
\* process ends.
LEMMA RaiseKeeps ==
    ASSUME SignalsInv, ended = "no", NEW s \in Fatal, Raise(s)
    PROVE  SignalsInv' /\ ended' # "no"
<1> USE DEF Raise
<1>1. ended' = "exit1" \/ ended' = s
  BY Zenon DEF SignalsInv, HandlersHold
<1>2. ended' # "no" /\ ended' # "PIPE"
  BY <1>1, FatalSignalsNames, Zenon
<1>3. SignalTypes'
  BY Zenon DEF SignalsInv, SignalTypes
<1>4. DispositionsFollow' /\ Removed' /\ PipeCaught' /\ HandlersHold'
  BY <1>2, Zenon
  DEF SignalsInv, DispositionsFollow, Removed, PipeCaught, HandlersHold, Signal
<1> QED
  BY <1>2, <1>3, <1>4, Zenon DEF SignalsInv

\* The handlers stay while others move.
LEMMA SignalsStutter == ASSUME SignalsInv, UNCHANGED signalVars PROVE SignalsInv'
BY ZenonT(60)
DEF signalVars, SignalsInv, SignalTypes, DispositionsFollow, Removed, PipeCaught,
    HandlersHold, Installing, Signal

\* No handler is installed at the start.
LEMMA SignalsStart == ASSUME SignalsInit PROVE SignalsInv
<1>1. SignalTypes
  BY FatalSignalsNames, Zenon DEF SignalsInit, SignalTypes, Caught, Phases
<1>2. \A s \in Fatal : disp[s] = inherited[s] /\ handling[s] = "no"
  BY Zenon DEF SignalsInit
<1> QED
  BY <1>1, <1>2, Zenon
  DEF SignalsInit, SignalsInv, DispositionsFollow, Removed, PipeCaught, HandlersHold

\* The invariant says which dispositions are kept.
LEMMA SignalsGive == ASSUME SignalsInv PROVE DispositionsKept
<1>1. phase = "uninstalled" => "spine" \notin {disp[s] : s \in Fatal}
  BY Zenon DEF SignalsInv, Removed
<1> QED
  BY <1>1, Zenon DEF SignalsInv, DispositionsFollow, PipeCaught, DispositionsKept

-----------------------------------------------------------------------------
(* Settings *)

\* Every name the code looks up is a setting.
LEMMA SettingNames ==
    /\ "threads" \in Settings /\ "log_destination" \in Settings
    /\ "poller_interval" \in Settings /\ "php_servers" \in Settings
    /\ LoggingOptions \subseteq Settings /\ PingOptions \subseteq Settings
    /\ BoolOptions \subseteq Settings /\ ProcessOptions \subseteq Settings
    /\ ScriptOptions \subseteq Settings /\ BatchOptions \subseteq Settings
BY Zenon DEF Settings, LoggingOptions, ProcessOptions, ScriptOptions

\* The groups leave no setting out, and the threads are in none of them.
LEMMA SettingGroups ==
    /\ \A s \in Settings : s = "threads" \/ s \in LoggingOptions \cup PingOptions \cup BoolOptions
                             \cup ProcessOptions \cup ScriptOptions \cup BatchOptions
    /\ "threads" \notin LoggingOptions \cup PingOptions \cup BoolOptions
                             \cup ProcessOptions \cup ScriptOptions \cup BatchOptions
BY Zenon DEF Settings, LoggingOptions, PingOptions, BoolOptions, ProcessOptions,
             ScriptOptions, BatchOptions

\* A text has a number, and is not absent.
LEMMA TextFacts ==
    /\ \A t \in Texts : t.num \in Int /\ t # Absent
    /\ Blank \in Texts
<1>1. Blank \in Texts
  BY Zenon DEF Texts
<1>2. ASSUME NEW t \in Texts PROVE t.num \in Int /\ t # Absent
  <2>1. CASE t = Blank
    BY <2>1 DEF Blank, Word, Absent
  <2>2. ASSUME NEW n \in Numbers \union {-1}, t = Numeral(n) PROVE t.num \in Int /\ t # Absent
    <3>1. n \in Int
      BY ConfigAssumption
    <3>2. t.num = n /\ t.word = ""
      BY <2>2, ZenonT(60) DEF Numeral
    <3>3. Absent.word = "absent" /\ "absent" # ""
      BY DEF Absent, Word
    <3> QED
      BY <3>1, <3>2, <3>3, Zenon
  <2>3. ASSUME NEW w \in Words, t = Word(w) PROVE t.num \in Int /\ t # Absent
    <3>1. w # "absent"
      BY ConfigAssumption
    <3> QED
      BY <2>3, <3>1 DEF Word, Absent
  <2> QED
    BY <2>1, <2>2, <2>3, Zenon DEF Texts
<1> QED
  BY <1>1, <1>2

\* The value of a setting is a number.
LEMMA ValueType == ASSUME NEW s \in Settings, NEW t \in Texts PROVE Value(s, t) \in Int
<1>1. t.num \in Int
  BY TextFacts, Zenon
<1>2. Keyword(LogDestinations, t, LogDestinations.FILE) \in Int
  <2>1. DOMAIN LogDestinations = {"FILE", "BOTH", "SYSLOG", "STDOUT"}
    BY DEF LogDestinations
  <2>2. /\ LogDestinations["FILE"] = 1 /\ LogDestinations["BOTH"] = 2
        /\ LogDestinations["SYSLOG"] = 3 /\ LogDestinations["STDOUT"] = 4
    BY DEF LogDestinations
  <2>3. \A w \in DOMAIN LogDestinations : LogDestinations[w] \in Int
    BY <2>1, <2>2
  <2>4. LogDestinations.FILE \in Int
    BY <2>2
  <2> QED
    BY <1>1, <2>3, <2>4, Zenon DEF Keyword
<1>3. Defaults["log_verbosity"] \in Int
  BY SettingNames DEF Defaults, LogLevels, Settings, LoggingOptions
<1> QED
  BY <1>1, <1>2, <1>3 DEF Value, Atoi, Within, AtMost, AtLeast, MaxThreads, MaxPhpServers

\* getsetting() returns a text,
LEMMA GetsettingType == ASSUME ConfigTypes, NEW s PROVE Getsetting(s) \in Texts
<1>1. opttable # <<>> => Head(opttable) \in Texts
  BY DEF ConfigTypes
<1> QED
  BY <1>1, TextFacts, Zenon DEF ConfigTypes, Getsetting, Stored

\* and getpsetting() a text or NULL.
LEMMA GetpsettingType ==
    ASSUME ConfigTypes, NEW s PROVE Getpsetting(s) \in Texts \cup {Absent}
<1>1. opttable # <<>> => Head(opttable) \in Texts
  BY DEF ConfigTypes
<1> QED
  BY <1>1, Zenon DEF ConfigTypes, Getpsetting, Stored

\* The settings read with one group.
LEMMA ReadType ==
    ASSUME ConfigTypes, NEW options \in SUBSET Settings
    PROVE  /\ Read(options) \in [Settings -> Int]
           /\ \A s \in options : Read(options)[s] = Value(s, Getsetting(s))
           /\ \A s \in Settings : s \notin options => Read(options)[s] = set[s]
<1>1. \A s \in Settings : Value(s, Getsetting(s)) \in Int /\ set[s] \in Int
  BY ValueType, GetsettingType, Zenon DEF ConfigTypes
<1> QED
  BY <1>1, Zenon DEF Read

\* While the command line and the configuration file are read, there is nothing to
\* hold yet but the types and the threads.
LEMMA EarlyHolds ==
    ASSUME ConfigTypes, ThreadsTyped,
           pc \in {"args", "file", "cache", "logging", "stopped"}
    PROVE  ConfigInv
<1>1. ReadBy(pc) = {}
  BY Zenon DEF ReadBy
<1> QED
  BY <1>1, Zenon DEF ConfigInv, ThreadsRead

\* Nothing is read at the start.
LEMMA ConfigStart == ASSUME ConfigInit PROVE ConfigInv
<1>1. Defaults \in [Settings -> Int] /\ Defaults["threads"] = 5
  BY SettingNames
  DEF Defaults, LogLevels, LogDestinations, DefaultThreads
<1>2. ConfigTypes
  <2>1. <<>> \in Seq(Texts) /\ 0 \in Nat
    OBVIOUS
  <2> QED
    BY <1>1, <2>1, ConfigAssumption, Zenon DEF ConfigInit, ConfigTypes
<1>3. ThreadsTyped
  BY <1>1 DEF ConfigInit, ThreadsTyped, MaxThreads
<1> QED
  BY <1>2, <1>3, EarlyHolds, Zenon DEF ConfigInit

\* Before the settings are read there is little to keep.
LEMMA EarlyHoldsNext ==
    ASSUME ConfigTypes', ThreadsTyped',
           pc' \in {"args", "file", "cache", "logging", "stopped"}
    PROVE  ConfigInv'
<1>1. ReadBy(pc)' = {}
  BY Zenon DEF ReadBy
<1> QED
  BY <1>1, Zenon DEF ConfigInv, ThreadsRead

\* An argument that is neither -t nor -O.
LEMMA OtherArgKeeps ==
    ASSUME ConfigInv, UNCHANGED <<focus, row, opttable, set, threads_set, typed>>,
           pc' \in {"args", "file", "cache", "logging", "stopped"}
    PROVE  ConfigInv'
BY EarlyHoldsNext, Zenon DEF ConfigInv, ConfigTypes, ThreadsTyped

\* --threads keeps the invariant,
LEMMA ArgThreadsKeeps ==
    ASSUME ConfigInv, NEW n \in Numbers, ArgThreads(n) PROVE ConfigInv'
<1>1. CASE Stop
  BY <1>1, OtherArgKeeps, Zenon DEF Stop, ArgThreads, Reading, world
<1>2. CASE /\ n >= 1 /\ set' = [set EXCEPT !["threads"] = AtMost(MaxThreads, n)]
           /\ threads_set' = TRUE /\ typed' = n /\ UNCHANGED <<pc, opttable, hosts, poller>>
  <2>1. n \in Nat
    BY ConfigAssumption
  <2>2. AtMost(MaxThreads, n) \in Int /\ AtMost(MaxThreads, n) <= MaxThreads
    BY <2>1 DEF AtMost, MaxThreads
  <2>3. /\ set' \in [Settings -> Int] /\ set'["threads"] = AtMost(MaxThreads, n)
    BY <1>2, <2>2, SettingNames, Zenon DEF ConfigInv, ConfigTypes
  <2>4. ConfigTypes'
    BY <1>2, <2>1, <2>3, Zenon
    DEF ConfigInv, ConfigTypes, ArgThreads, Reading, world
  <2>5. ThreadsTyped'
    BY <1>2, <2>1, <2>2, <2>3 DEF ThreadsTyped
  <2> QED
    BY <1>2, <2>4, <2>5, EarlyHoldsNext, Zenon DEF ArgThreads, Reading
<1> QED
  BY <1>1, <1>2, Zenon DEF ArgThreads

\* and so does --option.
LEMMA ArgOptionKeeps ==
    ASSUME ConfigInv, NEW t \in Texts, ArgOption(t) PROVE ConfigInv'
<1>1. CASE Stop
  BY <1>1, OtherArgKeeps, Zenon DEF Stop, ArgOption, Reading, world
<1>2. CASE opttable' = Append(opttable, t) /\ UNCHANGED <<pc, set, threads_set, hosts, poller, typed>>
  <2>1. opttable' \in Seq(Texts)
    BY <1>2 DEF ConfigInv, ConfigTypes
  <2>2. ConfigTypes' /\ ThreadsTyped'
    BY <1>2, <2>1, Zenon
    DEF ConfigInv, ConfigTypes, ThreadsTyped, ArgOption, Reading, world
  <2> QED
    BY <1>2, <2>2, EarlyHoldsNext, Zenon DEF ArgOption, Reading
<1> QED
  BY <1>1, <1>2, Zenon DEF ArgOption

\* Log_Destination of the configuration file is no number of threads.
LEMMA ReadFileKeeps == ASSUME ConfigInv, ReadFile PROVE ConfigInv'
<1>1. set' \in [Settings -> Int] /\ set'["threads"] = set["threads"]
  <2>1. CASE set' = set
    BY <2>1, Zenon DEF ConfigInv, ConfigTypes
  <2>2. CASE set' = [set EXCEPT !["log_destination"] = LogDestinations.BOTH]
    <3>1. LogDestinations.BOTH \in Int /\ "threads" # "log_destination"
      BY DEF LogDestinations
    <3> QED
      BY <2>2, <3>1, SettingNames, Zenon DEF ConfigInv, ConfigTypes
  <2> QED
    BY <2>1, <2>2, Zenon DEF ReadFile, Directives
<1>2. ConfigTypes' /\ ThreadsTyped'
  BY <1>1, Zenon DEF ConfigInv, ConfigTypes, ThreadsTyped, ReadFile, world
<1> QED
  BY <1>2, EarlyHoldsNext, Zenon DEF ReadFile

\* All arguments.
LEMMA ArgsKeep ==
    ASSUME ConfigInv,
           \/ \E id \in HostIds : ArgFirst(id) \/ ArgLast(id) \/ ArgId(id)
           \/ \E ids \in SUBSET HostIds \ {{}} : ArgHostList(ids)
           \/ \E n \in PollerIds : ArgPoller(n)
           \/ \E m \in {"online", "offline", "recovery"} : ArgMode(m)
           \/ ArgFlag \/ ArgConf \/ ArgRejected \/ CheckHosts \/ LoadCache
    PROVE  ConfigInv'
<1>1. UNCHANGED <<focus, row, opttable, set, threads_set, typed>>
  BY Zenon
  DEF ArgFirst, ArgLast, ArgId, ArgHostList, ArgPoller, ArgMode, ArgFlag, ArgConf, ArgRejected,
      CheckHosts, LoadCache, Reading, Stop, world
<1>2. pc' \in {"args", "file", "cache", "logging", "stopped"}
  BY Zenon
  DEF ArgFirst, ArgLast, ArgId, ArgHostList, ArgPoller, ArgMode, ArgFlag, ArgConf, ArgRejected,
      CheckHosts, LoadCache, Reading, Stop
<1> QED
  BY <1>1, <1>2, OtherArgKeeps, Zenon

\* What the steps after the command line leave alone.
Given == UNCHANGED <<focus, row, opttable, threads_set, typed, cache>>

\* What was given does not change once the settings are read.
LEMMA GivenStays ==
    ASSUME Given
    PROVE  /\ \A s : Getsetting(s)' = Getsetting(s)
           /\ Getpsetting("threads")' = Getpsetting("threads")
<1>1. \A s : Getsetting(s)' = Getsetting(s)
  BY Zenon DEF Given, Getsetting, Stored
<1>2. Getpsetting("threads")' = Getpsetting("threads")
  BY Zenon DEF Given, Getpsetting, Stored
<1> QED
  BY <1>1, <1>2

\* One group of settings, between two points of read_config_options().
LEMMA ReadGroupKeeps ==
    ASSUME ConfigInv, NEW here, NEW next, NEW options \in SUBSET Settings,
           ReadGroup(here, next, options), "threads" \notin options, next # "run",
           ReadBy(next) \subseteq ReadBy(here) \cup options, ReadBy(next) \subseteq Settings,
           next \in {"script", "php", "batch", "interval"} =>
               here \in {"script", "php", "batch", "interval"}
    PROVE  ConfigInv'
<1>0. Given
  BY Zenon DEF ReadGroup, Given, world, hosts, poller, files
<1>1. CASE set' = Read(options) /\ pc' = next
  <2>1. /\ set' \in [Settings -> Int]
        /\ \A s \in options : set'[s] = Value(s, Getsetting(s))
        /\ \A s \in Settings : s \notin options => set'[s] = set[s]
    BY <1>1, ReadType, Zenon DEF ConfigInv
  <2>2. set'["threads"] = set["threads"]
    BY <2>1, SettingNames, Zenon
  <2>3. ConfigTypes'
    BY <1>0, <2>1, Zenon DEF Given, ConfigInv, ConfigTypes
  <2>4. ThreadsTyped'
    BY <1>0, <2>2, Zenon DEF Given, ConfigInv, ThreadsTyped
  <2>5. ThreadsRead'
    <3>1. next \in {"script", "php", "batch", "interval"} =>
            \/ threads_set \/ Getpsetting("threads") = Absent
            \/ set["threads"] = Value("threads", Getpsetting("threads"))
      BY Zenon DEF ReadGroup, ConfigInv, ThreadsRead
    <3>2. Getpsetting("threads")' = Getpsetting("threads") /\ threads_set' = threads_set
      BY <1>0, GivenStays, Zenon DEF Given
    <3> QED
      BY <1>1, <2>2, <3>1, <3>2, Zenon DEF ThreadsRead
  <2>6. \A s \in ReadBy(pc)' : set'[s] = Value(s, Getsetting(s)')
    <3>1. SUFFICES ASSUME NEW s \in ReadBy(next) PROVE set'[s] = Value(s, Getsetting(s))
      BY <1>0, <1>1, GivenStays, Zenon
    <3>2. CASE s \in options
      BY <2>1, <3>2, Zenon
    <3>3. CASE s \notin options
      <4>1. s \in ReadBy(pc) /\ s \in Settings
        BY <3>3, Zenon DEF ReadGroup
      <4> QED
        BY <2>1, <3>3, <4>1, Zenon DEF ConfigInv
    <3> QED
      BY <3>2, <3>3
  <2> QED
    BY <1>1, <2>3, <2>4, <2>5, <2>6, Zenon DEF ConfigInv
<1>2. CASE pc' = "stopped" /\ UNCHANGED set
  BY <1>0, <1>2, OtherArgKeeps, Zenon DEF Given
<1> QED
  BY <1>1, <1>2, Zenon DEF ReadGroup

\* What is read up to some point are settings.
LEMMA ReadBySettings == \A at : ReadBy(at) \subseteq Settings
BY SettingNames, Zenon DEF ReadBy

\* Each part of read_config_options() keeps what the parts before it read: the log,
LEMMA ReadLoggingKeeps == ASSUME ConfigInv, ReadLogging PROVE ConfigInv'
<1>1. ReadBy("ping") \subseteq ReadBy("logging") \cup LoggingOptions
  BY Zenon DEF ReadBy
<1>2. ReadGroup("logging", "ping", LoggingOptions)
  BY Zenon DEF ReadLogging
<1> QED
  BY <1>1, <1>2, ReadGroupKeeps, ReadBySettings, SettingNames, SettingGroups, Zenon

\* the pings,
LEMMA ReadPingKeeps == ASSUME ConfigInv, ReadPing PROVE ConfigInv'
<1>1. ReadBy("flags") \subseteq ReadBy("ping") \cup PingOptions
  BY Zenon DEF ReadBy
<1>2. ReadGroup("ping", "flags", PingOptions)
  BY Zenon DEF ReadPing
<1> QED
  BY <1>1, <1>2, ReadGroupKeeps, ReadBySettings, SettingNames, SettingGroups, Zenon

\* the flags,
LEMMA ReadFlagsKeeps == ASSUME ConfigInv, ReadFlags PROVE ConfigInv'
<1>1. ReadBy("process") \subseteq ReadBy("flags") \cup BoolOptions
  BY Zenon DEF ReadBy
<1>2. ReadGroup("flags", "process", BoolOptions)
  BY Zenon DEF ReadFlags
<1> QED
  BY <1>1, <1>2, ReadGroupKeeps, ReadBySettings, SettingNames, SettingGroups, Zenon

\* the scripts,
LEMMA ReadScriptKeeps == ASSUME ConfigInv, ReadScript PROVE ConfigInv'
<1>1. ReadBy("php") \subseteq ReadBy("script") \cup ScriptOptions
  BY Zenon DEF ReadBy
<1>2. ReadGroup("script", "php", ScriptOptions)
  BY Zenon DEF ReadScript
<1> QED
  BY <1>1, <1>2, ReadGroupKeeps, ReadBySettings, SettingNames, SettingGroups, Zenon

\* the batch sizes,
LEMMA ReadBatchKeeps == ASSUME ConfigInv, ReadBatch PROVE ConfigInv'
<1>1. ReadBy("interval") \subseteq ReadBy("batch") \cup BatchOptions
  BY Zenon DEF ReadBy
<1>2. ReadGroup("batch", "interval", BatchOptions)
  BY Zenon DEF ReadBatch
<1> QED
  BY <1>1, <1>2, ReadGroupKeeps, ReadBySettings, SettingNames, SettingGroups, Zenon

\* The threads: what -t said stays, else the row counts if there is one.
LEMMA ReadProcessKeeps == ASSUME ConfigInv, ReadProcess PROVE ConfigInv'
<1>0. Given
  BY Zenon DEF ReadProcess, Given, world, hosts, poller, files
<1> DEFINE text == Getpsetting("threads")
           threads == IF threads_set \/ text = Absent THEN set["threads"]
                      ELSE Value("threads", text)
<1>1. CASE set' = [Read(ProcessOptions) EXCEPT !["threads"] = threads] /\ pc' = "script"
  <2>1. /\ Read(ProcessOptions) \in [Settings -> Int]
        /\ \A s \in ProcessOptions : Read(ProcessOptions)[s] = Value(s, Getsetting(s))
        /\ \A s \in Settings : s \notin ProcessOptions => Read(ProcessOptions)[s] = set[s]
    BY ReadType, SettingNames, Zenon DEF ConfigInv
  <2>2. threads \in Int /\ threads <= MaxThreads
    <3>1. CASE threads_set \/ text = Absent
      BY <3>1, SettingNames, Zenon DEF ConfigInv, ConfigTypes, ThreadsTyped
    <3>2. CASE ~threads_set /\ text # Absent
      <4>1. text \in Texts
        BY <3>2, GetpsettingType, Zenon DEF ConfigInv
      <4>2. text.num \in Int
        BY <4>1, TextFacts, Zenon
      <4>3. threads = AtMost(MaxThreads, text.num)
        BY <3>2, <4>2, Zenon DEF Value, Atoi, BoolOptions
      <4> HIDE DEF text, threads
      <4> QED
        BY <4>2, <4>3 DEF AtMost, MaxThreads
    <3> QED
      BY <3>1, <3>2
  <2> HIDE DEF threads
  <2>3. /\ set' \in [Settings -> Int] /\ set'["threads"] = threads
        /\ \A s \in Settings : s # "threads" => set'[s] = Read(ProcessOptions)[s]
    BY <1>1, <2>1, <2>2, SettingNames, Zenon
  <2>4. ConfigTypes'
    BY <1>0, <2>3, Zenon DEF Given, ConfigInv, ConfigTypes
  <2>5. ThreadsTyped'
    <3>1. threads_set => threads = set["threads"]
      BY Zenon DEF threads
    <3> QED
      BY <1>0, <2>2, <2>3, <3>1, Zenon DEF Given, ConfigInv, ThreadsTyped
  <2>6. ThreadsRead'
    <3>1. threads_set \/ text = Absent \/ threads = Value("threads", text)
      BY Zenon DEF threads
    <3> HIDE DEF text
    <3>2. text = Getpsetting("threads")
      BY DEF text
    <3> QED
      BY <1>0, <2>3, <3>1, <3>2, GivenStays, Zenon DEF Given, ThreadsRead
  <2>7. \A s \in ReadBy(pc)' : set'[s] = Value(s, Getsetting(s)')
    <3>1. SUFFICES ASSUME NEW s \in ReadBy("script") PROVE set'[s] = Value(s, Getsetting(s))
      BY <1>0, <1>1, GivenStays, Zenon
    <3>2. s \in Settings /\ s # "threads" /\ (s \in ProcessOptions \/ s \in ReadBy(pc))
      <4>1. s \in Settings
        BY ReadBySettings, Zenon
      <4>2. s # "threads"
        BY SettingGroups, Zenon DEF ReadBy
      <4>3. pc = "process"
        BY Zenon DEF ReadProcess
      <4>4. s \in ProcessOptions \/ s \in ReadBy("process")
        BY Zenon DEF ReadBy
      <4> QED
        BY <4>1, <4>2, <4>3, <4>4, Zenon
    <3>3. set'[s] = Read(ProcessOptions)[s]
      BY <2>3, <3>2, Zenon
    <3> QED
      BY <2>1, <3>2, <3>3, Zenon DEF ConfigInv
  <2> QED
    BY <1>1, <2>4, <2>5, <2>6, <2>7, Zenon DEF ConfigInv
<1>2. CASE pc' = "stopped" /\ UNCHANGED set
  BY <1>0, <1>2, OtherArgKeeps, Zenon DEF Given
<1> QED
  BY <1>1, <1>2, Zenon DEF ReadProcess

\* the number of script servers,
LEMMA ReadPhpKeeps == ASSUME ConfigInv, ReadPhpRequirement PROVE ConfigInv'
<1>0. Given /\ UNCHANGED set
  BY Zenon DEF ReadPhpRequirement, Given, world, hosts, poller, files
<1>1. CASE pc' = "batch"
  <2>1. ReadBy("batch") \subseteq ReadBy("php") /\ pc = "php"
    BY Zenon DEF ReadBy, ReadPhpRequirement
  <2>2. ConfigTypes' /\ ThreadsTyped'
    BY <1>0, Zenon DEF Given, ConfigInv, ConfigTypes, ThreadsTyped
  <2>3. ThreadsRead'
    BY <1>0, <1>1, <2>1, GivenStays, Zenon DEF Given, ConfigInv, ThreadsRead
  <2>4. \A s \in ReadBy(pc)' : set'[s] = Value(s, Getsetting(s)')
    BY <1>0, <1>1, <2>1, GivenStays, Zenon DEF ConfigInv
  <2> QED
    BY <1>1, <2>2, <2>3, <2>4, Zenon DEF ConfigInv
<1>2. CASE pc' = "stopped"
  BY <1>0, <1>2, OtherArgKeeps, Zenon DEF Given
<1> QED
  BY <1>1, <1>2, Zenon DEF ReadPhpRequirement

\* and the interval.
LEMMA IntervalKeeps == ASSUME ConfigInv, DefaultInterval PROVE ConfigInv'
<1>0. Given /\ pc = "interval" /\ pc' = "run"
  BY Zenon DEF DefaultInterval, Given, world, hosts, poller, files
<1>1. /\ set' \in [Settings -> Int]
      /\ set'["poller_interval"] = IF set["poller_interval"] = 0 THEN 300
                                   ELSE set["poller_interval"]
      /\ \A s \in Settings : s # "poller_interval" => set'[s] = set[s]
  BY SettingNames DEF ConfigInv, ConfigTypes, DefaultInterval
<1>2. set'["threads"] = set["threads"]
  BY <1>1, SettingNames, Zenon
<1>3. ConfigTypes' /\ ThreadsTyped'
  BY <1>0, <1>1, <1>2, Zenon DEF Given, ConfigInv, ConfigTypes, ThreadsTyped
<1>4. ThreadsRead'
  BY <1>0, <1>2, GivenStays, Zenon DEF Given, ConfigInv, ThreadsRead
<1>5. \A s \in ReadBy(pc)' : set'[s] = Value(s, Getsetting(s)')
  <2>1. \A s \in ReadBy("run") : s \in ReadBy("interval") /\ s # "poller_interval" /\ s \in Settings
    <3>1. \A s \in ReadBy("run") : s \in ReadBy("interval")
      BY Zenon DEF ReadBy
    <3>2. "poller_interval" \notin ReadBy("run")
      BY Zenon DEF ReadBy, LoggingOptions, PingOptions, BoolOptions, ScriptOptions, BatchOptions
    <3> QED
      BY <3>1, <3>2, ReadBySettings, Zenon
  <2> QED
    BY <1>0, <1>1, <2>1, GivenStays, Zenon DEF ConfigInv
<1>6. set'["poller_interval"] = Used("poller_interval", Getsetting("poller_interval")')
  <2>1. "poller_interval" \in ReadBy("interval")
    BY Zenon DEF ReadBy, ProcessOptions
  <2>2. set["poller_interval"] = Value("poller_interval", Getsetting("poller_interval"))
    BY <1>0, <2>1, Zenon DEF ConfigInv
  <2>3. Getsetting("poller_interval")' = Getsetting("poller_interval")
    BY <1>0, GivenStays, Zenon
  <2> QED
    BY <1>1, <2>2, <2>3, Zenon DEF Used
<1> QED
  BY <1>0, <1>3, <1>4, <1>5, <1>6, Zenon DEF ConfigInv

\* Every step of the configuration keeps its invariant.
LEMMA ConfigKeeps == ASSUME ConfigInv, ConfigNext PROVE ConfigInv'
BY ArgsKeep, ArgThreadsKeeps, ArgOptionKeeps, ReadFileKeeps, ReadLoggingKeeps, ReadPingKeeps,
   ReadFlagsKeeps, ReadProcessKeeps, ReadScriptKeeps, ReadPhpKeeps, ReadBatchKeeps,
   IntervalKeeps, Zenon DEF ConfigNext

\* The configuration stays while others move.
LEMMA ConfigStutter == ASSUME ConfigInv, UNCHANGED configVars PROVE ConfigInv'
<1>1. Given /\ UNCHANGED <<pc, set>>
  BY Zenon DEF configVars, Given, world, hosts, poller, files
<1>2. ConfigTypes' /\ ThreadsTyped'
  BY <1>1, Zenon DEF Given, ConfigInv, ConfigTypes, ThreadsTyped
<1>3. ThreadsRead'
  BY <1>1, GivenStays, Zenon DEF Given, ConfigInv, ThreadsRead
<1>4. \A s \in ReadBy(pc)' : set'[s] = Value(s, Getsetting(s)')
  BY <1>1, GivenStays, Zenon DEF ConfigInv
<1>5. pc' = "run" =>
        set'["poller_interval"] = Used("poller_interval", Getsetting("poller_interval")')
  BY <1>1, GivenStays, Zenon DEF ConfigInv
<1> QED
  BY <1>1, <1>2, <1>3, <1>4, <1>5, Zenon DEF ConfigInv

\* What the invariant gives when polling starts.
LEMMA ConfigGives == ASSUME ConfigInv PROVE SettingsAsGiven
<1>1. SUFFICES ASSUME pc = "run" PROVE SettingsAsGiven
  BY Zenon DEF SettingsAsGiven
<1>2. \A s \in Settings : s # "threads" /\ s # "poller_interval" =>
        set[s] = Value(s, Getsetting(s))
  <2>1. \A s \in Settings : s # "threads" /\ s # "poller_interval" => s \in ReadBy("run")
    BY SettingGroups, Zenon DEF ReadBy
  <2> QED
    BY <1>1, <2>1, Zenon DEF ConfigInv
<1>3. \A s \in Settings : s # "threads" => set[s] = Used(s, Getsetting(s))
  BY <1>1, <1>2, Zenon DEF Used, ConfigInv
<1>4. typed > 0 => set["threads"] = AtMost(MaxThreads, typed)
  BY DEF ConfigInv, ConfigTypes, ThreadsTyped
<1>5. ASSUME focus = "threads" => typed = 0
      PROVE  /\ opttable # <<>> => set[focus] = Used(focus, opttable[1])
             /\ opttable = <<>> /\ row # Absent /\ cache # "partial"
                   => set[focus] = Used(focus, row)
  <2>1. opttable # <<>> => Head(opttable) = opttable[1] /\ Head(opttable) \in Texts
    BY DEF ConfigInv, ConfigTypes
  <2>2. CASE focus = "threads"
    <3>1. ~threads_set
      BY <1>5, <2>2 DEF ConfigInv, ConfigTypes, ThreadsTyped
    <3>2. Getpsetting("threads") # Absent => set[focus] = Used(focus, Getpsetting("threads"))
      BY <1>1, <2>2, <3>1, Zenon DEF ConfigInv, ThreadsRead, Used
    <3>3. opttable # <<>> => Getpsetting("threads") = Head(opttable)
      BY <2>2, Zenon DEF Getpsetting
    <3>4. opttable = <<>> => Getpsetting("threads") = row
      BY <2>2, Zenon DEF Getpsetting, Stored
    <3> QED
      BY <2>1, <3>2, <3>3, <3>4, TextFacts, Zenon
  <2>3. CASE focus # "threads"
    <3>1. set[focus] = Used(focus, Getsetting(focus))
      BY <1>3, <2>3, Zenon DEF ConfigInv, ConfigTypes
    <3> QED
      BY <2>1, <3>1, Zenon DEF Getsetting, Stored
  <2> QED
    BY <2>2, <2>3
<1>6. /\ set["php_servers"] \in 1..MaxPhpServers
      /\ set["script_timeout"] >= 5
      /\ set["default_datechar"] \in 0..2 /\ set["default_date_format"] \in 0..5
      /\ set["max_get_size"] <= 128
  <2>1. \A s : Getsetting(s).num \in Int
    BY GetsettingType, TextFacts, Zenon DEF ConfigInv
  <2>2. /\ set["php_servers"] = AtLeast(1, AtMost(MaxPhpServers, Getsetting("php_servers").num))
        /\ set["script_timeout"] = AtLeast(5, Getsetting("script_timeout").num)
        /\ set["default_datechar"] = Within(0, 2, Getsetting("default_datechar").num, 1)
        /\ set["default_date_format"] = Within(0, 5, Getsetting("default_date_format").num, 5)
        /\ set["max_get_size"] = AtMost(128, Getsetting("max_get_size").num)
    <3>1. /\ Value("php_servers", Getsetting("php_servers"))
               = AtLeast(1, AtMost(MaxPhpServers, Getsetting("php_servers").num))
          /\ Value("script_timeout", Getsetting("script_timeout"))
               = AtLeast(5, Getsetting("script_timeout").num)
      BY SMT DEF Value, Atoi, BoolOptions
    <3>2. /\ Value("default_datechar", Getsetting("default_datechar"))
               = Within(0, 2, Getsetting("default_datechar").num, 1)
          /\ Value("default_date_format", Getsetting("default_date_format"))
               = Within(0, 5, Getsetting("default_date_format").num, 5)
      BY SMT DEF Value, Atoi, BoolOptions
    <3>3. Value("max_get_size", Getsetting("max_get_size"))
               = AtMost(128, Getsetting("max_get_size").num)
      BY SMT DEF Value, Atoi, BoolOptions
    <3>4. /\ "script_timeout" \in Settings /\ "default_datechar" \in Settings
          /\ "default_date_format" \in Settings /\ "max_get_size" \in Settings
      BY Zenon DEF Settings, ProcessOptions, LoggingOptions, BatchOptions
    <3> QED
      BY <1>2, <3>1, <3>2, <3>3, <3>4, SettingNames, Zenon
  <2>3. \A n \in Int : AtLeast(1, AtMost(MaxPhpServers, n)) \in 1..MaxPhpServers
    BY DEF AtLeast, AtMost, MaxPhpServers
  <2>4. \A n \in Int : /\ AtLeast(5, n) >= 5 /\ AtMost(128, n) <= 128
                       /\ Within(0, 2, n, 1) \in 0..2 /\ Within(0, 5, n, 5) \in 0..5
    BY DEF AtLeast, AtMost, Within
  <2> QED
    BY <2>1, <2>2, <2>3, <2>4, ZenonT(60)
<1>7. set["poller_interval"] # 0
  BY <1>1, SMT DEF ConfigInv, Used
<1> QED
  BY <1>1, <1>4, <1>5, <1>6, <1>7, Zenon DEF SettingsAsGiven, ConfigInv, ThreadsTyped

-----------------------------------------------------------------------------
(* Start-up *)

\* Every step keeps the three invariants, and leaves no handler that has returned.
LEMMA StartupStep ==
    ASSUME StartupInv, [Next]_vars
    PROVE  /\ StartupInv'
           /\ \A s \in Fatal : handling[s] # "no" => handling'[s] # "no" \/ ended' # "no"
<1> USE DEF StartupInv
<1>1. CASE ConfigNext /\ UNCHANGED <<part, processVars>>
  BY <1>1, ConfigKeeps, PrivilegesStutter, SignalsStutter, Zenon DEF processVars, signalVars
<1>2. CASE Privileges /\ UNCHANGED <<part, configVars>>
  BY <1>2, PrivilegesKeep, ConfigStutter, SignalsStutter, Zenon DEF Privileges, signalVars
<1>3. CASE Dispositions /\ UNCHANGED <<part, configVars>>
  BY <1>3, MainKeeps, ConfigStutter, PrivilegesStutter, Zenon DEF Dispositions
<1>4. CASE Signalled /\ UNCHANGED <<part, configVars>>
  <2>1. ConfigInv' /\ PrivilegesInv'
    BY <1>4, ConfigStutter, PrivilegesStutter, Zenon DEF Signalled
  <2>2. ASSUME NEW s \in Fatal, ended = "no", Reset(s) \/ Raise(s)
        PROVE  /\ SignalsInv'
               /\ \A x \in Fatal : handling[x] # "no" => handling'[x] # "no" \/ ended' # "no"
    BY <2>2, ResetKeeps, RaiseKeeps, Zenon
  <2>3. ASSUME NEW s \in Caught, Arrive(s)
        PROVE  /\ SignalsInv'
               /\ \A x \in Fatal : handling[x] # "no" => handling'[x] # "no" \/ ended' # "no"
    BY <2>3, ArriveKeeps, Zenon
  <2> QED
    BY <1>4, <2>1, <2>2, <2>3, Zenon DEF Signalled, Handler, Caught
<1>5. CASE UNCHANGED vars
  BY <1>5, ConfigStutter, PrivilegesStutter, SignalsStutter, Zenon
  DEF vars, processVars, signalVars
<1> QED
  BY <1>1, <1>2, <1>3, <1>4, <1>5, Zenon DEF Next, Done

\* The invariants of the three parts hold in every state.
LEMMA StartupHolds == Spec => []StartupInv
<1>1. Init => StartupInv
  BY ConfigStart, PrivilegesStart, SignalsStart, Zenon DEF Init, StartupInv
<1>2. StartupInv /\ [Next]_vars => StartupInv'
  BY StartupStep, Zenon
<1> QED
  BY <1>1, <1>2, PTL DEF Spec

\* Root is given up for good before anything is read, whatever start it was, which
\* call fails and what setuid() does with the saved id; what was got hold of for
\* the pings is still there: a capability to use, or sockets checkAsRoot() finds.
THEOREM OnlyIcmpIsKeptThm == Spec => []OnlyIcmpIsKept
<1>1. StartupInv => OnlyIcmpIsKept
  BY PrivilegesGive, Zenon DEF StartupInv
<1> QED
  BY <1>1, StartupHolds, PTL

\* For any table of fatal signals, any dispositions the process was started with and
\* any order of signals: the handler of a fatal signal ends the process, and the
\* dispositions are kept.
THEOREM FatalSignalEndsThm == Spec => FatalSignalEnds
<1> DEFINE Step == /\ \A s \in Fatal : handling[s] # "no" => handling'[s] # "no" \/ ended' # "no"
                   /\ DispositionsKept'
<1>1. StartupInv /\ [Next]_vars => [Step]_signalVars
  <2>1. SUFFICES ASSUME StartupInv, [Next]_vars PROVE Step
    BY Zenon
  <2>2. DispositionsKept'
    <3>1. SignalsInv'
      BY <2>1, StartupStep, Zenon DEF StartupInv
    <3> QED
      BY <3>1, SignalsGive, PTL
  <2> QED
    BY <2>1, <2>2, StartupStep, Zenon
<1>2. Spec => [][Step]_signalVars
  BY <1>1, StartupHolds, PTL DEF Spec
<1> QED
  BY <1>2, Zenon DEF FatalSignalEnds

\* For any command line, settings table and cache: a setting is the one given, in
\* the order of precedence, and within the bounds that Spine sets for it.
THEOREM SettingsAsGivenThm == Spec => []SettingsAsGiven
<1>1. StartupInv => SettingsAsGiven
  BY ConfigGives, Zenon DEF StartupInv
<1> QED
  BY <1>1, StartupHolds, PTL

=============================================================================
