----------------------------- MODULE Privileges -----------------------------
(***************************************************************************)
(* What becomes of root: drop_privileges(), which runs before Spine reads  *)
(* anything, and checkAsRoot(), which later decides whether ICMP pings can *)
(* be sent. Any system call may fail.                                      *)
(*                                                                         *)
(* An id is root's or the invoking user's. A setuid start leaves the group *)
(* ids alone, and they are left out. A capability is CAP_NET_RAW or one of *)
(* all the others.                                                         *)
(***************************************************************************)
EXTENDS Naturals

VARIABLES
    lcap,           \* built with --enable-lcap
    started,        \* "setuid", "root", "user", or "filecap": setcap cap_net_raw+ep
    dgram_allowed,  \* net.ipv4.ping_group_range covers the user
    stage,          \* "start", "confirm", "dropped", "ready" or "died"
    cred,           \* kernel: ids and capabilities of the process
    shared,         \* icmp_shared.fd is open
    icmp_ready,
    icmp_avail, icmp_uses_caps

privilegeVars == <<lcap, started, dgram_allowed, stage, cred, shared, icmp_ready,
                   icmp_avail, icmp_uses_caps>>
host == <<lcap, started, dgram_allowed>>

PrivilegesInit ==
    /\ lcap \in BOOLEAN /\ dgram_allowed \in BOOLEAN
    /\ started \in {"setuid", "root", "user", "filecap"}
    /\ stage = "start"
    /\ LET real == IF started = "root" THEN "root" ELSE "user"
           effective == IF started \in {"setuid", "root"} THEN "root" ELSE "user"
       IN \E caps \in CASE effective = "root" -> {{"net_raw", "other"}, {"other"}}
                        [] started = "filecap" -> {{"net_raw"}}
                        [] OTHER -> {{}} :
            cred = [real |-> real, effective |-> effective, saved |-> effective,
                    permitted |-> caps, usable |-> caps, keep |-> FALSE]
    /\ shared = FALSE /\ icmp_ready = FALSE
    /\ icmp_avail = TRUE /\ icmp_uses_caps = FALSE

-----------------------------------------------------------------------------
(* The kernel *)

HasRoot(c) == "root" \in {c.real, c.effective, c.saved}

\* The ids change. The last root id takes the permitted capabilities with it
\* unless PR_SET_KEEPCAPS is set, and the effective root id the usable ones.
SetIds(c, real, effective, saved) ==
    LET new == [c EXCEPT !.real = real, !.effective = effective, !.saved = saved]
        gone == HasRoot(c) /\ ~HasRoot(new) /\ ~c.keep
    IN [new EXCEPT
          !.permitted = IF gone THEN {} ELSE @,
          !.usable = IF gone \/ (c.effective = "root" /\ effective # "root") THEN {}
                     ELSE IF c.effective # "root" /\ effective = "root" THEN c.permitted
                     ELSE @]

\* seteuid(0) would succeed.
RootReachable(c) == HasRoot(c) \/ "other" \in c.usable

-----------------------------------------------------------------------------
(* drop_privileges() *)

Die == stage' = "died" /\ UNCHANGED <<cred, shared, icmp_ready>>

\* drop_root(): the capabilities are narrowed between the change of the effective
\* id, which would take the usable ones, and that of the other ids.
DropRoot(user, kept) ==
    LET aside == SetIds([cred EXCEPT !.keep = TRUE], cred.real, user, cred.saved)
        narrowed == IF kept
                    THEN [aside EXCEPT !.permitted = {"net_raw"}, !.usable = {"net_raw"}]
                    ELSE [aside EXCEPT !.keep = FALSE]
    IN SetIds(narrowed, user, user, user)

\* cap_set_proc() can only give capabilities up.
CanNarrow(kept) == kept => "net_raw" \in cred.permitted

\* Started by root itself: confined to CAP_NET_RAW in an lcap build, or refused.
KeepRoot ==
    /\ stage = "start" /\ started # "setuid"
    /\ \/ /\ lcap /\ started = "root" /\ CanNarrow(TRUE)
          /\ cred' = DropRoot("root", TRUE)
          /\ stage' = "dropped"
          /\ UNCHANGED <<shared, icmp_ready>>
       \/ lcap /\ started = "root" /\ Die
       \/ /\ ~lcap \/ started # "root"
          /\ stage' = "dropped"
          /\ UNCHANGED <<cred, shared, icmp_ready>>
    /\ UNCHANGED <<host, icmp_avail, icmp_uses_caps>>

\* A setuid start with libcap.
DropWithCaps ==
    /\ stage = "start" /\ started = "setuid" /\ lcap
    /\ \/ \E kept \in BOOLEAN :
            /\ CanNarrow(kept)
            /\ cred' = DropRoot("user", kept)
            /\ icmp_ready' = kept
            /\ stage' = "confirm"
            /\ UNCHANGED shared
       \/ Die
    /\ UNCHANGED <<host, icmp_avail, icmp_uses_caps>>

\* A setuid start without it: the raw sockets are opened, then setuid() replaces
\* all the ids, as POSIX has it, or the saved one is left on systems that differ.
DropWithSocket ==
    /\ stage = "start" /\ started = "setuid" /\ ~lcap
    /\ \/ /\ shared' \in {FALSE, "net_raw" \in cred.usable}
          /\ icmp_ready' = shared'
          /\ \E saved \in {"user", "root"} : cred' = SetIds(cred, "user", "user", saved)
          /\ stage' = "confirm"
       \/ Die
    /\ UNCHANGED <<host, icmp_avail, icmp_uses_caps>>

\* privileges_dropped(), that trusts the ids it reads
PrivilegesDropped_noProof ==
    cred.real = "user" /\ cred.effective = "user" /\ (lcap => cred.permitted \subseteq {"net_raw"})

\* privileges_dropped(): the ids, the capabilities, and the failure of seteuid(0).
PrivilegesDropped ==
    /\ cred.real = "user" /\ cred.effective = "user"
    /\ lcap => cred.permitted \subseteq {"net_raw"}
    /\ ~RootReachable(cred)

Confirm ==
    /\ stage = "confirm"
    /\ \/ /\ PrivilegesDropped
          /\ stage' = "dropped"
          /\ UNCHANGED <<cred, shared, icmp_ready>>
       \/ (lcap \/ ~PrivilegesDropped) /\ Die       \* cap_get_proc() may fail
    /\ UNCHANGED <<host, icmp_avail, icmp_uses_caps>>

-----------------------------------------------------------------------------
(* checkAsRoot() *)

\* hasCaps()
HasCaps == IF lcap THEN {FALSE, "net_raw" \in cred.usable} ELSE {FALSE}

\* The probes of checkAsRoot(): they can fail for want of a descriptor as well.
MayOpen == "net_raw" \in cred.usable \/ dgram_allowed

CheckAsRoot ==
    /\ stage = "dropped"
    /\ \E caps \in HasCaps, probe \in {FALSE, MayOpen} :
         /\ icmp_uses_caps' = caps
         /\ icmp_avail' = (caps \/ shared \/ cred.effective = "root" \/ probe)
    /\ stage' = "ready"
    /\ UNCHANGED <<host, cred, shared, icmp_ready>>

DropPrivileges == KeepRoot \/ DropWithCaps \/ DropWithSocket \/ Confirm

-----------------------------------------------------------------------------
(* Properties *)

\* "drops root permanently before it reads any option, file or database row": once
\* drop_privileges() has returned from a setuid start, no id is root's and nothing
\* but CAP_NET_RAW is left to raise; an lcap build that root starts is confined
\* likewise. That holds whichever call fails and on systems whose setuid() keeps
\* the saved id. What a setuid start got hold of before it gave root up is still
\* there after all the ids have changed: the capability can be used, or the open
\* sockets are, and checkAsRoot() finds those whichever of its own calls fails.
\* (Group ids are not looked at.)
OnlyIcmpIsKept ==
    /\ stage \in {"dropped", "ready"} =>
         /\ started = "setuid" => ~HasRoot(cred) /\ cred.permitted \subseteq {"net_raw"}
         /\ started = "root" /\ lcap => cred.permitted \subseteq {"net_raw"}
    /\ stage = "ready" /\ icmp_ready =>
         "net_raw" \in cred.usable \/ (shared /\ icmp_avail)
=============================================================================
