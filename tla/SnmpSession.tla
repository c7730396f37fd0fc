---------------------------- MODULE SnmpSession -----------------------------
(***************************************************************************)
(* snmp_host_init(): the session of a device is put together from the      *)
(* credentials Cacti stores and opened. Any copy, key or lookup may fail.  *)
(*                                                                         *)
(* A protocol field is empty, "[None]", a name the library knows, or       *)
(* another name; a passphrase is set or not. What the library would use    *)
(* when no protocol is given is "default". Version 0 stands for one that   *)
(* does not exist.                                                         *)
(***************************************************************************)
EXTENDS Naturals

Protocols == {"", "[None]", "known", "unknown"}

VARIABLES
    options,        \* snmp_connection_t
    step,           \* where snmp_host_init() is
    draft,          \* struct snmp_session
    owned,          \* what the draft owns: copies, and keys to be wiped
    sessp           \* the draft it was opened from; Blank for NULL

sessionVars == <<options, step, draft, owned, sessp>>

Blank == [version |-> 0, level |-> "noAuth", auth |-> "default", priv |-> "default",
          authKey |-> "none", privKey |-> "none"]

SessionInit ==
    /\ options \in [version : 0..3, timeout : {0, 1}, auth : Protocols, password : BOOLEAN,
                    priv : Protocols, passphrase : BOOLEAN]
    /\ options.version # 3 => /\ options.auth = "" /\ ~options.password
                              /\ options.priv = "" /\ ~options.passphrase
    /\ step = "start" /\ draft = Blank /\ owned = {} /\ sessp = Blank

-----------------------------------------------------------------------------

\* spine_snmpv3_protocol_is_set()
ProtocolIsSet(value) == value \notin {"", "[None]"}

\* spine_snmpv3_security_level()
SecurityLevel ==
    LET authenticates == ProtocolIsSet(options.auth) /\ options.password
        encrypts == authenticates /\ ProtocolIsSet(options.priv) /\ options.passphrase
    IN IF encrypts THEN "authPriv" ELSE IF authenticates THEN "authNoPriv" ELSE "noAuth"

\* The refusals of snmp_set_security_protocols().
Refused ==
    \/ options.password /\ options.auth = ""
    \/ options.passphrase /\ options.priv = ""
    \/ SecurityLevel = "noAuth" /\ ProtocolIsSet(options.priv) /\ options.passphrase

\* snmp_host_init_release(): on every way out.
Release == owned' = {} /\ step' = "end"
Refuse == Release /\ UNCHANGED <<draft, sessp>>

Begin ==
    /\ step = "start"
    /\ \/ /\ options.timeout = 0
          /\ step' = "end"
          /\ UNCHANGED <<draft, owned, sessp>>
       \/ options.timeout > 0 /\ options.version = 0 /\ Refuse
       \/ /\ options.timeout > 0 /\ options.version > 0
          /\ draft' = [Blank EXCEPT !.version = options.version]
          /\ owned' \in {{}, {"localname"}}       \* snmp_clientaddr
          /\ step' = IF options.version = 3 THEN "protocols" ELSE "open"
          /\ UNCHANGED sessp
    /\ UNCHANGED options

\* The authentication protocol is looked at where it is going to be used.
SetAuthProtocol_whenUsed ==
    /\ step = "protocols"
    /\ \/ Refused /\ Refuse
       \/ ~Refused /\ SecurityLevel # "noAuth" /\ Refuse
       \/ /\ ~Refused /\ (SecurityLevel # "noAuth" => options.auth = "known")
          /\ draft' = [draft EXCEPT !.auth = options.auth, !.level = SecurityLevel]
          /\ owned' = owned \cup {"auth"}
          /\ step' = "privacy"
          /\ UNCHANGED sessp
    /\ UNCHANGED options

\* snmp_set_security_protocols() up to the level. "A protocol that is set but
\* unrecognised is a configuration error at any security level".
SetAuthProtocol ==
    /\ step = "protocols"
    /\ \/ Refused /\ Refuse
       \/ ~Refused /\ ProtocolIsSet(options.auth) /\ Refuse     \* unknown, or no memory
       \/ /\ ~Refused /\ options.auth # "unknown"
          /\ draft' = [draft EXCEPT !.auth = IF ProtocolIsSet(options.auth)
                                             THEN options.auth ELSE @,
                                    !.level = SecurityLevel]
          /\ owned' = owned \cup (IF ProtocolIsSet(options.auth) THEN {"auth"} ELSE {})
          /\ step' = "privacy"
          /\ UNCHANGED sessp
    /\ UNCHANGED options

SetPrivProtocol ==
    /\ step = "privacy"
    /\ \/ /\ \/ draft.level # "authPriv" /\ draft' = [draft EXCEPT !.priv = "noPriv"]
             \/ /\ draft.level = "authPriv" /\ options.priv = "known"
                /\ draft' = [draft EXCEPT !.priv = options.priv]
          /\ owned' = owned \cup {"priv"}
          /\ step' = IF draft.level = "noAuth" THEN "open" ELSE "keys"
          /\ UNCHANGED sessp
       \/ Refuse                                    \* unknown, or no memory
    /\ UNCHANGED options

\* snmp_set_security_keys(): a key is made with the protocol of the draft.
SetSecurityKeys ==
    /\ step = "keys"
    /\ \/ /\ draft' = [draft EXCEPT !.authKey = draft.auth,
                                    !.privKey = IF draft.level = "authPriv" THEN draft.auth ELSE @]
          /\ owned' = owned \cup {"keys"}
          /\ step' = "open"
          /\ UNCHANGED sessp
       \/ Refuse
    /\ UNCHANGED options

OpenSession ==
    /\ step = "open"
    /\ sessp' \in {draft, Blank}
    /\ Release
    /\ UNCHANGED <<options, draft>>

SessionNext == Begin \/ SetAuthProtocol \/ SetPrivProtocol \/ SetSecurityKeys \/ OpenSession

-----------------------------------------------------------------------------
(* Properties *)

\* A device is polled with the security its fields say, or not at all: no field
\* that names an unknown authentication protocol, no passphrase without its
\* protocol and no privacy without authentication gets a session; a level is used
\* with the configured protocols and keys made with them, never with a default of
\* the library; a level is left out only where its own pair of fields is
\* incomplete. Whatever fails on the way, copies are freed and keys wiped.
SessionAsConfigured ==
    LET pair(protocol, secret) == ProtocolIsSet(protocol) /\ secret
        auth == pair(options.auth, options.password)
        priv == pair(options.priv, options.passphrase)
    IN /\ step = "end" => owned = {}
       /\ sessp # Blank /\ options.version = 3 =>
            /\ options.auth # "unknown"
            /\ options.password => options.auth # ""
            /\ options.passphrase => options.priv # ""
            /\ priv => auth /\ sessp.level = "authPriv"
            /\ auth /\ ~priv => sessp.level = "authNoPriv"
            /\ ~auth => sessp.level = "noAuth"
            /\ auth => sessp.auth = "known" /\ sessp.authKey = "known"
            /\ priv => sessp.priv = "known" /\ sessp.privKey = "known"
            /\ ~priv => sessp.priv = "noPriv" /\ sessp.privKey = "none"
=============================================================================
