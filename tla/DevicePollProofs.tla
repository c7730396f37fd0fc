-------------------------- MODULE DevicePollProofs --------------------------
(***************************************************************************)
(* What holds of the polling of one device for any items, profiles and     *)
(* batch size, any credentials, and any walk.                              *)
(***************************************************************************)
EXTENDS DevicePoll, PollHostProofs

(* snmp_host_init() *)

AuthPair == ProtocolIsSet(options.auth) /\ options.password
PrivPair == ProtocolIsSet(options.priv) /\ options.passphrase

Levels == {"noAuth", "authNoPriv", "authPriv"}
Fields == Levels \cup Protocols \cup {"default", "none", "noPriv"}
Drafts == [version : 0..3, level : Fields, auth : Fields, priv : Fields,
           authKey : Fields, privKey : Fields]

\* What the fields of a device allow, whatever is left of snmp_host_init().
Allowed ==
    /\ options.auth # "unknown"
    /\ options.password => options.auth # ""
    /\ options.passphrase => options.priv # ""
    /\ PrivPair => AuthPair

LevelAsConfigured(d) ==
    /\ PrivPair => d.level = "authPriv"
    /\ AuthPair /\ ~PrivPair => d.level = "authNoPriv"
    /\ ~AuthPair => d.level = "noAuth"

PrivAsConfigured(d) == d.priv = IF PrivPair THEN "known" ELSE "noPriv"

KeysAsConfigured(d) ==
    /\ AuthPair => d.authKey = "known"
    /\ d.privKey = IF PrivPair THEN "known" ELSE "none"

AuthAsConfigured(d) == AuthPair => d.auth = "known"

\* The draft of a version 3 session: what each step of snmp_host_init() adds to it.
SessionInv ==
    /\ options \in [version : 0..3, timeout : {0, 1}, auth : Protocols, password : BOOLEAN,
                    priv : Protocols, passphrase : BOOLEAN]
    /\ step \in {"start", "protocols", "privacy", "keys", "open", "end"}
    /\ draft \in Drafts
    /\ step \in {"start", "end"} => owned = {}
    /\ step # "end" => sessp = Blank
    /\ step = "protocols" => draft.privKey = "none"
    /\ step \in {"privacy", "keys"} =>
         Allowed /\ LevelAsConfigured(draft) /\ AuthAsConfigured(draft) /\ draft.privKey = "none"
    /\ step = "keys" => AuthPair /\ PrivAsConfigured(draft)
    /\ step = "open" /\ options.version = 3 =>
         /\ Allowed /\ LevelAsConfigured(draft) /\ AuthAsConfigured(draft)
         /\ PrivAsConfigured(draft) /\ KeysAsConfigured(draft)
    /\ sessp # Blank /\ options.version = 3 =>
         /\ Allowed /\ LevelAsConfigured(sessp) /\ AuthAsConfigured(sessp)
         /\ PrivAsConfigured(sessp) /\ KeysAsConfigured(sessp)

\* The level of spine_snmpv3_security_level(), once nothing is refused.
LEMMA LevelOfPairs ==
    /\ SecurityLevel = IF AuthPair /\ PrivPair THEN "authPriv"
                       ELSE IF AuthPair THEN "authNoPriv" ELSE "noAuth"
    /\ SecurityLevel \in Levels
    /\ (SecurityLevel = "noAuth") <=> ~AuthPair
<1>1. SecurityLevel = IF AuthPair /\ PrivPair THEN "authPriv"
                      ELSE IF AuthPair THEN "authNoPriv" ELSE "noAuth"
  BY Zenon DEF SecurityLevel, AuthPair, PrivPair
<1> HIDE DEF AuthPair, PrivPair
<1> QED
  BY <1>1 DEF Levels

\* A combination that snmp_host_init() does not refuse is an allowed one.
LEMMA NotRefused ==
    ASSUME ~Refused, options.auth # "unknown"
    PROVE  Allowed
BY LevelOfPairs, Zenon DEF Refused, Allowed, AuthPair, PrivPair

\* Nothing is filled in before snmp_host_init() is called.
LEMMA SessionInitially ==
    ASSUME SessionInit
    PROVE  SessionInv
<1>1. Blank \in Drafts
  BY DEF Blank, Drafts, Fields, Levels
<1>2. step = "start" /\ draft = Blank /\ owned = {} /\ sessp = Blank
      /\ options \in [version : 0..3, timeout : {0, 1}, auth : Protocols, password : BOOLEAN,
                      priv : Protocols, passphrase : BOOLEAN]
  BY Zenon DEF SessionInit
<1> QED
  BY <1>1, <1>2, Zenon DEF SessionInv

\* The pairs are of options alone, which no step changes.
LEMMA OptionsSame ==
    ASSUME options' = options
    PROVE  /\ AuthPair' = AuthPair /\ PrivPair' = PrivPair /\ Allowed' = Allowed
           /\ \A d : LevelAsConfigured(d)' = LevelAsConfigured(d)
           /\ \A d : AuthAsConfigured(d)' = AuthAsConfigured(d)
<1>1. AuthPair' = AuthPair /\ PrivPair' = PrivPair
  BY Zenon DEF AuthPair, PrivPair
<1>2. Allowed' = Allowed
  BY <1>1, Zenon DEF Allowed
<1> QED
  BY <1>1, <1>2, Zenon DEF LevelAsConfigured, AuthAsConfigured

\* Every refusal ends the call without a session.
LEMMA RefuseKeeps ==
    ASSUME SessionInv, options' = options, owned' = {}, step' = "end", draft' = draft,
           sessp' = sessp, step # "end"
    PROVE  SessionInv'
<1>1. sessp' = Blank
  BY Zenon DEF SessionInv
<1> QED
  BY <1>1, Zenon DEF SessionInv

\* The version decides which fields are filled in.
LEMMA BeginKeeps ==
    ASSUME SessionInv, Begin
    PROVE  SessionInv'
<1>1. options' = options /\ step = "start" /\ owned = {} /\ sessp = Blank
  BY Zenon DEF Begin, SessionInv
<1>2. CASE step' = "end" /\ UNCHANGED <<draft, owned, sessp>>
  BY <1>1, <1>2, RefuseKeeps, Zenon
<1>3. CASE Refuse
  BY <1>1, <1>3, RefuseKeeps DEF Refuse, Release
<1>4. CASE /\ draft' = [Blank EXCEPT !.version = options.version]
           /\ step' = IF options.version = 3 THEN "protocols" ELSE "open"
           /\ UNCHANGED sessp
  <2>1. draft' \in Drafts /\ draft'.privKey = "none"
    <3>1. options.version \in 0..3
      BY Zenon DEF SessionInv
    <3> QED
      BY <1>4, <3>1 DEF Blank, Drafts, Fields, Levels
  <2>2. step' \in {"protocols", "open"} /\ ~(step' = "open" /\ options'.version = 3)
    BY <1>1, <1>4
  <2>3. sessp' = Blank
    BY <1>1, <1>4, Zenon
  <2>4. /\ step' \in {"start", "protocols", "privacy", "keys", "open", "end"}
        /\ step' \notin {"start", "end", "privacy", "keys"}
    BY <2>2
  <2>5. options' \in [version : 0..3, timeout : {0, 1}, auth : Protocols, password : BOOLEAN,
                      priv : Protocols, passphrase : BOOLEAN]
    BY <1>1, Zenon DEF SessionInv
  <2> QED
    BY <2>1, <2>2, <2>3, <2>4, <2>5, Zenon DEF SessionInv
<1> QED
  BY <1>2, <1>3, <1>4, Zenon DEF Begin

\* The authentication protocol is the configured one, or a default.
LEMMA SetAuthProtocolKeeps ==
    ASSUME SessionInv, SetAuthProtocol
    PROVE  SessionInv'
<1>1. /\ options' = options /\ step = "protocols" /\ draft \in Drafts /\ draft.privKey = "none"
      /\ sessp = Blank
  BY Zenon DEF SetAuthProtocol, SessionInv
<1>2. options \in [version : 0..3, timeout : {0, 1}, auth : Protocols, password : BOOLEAN,
                   priv : Protocols, passphrase : BOOLEAN]
  BY Zenon DEF SessionInv
<1>3. CASE Refuse
  BY <1>1, <1>3, RefuseKeeps DEF Refuse, Release
<1>4. CASE /\ ~Refused /\ options.auth # "unknown"
           /\ draft' = [draft EXCEPT !.auth = IF ProtocolIsSet(options.auth)
                                              THEN options.auth ELSE @,
                                     !.level = SecurityLevel]
           /\ step' = "privacy" /\ UNCHANGED sessp
  <2> DEFINE auth == IF ProtocolIsSet(options.auth) THEN options.auth ELSE draft.auth
  <2>1. Allowed
    BY <1>4, NotRefused, Zenon
  <2>2. draft' = [draft EXCEPT !.auth = auth, !.level = SecurityLevel]
    BY <1>4
  <2>3. AuthPair => auth = "known"
    <3>1. options.auth \in Protocols
      BY <1>2, Zenon
    <3>2. ProtocolIsSet(options.auth) => options.auth = "known"
      BY <1>4, <3>1, ZenonT(60) DEF ProtocolIsSet, Protocols
    <3> QED
      BY <3>2, Zenon DEF AuthPair
  <2>4. auth \in Fields
    <3>1. options.auth \in Fields
      BY <1>2, Zenon DEF Fields
    <3>2. draft.auth \in Fields
      BY <1>1 DEF Drafts
    <3> QED
      BY <3>1, <3>2, Zenon
  <2>5. SecurityLevel \in Fields
    BY LevelOfPairs, Zenon DEF Fields
  <2> HIDE DEF auth
  <2>6. draft' \in Drafts /\ draft'.auth = auth /\ draft'.level = SecurityLevel
        /\ draft'.privKey = "none"
    BY <1>1, <2>2, <2>4, <2>5, ZenonT(60) DEF Drafts
  <2>7. Allowed' /\ LevelAsConfigured(draft)' /\ AuthAsConfigured(draft)'
    <3>1. Allowed' /\ AuthPair' = AuthPair /\ PrivPair' = PrivPair
      BY <1>1, <2>1, OptionsSame, Zenon
    <3>2. PrivPair => AuthPair
      BY <2>1, Zenon DEF Allowed
    <3>3. LevelAsConfigured(draft)'
      BY <2>6, <3>1, <3>2, LevelOfPairs, Zenon DEF LevelAsConfigured
    <3> QED
      BY <2>3, <2>6, <3>1, <3>3, Zenon DEF AuthAsConfigured
  <2>8. /\ step' \in {"start", "protocols", "privacy", "keys", "open", "end"}
        /\ step' \notin {"start", "end", "protocols", "keys", "open"}
    BY <1>4
  <2>9. sessp' = Blank /\ options' = options
    BY <1>1, <1>4, Zenon
  <2> QED
    BY <1>2, <2>6, <2>7, <2>8, <2>9, Zenon DEF SessionInv
<1> QED
  BY <1>3, <1>4, Zenon DEF SetAuthProtocol

\* The privacy protocol is the configured one, or none.
LEMMA SetPrivProtocolKeeps ==
    ASSUME SessionInv, SetPrivProtocol
    PROVE  SessionInv'
<1>1. /\ options' = options /\ step = "privacy" /\ draft \in Drafts /\ draft.privKey = "none"
      /\ sessp = Blank /\ Allowed /\ LevelAsConfigured(draft) /\ AuthAsConfigured(draft)
  BY Zenon DEF SetPrivProtocol, SessionInv
<1>2. options \in [version : 0..3, timeout : {0, 1}, auth : Protocols, password : BOOLEAN,
                   priv : Protocols, passphrase : BOOLEAN]
  BY Zenon DEF SessionInv
<1>3. CASE Refuse
  BY <1>1, <1>3, RefuseKeeps DEF Refuse, Release
<1>4. /\ (draft.level = "authPriv") <=> PrivPair
      /\ (draft.level = "noAuth") <=> ~AuthPair
  <2>1. PrivPair => AuthPair
    BY <1>1, Zenon DEF Allowed
  <2>2. \/ PrivPair /\ AuthPair /\ draft.level = "authPriv"
        \/ ~PrivPair /\ AuthPair /\ draft.level = "authNoPriv"
        \/ ~PrivPair /\ ~AuthPair /\ draft.level = "noAuth"
    BY <1>1, <2>1, Zenon DEF LevelAsConfigured
  <2> HIDE DEF PrivPair, AuthPair
  <2> QED
    BY <2>2
<1>5. ASSUME NEW priv \in Fields, draft' = [draft EXCEPT !.priv = priv],
             priv = IF PrivPair THEN "known" ELSE "noPriv",
             step' = IF draft.level = "noAuth" THEN "open" ELSE "keys", UNCHANGED sessp
      PROVE  SessionInv'
  <2>1. /\ draft' \in Drafts /\ draft'.priv = priv /\ draft'.level = draft.level
        /\ draft'.auth = draft.auth /\ draft'.privKey = "none"
    BY <1>1, <1>5 DEF Drafts
  <2>2. /\ Allowed' /\ AuthPair' = AuthPair /\ PrivPair' = PrivPair
    BY <1>1, OptionsSame, Zenon
  <2>3. LevelAsConfigured(draft)' /\ AuthAsConfigured(draft)' /\ PrivAsConfigured(draft)'
    BY <1>1, <1>5, <2>1, <2>2, Zenon DEF LevelAsConfigured, AuthAsConfigured, PrivAsConfigured
  <2>4. step' = "keys" => AuthPair'
    BY <1>4, <1>5, <2>2
  <2>5. step' = "open" => KeysAsConfigured(draft)'
    <3>1. PrivPair => AuthPair
      BY <1>1, Zenon DEF Allowed
    <3>2. step' = "open" => ~AuthPair /\ ~PrivPair
      BY <1>4, <1>5, <3>1
    <3> QED
      BY <2>1, <2>2, <3>2, Zenon DEF KeysAsConfigured
  <2>6. /\ step' \in {"start", "protocols", "privacy", "keys", "open", "end"}
        /\ step' \notin {"start", "end", "protocols", "privacy"}
    BY <1>5
  <2>7. sessp' = Blank /\ options' = options
    BY <1>1, <1>5, Zenon
  <2> QED
    BY <1>2, <2>1, <2>2, <2>3, <2>4, <2>5, <2>6, <2>7, Zenon DEF SessionInv
<1>6. CASE draft.level # "authPriv" /\ draft' = [draft EXCEPT !.priv = "noPriv"]
           /\ step' = (IF draft.level = "noAuth" THEN "open" ELSE "keys") /\ UNCHANGED sessp
  <2>1. "noPriv" \in Fields /\ ~PrivPair
    BY <1>4, <1>6 DEF Fields
  <2> QED
    BY <1>5, <1>6, <2>1, Zenon
<1>7. CASE draft.level = "authPriv" /\ options.priv = "known"
           /\ draft' = [draft EXCEPT !.priv = options.priv]
           /\ step' = (IF draft.level = "noAuth" THEN "open" ELSE "keys") /\ UNCHANGED sessp
  <2>1. "known" \in Fields /\ PrivPair
    BY <1>4, <1>7 DEF Fields, Protocols
  <2>2. draft' = [draft EXCEPT !.priv = "known"]
    BY <1>7
  <2> QED
    BY <1>5, <1>7, <2>1, <2>2, Zenon
<1> QED
  BY <1>3, <1>6, <1>7, Zenon DEF SetPrivProtocol

\* A level is raised only with its key derived.
LEMMA SetSecurityKeysKeeps ==
    ASSUME SessionInv, SetSecurityKeys
    PROVE  SessionInv'
<1>1. /\ options' = options /\ step = "keys" /\ draft \in Drafts /\ draft.privKey = "none"
      /\ sessp = Blank /\ Allowed /\ LevelAsConfigured(draft) /\ AuthAsConfigured(draft)
      /\ AuthPair /\ PrivAsConfigured(draft)
  BY Zenon DEF SetSecurityKeys, SessionInv
<1>2. options \in [version : 0..3, timeout : {0, 1}, auth : Protocols, password : BOOLEAN,
                   priv : Protocols, passphrase : BOOLEAN]
  BY Zenon DEF SessionInv
<1>3. CASE Refuse
  BY <1>1, <1>3, RefuseKeeps DEF Refuse, Release
<1>4. CASE /\ draft' = [draft EXCEPT !.authKey = draft.auth,
                                     !.privKey = IF draft.level = "authPriv" THEN draft.auth ELSE @]
           /\ step' = "open" /\ UNCHANGED sessp
  <2> DEFINE key_ == IF draft.level = "authPriv" THEN draft.auth ELSE draft.privKey
  <2>1. draft.auth = "known"
    BY <1>1, Zenon DEF AuthAsConfigured
  <2>2. key_ = IF PrivPair THEN "known" ELSE "none"
    <3>1. PrivPair => draft.level = "authPriv"
      BY <1>1, Zenon DEF LevelAsConfigured
    <3>2. ~PrivPair => draft.level = "authNoPriv"
      BY <1>1, Zenon DEF LevelAsConfigured
    <3> QED
      BY <1>1, <2>1, <3>1, <3>2
  <2>3. key_ \in Fields /\ draft.auth \in Fields
    <3>1. "known" \in Fields /\ "none" \in Fields
      BY DEF Fields, Protocols
    <3> QED
      BY <2>1, <2>2, <3>1, Zenon
  <2>4. draft' = [draft EXCEPT !.authKey = draft.auth, !.privKey = key_]
    BY <1>4
  <2> HIDE DEF key_
  <2>5. /\ draft' \in Drafts /\ draft'.authKey = draft.auth /\ draft'.privKey = key_
        /\ draft'.level = draft.level /\ draft'.auth = draft.auth /\ draft'.priv = draft.priv
    BY <1>1, <2>3, <2>4, ZenonT(60) DEF Drafts
  <2>6. /\ Allowed' /\ AuthPair' = AuthPair /\ PrivPair' = PrivPair
    BY <1>1, OptionsSame, Zenon
  <2>7. LevelAsConfigured(draft)' /\ AuthAsConfigured(draft)' /\ PrivAsConfigured(draft)'
    BY <1>1, <2>5, <2>6, Zenon DEF LevelAsConfigured, AuthAsConfigured, PrivAsConfigured
  <2>8. KeysAsConfigured(draft)'
    BY <2>1, <2>2, <2>5, <2>6, Zenon DEF KeysAsConfigured
  <2>9. /\ step' \in {"start", "protocols", "privacy", "keys", "open", "end"}
        /\ step' \notin {"start", "end", "protocols", "privacy", "keys"}
    BY <1>4
  <2>10. sessp' = Blank /\ options' = options
    BY <1>1, <1>4, Zenon
  <2> QED
    BY <1>2, <2>5, <2>6, <2>7, <2>8, <2>9, <2>10, Zenon DEF SessionInv
<1> QED
  BY <1>3, <1>4, Zenon DEF SetSecurityKeys

\* What is opened is what was filled in.
LEMMA OpenSessionKeeps ==
    ASSUME SessionInv, OpenSession
    PROVE  SessionInv'
<1>1. /\ options' = options /\ step = "open" /\ draft' = draft /\ step' = "end" /\ owned' = {}
      /\ sessp' \in {draft, Blank}
  BY Zenon DEF OpenSession, Release
<1>2. /\ AuthPair' = AuthPair /\ PrivPair' = PrivPair /\ Allowed' = Allowed
  BY <1>1, OptionsSame, Zenon
<1>3. ASSUME sessp' # Blank, options'.version = 3
      PROVE  /\ Allowed' /\ LevelAsConfigured(sessp)' /\ AuthAsConfigured(sessp)'
             /\ PrivAsConfigured(sessp)' /\ KeysAsConfigured(sessp)'
  <2>1. sessp' = draft
    BY <1>1, <1>3, Zenon
  <2>2. /\ Allowed /\ LevelAsConfigured(draft) /\ AuthAsConfigured(draft)
        /\ PrivAsConfigured(draft) /\ KeysAsConfigured(draft)
    BY <1>1, <1>3, Zenon DEF SessionInv
  <2> QED
    BY <1>2, <2>1, <2>2, Zenon DEF LevelAsConfigured, AuthAsConfigured, PrivAsConfigured,
                                   KeysAsConfigured
<1> QED
  BY <1>1, <1>3, Zenon DEF SessionInv

\* Every step of snmp_host_init() keeps the invariant,
LEMMA SessionStepKeeps ==
    ASSUME SessionInv, SessionNext
    PROVE  SessionInv'
BY BeginKeeps, SetAuthProtocolKeeps, SetPrivProtocolKeeps, SetSecurityKeysKeeps, OpenSessionKeeps,
   Zenon DEF SessionNext

\* and so do the steps of the others.
LEMMA SessionStutters ==
    ASSUME SessionInv, UNCHANGED sessionVars
    PROVE  SessionInv'
<1>1. UNCHANGED <<options, step, draft, owned, sessp>>
  BY Zenon DEF sessionVars
<1>2. /\ AuthPair' = AuthPair /\ PrivPair' = PrivPair /\ Allowed' = Allowed
  BY <1>1, OptionsSame, Zenon
<1>3. /\ LevelAsConfigured(draft)' = LevelAsConfigured(draft)
      /\ LevelAsConfigured(sessp)' = LevelAsConfigured(sessp)
      /\ AuthAsConfigured(draft)' = AuthAsConfigured(draft)
      /\ AuthAsConfigured(sessp)' = AuthAsConfigured(sessp)
      /\ PrivAsConfigured(draft)' = PrivAsConfigured(draft)
      /\ PrivAsConfigured(sessp)' = PrivAsConfigured(sessp)
      /\ KeysAsConfigured(draft)' = KeysAsConfigured(draft)
      /\ KeysAsConfigured(sessp)' = KeysAsConfigured(sessp)
  BY <1>1, <1>2, Zenon DEF LevelAsConfigured, AuthAsConfigured, PrivAsConfigured, KeysAsConfigured
<1> QED
  BY <1>1, <1>2, <1>3, Zenon DEF SessionInv

\* A session that meets the invariant is the configured one.
LEMMA SessionInvConfigured ==
    ASSUME SessionInv
    PROVE  SessionAsConfigured
<1>1. step = "end" => owned = {}
  BY Zenon DEF SessionInv
<1>2. ASSUME sessp # Blank, options.version = 3
      PROVE  /\ Allowed /\ LevelAsConfigured(sessp) /\ AuthAsConfigured(sessp)
             /\ PrivAsConfigured(sessp) /\ KeysAsConfigured(sessp)
  BY <1>2, Zenon DEF SessionInv
<1> QED
  BY <1>1, <1>2, Zenon DEF SessionAsConfigured, Allowed, LevelAsConfigured, AuthAsConfigured,
                           PrivAsConfigured, KeysAsConfigured, AuthPair, PrivPair

-----------------------------------------------------------------------------
(* snmp_get(), snmp_getnext() and snmp_count() *)

\* A walk that is under way has counted different names, none of them behind the
\* last one.
RequestsInv ==
    /\ kind \in {"none", "get", "allow", "next", "count"}
    /\ current \in Nat /\ number \in Nat /\ named \in Seq(Nat)
    /\ ignored \in BOOLEAN
    /\ kind = "count" => /\ failed = FALSE /\ output = ""
                         /\ IsFiniteSet(Range(named)) /\ number = Cardinality(Range(named))
                         /\ \A name \in Range(named) : name <= current
    /\ RequestsHonest

\* The elements of a sequence that grows.
LEMMA RangeAppend ==
    ASSUME NEW s \in Seq(Nat), NEW e \in Nat
    PROVE  Append(s, e) \in Seq(Nat) /\ Range(Append(s, e)) = Range(s) \cup {e}
<1>1. /\ Append(s, e) \in Seq(Nat) /\ DOMAIN Append(s, e) = DOMAIN s \cup {Len(s) + 1}
      /\ Append(s, e)[Len(s) + 1] = e /\ \A k \in DOMAIN s : Append(s, e)[k] = s[k]
  OBVIOUS
<1> QED
  BY <1>1, Zenon DEF Range

\* Nothing is asked before a request starts.
LEMMA RequestsInitially ==
    ASSUME RequestsInit
    PROVE  RequestsInv
<1>1. /\ kind = "none" /\ ignored = FALSE /\ output = "" /\ failed = FALSE
      /\ current = 0 /\ number = 0 /\ named = <<>>
  BY Zenon DEF RequestsInit
<1>2. RequestsHonest
  BY <1>1, ZenonT(60) DEF RequestsHonest
<1>3. current \in Nat /\ number \in Nat /\ named \in Seq(Nat)
  <2>1. current = 0 /\ number = 0 /\ named = <<>>
    BY <1>1, Zenon
  <2> QED
    BY <2>1
<1>4. ignored \in BOOLEAN
  BY <1>1, Zenon
<1>5. kind \in {"none", "get", "allow", "next", "count"} /\ kind # "count"
  BY <1>1
<1> QED
  BY <1>2, <1>3, <1>4, <1>5, Zenon DEF RequestsInv

\* A value comes with a variable of the reply.
LEMMA ValueFromReply ==
    ASSUME NEW reply \in Replies \cup NotSent,
           NEW result \in {GetResponse(reply), GetNextResponse(reply)}
    PROVE  /\ result.output \in {"U", "", "value"}
           /\ result.output = "value" => reply.data # "none"
<1> DEFINE Plain_(r) == r.output \in {"U", "", "value"}
           Given(r) == r.output = "value" => reply.data \in {"value", "noObject"}
<1>1. ASSUME NEW out \in {"U", ""}, NEW st, NEW host
      PROVE  Plain_(Outcome(out, st, host)) /\ Given(Outcome(out, st, host))
  BY ZenonT(60) DEF Outcome
<1>2. Plain_(GetVariable(reply.data)) /\ Given(GetVariable(reply.data))
  BY DEF Outcome, GetVariable
<1>3. /\ \E st, host : Outcome("U", st, host) = DecodeSessionError(reply)
                        \/ Outcome("", st, host) = DecodeSessionError(reply)
  BY Zenon DEF DecodeSessionError
<1>4. \/ GetResponse(reply) = GetVariable(reply.data)
      \/ GetResponse(reply) = DecodeSessionError(reply)
      \/ \E out \in {"U", ""} : \E st, host : GetResponse(reply) = Outcome(out, st, host)
  <2>1. \/ GetResponse(reply) = Outcome("U", "error", "descrip")
        \/ GetResponse(reply) = Outcome("U", "error", "success")
        \/ GetResponse(reply) = Outcome("", "success", "success")
        \/ GetResponse(reply) = GetVariable(reply.data)
        \/ GetResponse(reply) = Outcome("U", "error", "error")
        \/ GetResponse(reply) = Outcome("", "timeout", "timeout")
        \/ GetResponse(reply) = DecodeSessionError(reply)
    BY Zenon DEF GetResponse
  <2> QED
    BY <2>1, Zenon
<1>5. \/ GetNextResponse(reply) = GetResponse(reply)
      \/ GetNextResponse(reply) = DecodeSessionError(reply)
      \/ \E out \in {"U", ""} : \E st, host : GetNextResponse(reply) = Outcome(out, st, host)
  BY Zenon DEF GetNextResponse
<1> HIDE DEF Plain_, Given
<1>6. Plain_(DecodeSessionError(reply)) /\ Given(DecodeSessionError(reply))
  BY <1>1, <1>3, Zenon
<1>7. Plain_(GetResponse(reply)) /\ Given(GetResponse(reply))
  BY <1>1, <1>2, <1>4, <1>6, Zenon
<1>8. Plain_(GetNextResponse(reply)) /\ Given(GetNextResponse(reply))
  BY <1>1, <1>5, <1>6, <1>7, Zenon
<1>9. Plain_(result) /\ Given(result)
  BY <1>7, <1>8, Zenon
<1> QED
  BY <1>9, ZenonT(60) DEF Plain_, Given

\* A request that ends returns a value only for an answer, and marks the device
\* as down only with "U".
LEMMA FinishEffect ==
    ASSUME NEW result, NEW should_fail \in BOOLEAN, ignored \in BOOLEAN,
           Finish(result, should_fail), result.output \in {"U", "", "value"}
    PROVE  /\ ignored' \in BOOLEAN
           /\ output' \in {"U", "", "value"}
           /\ output' = "value" => result.output = "value"
           /\ ignored' /\ ~ignored => output' = "U"
BY ZenonT(60) DEF Finish

\* A request without repetition keeps the invariant.
LEMMA SingleKeeps ==
    ASSUME RequestsInv, NEW k \in {"get", "allow", "next"}, Single(k)
    PROVE  RequestsInv'
<1>1. /\ kind' = k /\ was_ignored' = ignored
      /\ UNCHANGED <<current, number, failed, named>>
  BY ZenonT(60) DEF Single, Ask, walkVars
<1>2. ignored \in BOOLEAN /\ (k # "allow") \in BOOLEAN
  BY Zenon DEF RequestsInv
<1>3. /\ ignored' \in BOOLEAN
      /\ output' \in {"U", "", "value"}
      /\ output' = "value" => responded'
      /\ ignored' /\ ~ignored => output' = "U"
      /\ k # "next" /\ ignored => output' = "U"
  <2>1. CASE k # "next" /\ ignored /\ output' = "U" /\ UNCHANGED <<ignored, status>>
    BY <1>2, <2>1
  <2>2. CASE /\ k = "next" \/ ~ignored
             /\ Finish(Outcome("", "descrip", status), k # "allow")
    <3> DEFINE result == Outcome("", "descrip", status)
    <3>1. result.output = ""
      BY DEF Outcome
    <3>2. Finish(result, k # "allow")
      BY <2>2, Zenon
    <3> HIDE DEF result
    <3>3. /\ ignored' \in BOOLEAN /\ output' \in {"U", "", "value"} /\ output' # "value"
          /\ ignored' /\ ~ignored => output' = "U"
      <4>1. result.output \in {"U", "", "value"} /\ result.output # "value"
        BY <3>1
      <4> QED
        BY <1>2, <3>2, <4>1, FinishEffect, Zenon
    <3> QED
      BY <2>2, <3>3, Zenon
  <2>3. CASE (k = "next" \/ ~ignored) /\ BadOid
    BY <1>2, <2>3 DEF BadOid
  <2>4. ASSUME k = "next" \/ ~ignored, NEW reply \in Replies \cup NotSent,
               Finish(IF k = "next" THEN GetNextResponse(reply) ELSE GetResponse(reply),
                      k # "allow"),
               responded' = (reply.data # "none")
        PROVE  /\ ignored' \in BOOLEAN
               /\ output' \in {"U", "", "value"}
               /\ output' = "value" => responded'
               /\ ignored' /\ ~ignored => output' = "U"
               /\ k # "next" /\ ignored => output' = "U"
    <3> DEFINE result == IF k = "next" THEN GetNextResponse(reply) ELSE GetResponse(reply)
    <3>1. result \in {GetResponse(reply), GetNextResponse(reply)}
      BY Zenon
    <3>2. Finish(result, k # "allow")
      BY <2>4, Zenon
    <3> HIDE DEF result
    <3>3. /\ result.output \in {"U", "", "value"}
          /\ result.output = "value" => reply.data # "none"
      BY <3>1, ValueFromReply, Zenon
    <3>4. /\ ignored' \in BOOLEAN /\ output' \in {"U", "", "value"}
          /\ output' = "value" => result.output = "value"
          /\ ignored' /\ ~ignored => output' = "U"
      BY <1>2, <3>2, <3>3, FinishEffect, Zenon
    <3> QED
      BY <2>4, <3>3, <3>4, Zenon
  <2> QED
    BY <2>1, <2>2, <2>3, <2>4, Zenon DEF Single
<1>4. /\ k \in {"none", "get", "allow", "next", "count"} /\ k \notin {"none", "count"}
      /\ k \in {"get", "allow"} => k # "next"
      /\ output' # "number"
  BY <1>3
<1>5. RequestsHonest'
  BY <1>1, <1>3, <1>4, Zenon DEF RequestsHonest
<1> QED
  BY <1>1, <1>3, <1>4, <1>5, Zenon DEF RequestsInv

\* snmp_count() starts with nothing counted.
LEMMA CountStartsKeeps ==
    ASSUME RequestsInv, CountStarts
    PROVE  RequestsInv'
<1>1. /\ current' = 0 /\ number' = 0 /\ failed' = FALSE /\ named' = <<>>
      /\ kind' \in {"none", "count"} /\ output' \in {"-1", ""}
      /\ kind' = "count" => output' = ""
  BY ZenonT(60) DEF CountStarts
<1>2. ignored' \in BOOLEAN
  <2>1. ignored' = TRUE \/ ignored' = ignored
    BY Zenon DEF CountStarts
  <2> QED
    BY <2>1, Zenon DEF RequestsInv
<1>3. Range(named') = {}
  <2>1. named' = <<>>
    BY <1>1, Zenon
  <2>2. DOMAIN <<>> = {}
    OBVIOUS
  <2> QED
    BY <2>1, <2>2, Zenon DEF Range
<1>4. IsFiniteSet(Range(named')) /\ number' = Cardinality(Range(named'))
  BY <1>1, <1>3, FS_EmptySet, Zenon
<1>5. RequestsHonest'
  BY <1>1, ZenonT(60) DEF RequestsHonest
<1>6. /\ current' \in Nat /\ number' \in Nat /\ named' \in Seq(Nat)
      /\ kind' \in {"none", "get", "allow", "next", "count"}
  <2>1. current' = 0 /\ number' = 0 /\ named' = <<>> /\ kind' \in {"none", "count"}
    BY <1>1, Zenon
  <2> QED
    BY <2>1
<1> QED
  BY <1>1, <1>2, <1>3, <1>4, <1>5, <1>6, Zenon DEF RequestsInv

\* Where the walk ends, the count is what was named on the way.
LEMMA CountEndsKeeps ==
    ASSUME RequestsInv, kind = "count", NEW fails \in BOOLEAN, NEW host, CountEnds(fails, host),
           number' \in Nat, named' \in Seq(Nat), current' = current,
           ~fails => responded' /\ UNCHANGED <<number, named>>
    PROVE  RequestsInv'
<1>1. /\ kind' = "none" /\ failed' = fails /\ output' = IF fails THEN "-1" ELSE "number"
      /\ fails => status' # "success" /\ ignored'
  BY DEF CountEnds
<1>2. ignored' \in BOOLEAN
  BY Zenon DEF CountEnds
<1>3. number = Cardinality(Range(named)) /\ current \in Nat
  BY Zenon DEF RequestsInv
<1>4. output' = "number" => ~fails
  BY <1>1
<1>5. RequestsHonest'
  <2>1. kind' \notin {"get", "allow", "next"}
    BY <1>1
  <2>2. output' = "number" => number' = Cardinality(Range(named)') /\ responded'
    BY <1>3, <1>4, Zenon
  <2> QED
    BY <1>1, <2>1, <2>2, Zenon DEF RequestsHonest
<1>6. kind' \in {"none", "get", "allow", "next", "count"} /\ kind' # "count"
  BY <1>1
<1> QED
  BY <1>2, <1>3, <1>5, <1>6, Zenon DEF RequestsInv

\* A response of the walk names the next object, ends the walk or fails it.
LEMMA CountResponseKeeps ==
    ASSUME RequestsInv, CountResponse
    PROVE  RequestsInv'
<1>1. kind = "count" /\ UNCHANGED <<current, number, named>>
  BY DEF CountResponse
<1>2. number' \in Nat /\ named' \in Seq(Nat)
  BY <1>1, Zenon DEF RequestsInv
<1>3. CASE CountEnds(FALSE, "success") /\ responded' = TRUE
  BY <1>1, <1>2, <1>3, CountEndsKeeps, Zenon
<1>4. CASE \E host \in {"success", "error", "timeout", "descrip"} : CountEnds(TRUE, host)
  BY <1>1, <1>2, <1>4, CountEndsKeeps, Zenon
<1> QED
  BY <1>3, <1>4, Zenon DEF CountResponse

\* A name behind the last one has not been counted.
LEMMA CountAdvanceKeeps ==
    ASSUME RequestsInv, NEW name \in 0..Outside, NEW exception \in BOOLEAN,
           CountAdvance(name, exception)
    PROVE  RequestsInv'
<1>1. /\ kind = "count" /\ responded' = TRUE /\ ignored \in BOOLEAN
      /\ failed = FALSE /\ output = "" /\ IsFiniteSet(Range(named))
      /\ number = Cardinality(Range(named))
  BY Zenon DEF RequestsInv, CountAdvance
<1>2. /\ number \in Nat /\ named \in Seq(Nat) /\ current \in Nat
      /\ \A x \in Range(named) : x <= current
  BY <1>1, Zenon DEF RequestsInv
<1>3. CASE CountEnds(FALSE, "success") /\ UNCHANGED <<current, number, named>>
  BY <1>2, <1>1, <1>3, CountEndsKeeps, Zenon
<1>4. CASE CountEnds(TRUE, "success") /\ UNCHANGED <<current, number, named>>
  BY <1>2, <1>1, <1>4, CountEndsKeeps, Zenon
<1>5. ASSUME number' = number + 1, named' = Append(named, name)
      PROVE  /\ number' \in Nat /\ named' \in Seq(Nat) /\ name \in Nat
             /\ Range(named') = Range(named) \cup {name}
  <2>1. name \in Nat
    OBVIOUS
  <2>2. number' \in Nat
    BY <1>2, <1>5
  <2> QED
    BY <1>2, <1>5, <2>1, <2>2, RangeAppend, Zenon
<1>6. CASE /\ number' = number + 1 /\ named' = Append(named, name)
           /\ name > current /\ current' = name /\ status' = "success"
           /\ UNCHANGED <<kind, failed, output, ignored>>
  <2>1. /\ number' \in Nat /\ named' \in Seq(Nat) /\ name \in Nat
        /\ Range(named') = Range(named) \cup {name}
    BY <1>5, <1>6, Zenon
  <2>2. \A x \in Range(named) : x \in Nat /\ x <= name /\ x # name
    <3>1. \A x \in Range(named) : x \in Nat
      <4>1. \A j \in DOMAIN named : named[j] \in Nat
        BY <1>2
      <4> QED
        BY <4>1, Zenon DEF Range
    <3> QED
      <4>1. name > current /\ current \in Nat /\ name \in Nat
        BY <1>2, <1>6, <2>1, Zenon
      <4> QED
        BY <1>2, <3>1, <4>1
  <2>3. \A x \in Range(named') : x <= current'
    <3>1. name <= name
      BY <2>1
    <3> QED
      BY <1>6, <2>1, <2>2, <3>1, Zenon
  <2>4. IsFiniteSet(Range(named')) /\ Cardinality(Range(named')) = Cardinality(Range(named)) + 1
    <3>1. name \notin Range(named)
      BY <2>2, Zenon
    <3>2. /\ IsFiniteSet(Range(named) \cup {name})
          /\ Cardinality(Range(named) \cup {name}) = Cardinality(Range(named)) + 1
      BY <1>1, <3>1, FS_AddElement
    <3> QED
      BY <2>1, <3>2, Zenon
  <2>5. number' = Cardinality(Range(named'))
    BY <1>1, <1>6, <2>4, Zenon
  <2>6. RequestsHonest'
    BY <1>1, <1>6, ZenonT(60) DEF RequestsHonest
  <2> QED
    BY <1>2, <1>1, <1>6, <2>1, <2>3, <2>4, <2>5, <2>6, Zenon DEF RequestsInv
<1>7. CASE /\ number' = number + 1 /\ named' = Append(named, name)
           /\ CountEnds(TRUE, "success") /\ UNCHANGED current
  BY <1>2, <1>1, <1>5, <1>7, CountEndsKeeps, Zenon
<1> QED
  BY <1>3, <1>4, <1>6, <1>7, Zenon DEF CountAdvance

\* Every step of a single request keeps the invariant,
LEMMA RequestsStepKeeps ==
    ASSUME RequestsInv, RequestsNext
    PROVE  RequestsInv'
BY SingleKeeps, CountStartsKeeps, CountResponseKeeps, CountAdvanceKeeps, Zenon DEF RequestsNext

\* and so do the steps of the others.
LEMMA RequestsStutter ==
    ASSUME RequestsInv, UNCHANGED requestVars
    PROVE  RequestsInv'
<1>1. UNCHANGED <<kind, status, ignored, was_ignored, output, current, number, failed, named,
                  responded>>
  BY DEF requestVars, walkVars
<1>2. RequestsHonest'
  BY <1>1, Zenon DEF RequestsInv, RequestsHonest
<1> QED
  BY <1>1, <1>2, Zenon DEF RequestsInv

-----------------------------------------------------------------------------
(* The specification *)

DeviceInv == PollInv /\ SessionInv /\ RequestsInv

\* All three invariants hold before anything is used.
LEMMA DeviceInitially ==
    ASSUME Init
    PROVE  DeviceInv
BY PollInitially, SessionInitially, RequestsInitially, Zenon DEF Init, DeviceInv

\* A step is a step of one piece and leaves the others at rest.
LEMMA DeviceStepKeeps ==
    ASSUME DeviceInv, [Next]_vars
    PROVE  DeviceInv'
<1>1. CASE PollStep
  <2>1. PollNext /\ UNCHANGED sessionVars /\ UNCHANGED requestVars
    BY <1>1, Zenon DEF PollStep
  <2> QED
    BY <2>1, PollStepKeeps, SessionStutters, RequestsStutter, Zenon DEF DeviceInv
<1>2. CASE SessionStep
  <2>1. SessionNext /\ UNCHANGED pollVars /\ UNCHANGED requestVars
    BY <1>2, Zenon DEF SessionStep
  <2> QED
    BY <2>1, SessionStepKeeps, PollStutters, RequestsStutter, Zenon DEF DeviceInv
<1>3. CASE RequestStep
  <2>1. RequestsNext /\ UNCHANGED pollVars /\ UNCHANGED sessionVars
    BY <1>3, Zenon DEF RequestStep
  <2> QED
    BY <2>1, RequestsStepKeeps, PollStutters, SessionStutters, Zenon DEF DeviceInv
<1>4. CASE UNCHANGED pollVars /\ UNCHANGED sessionVars /\ UNCHANGED requestVars
  BY <1>4, PollStutters, SessionStutters, RequestsStutter, Zenon DEF DeviceInv
<1>5. TextStep => UNCHANGED pollVars /\ UNCHANGED sessionVars /\ UNCHANGED requestVars
  BY Zenon DEF TextStep
<1>6. UNCHANGED vars => UNCHANGED pollVars /\ UNCHANGED sessionVars /\ UNCHANGED requestVars
  BY Zenon DEF vars
<1>7. Done => UNCHANGED vars
  BY Zenon DEF Done
<1> QED
  BY <1>1, <1>2, <1>3, <1>4, <1>5, <1>6, <1>7, Zenon DEF Next

\* The invariants of poll_host(), snmp_host_init() and the single requests hold in
\* every state, whichever of them a behaviour is about.
THEOREM DeviceInvariant == Spec => []DeviceInv
<1>1. Init => DeviceInv
  BY DeviceInitially, Zenon
<1>2. DeviceInv /\ [Next]_vars => DeviceInv'
  BY DeviceStepKeeps, Zenon
<1> QED
  BY <1>1, <1>2, PTL DEF Spec

\* Whatever the items of a device, their profiles and the size of a batch, a value
\* that poll_host() stores is the item's own, after any number of batches and of
\* requests repeated without the OIDs an agent rejects (snmp_get_multi).
THEOREM ResultsAreOwnThm == Spec => []ResultsAreOwn
<1>1. DeviceInv => ResultsAreOwn
  BY Zenon DEF DeviceInv, PollInv
<1> QED
  BY <1>1, DeviceInvariant, PTL

\* Every SNMP item of a device that is not ignored is part of a request, every
\* value the agent sends is stored unless samples are discarded, and the count
\* requests of a batch always suffice: flush_snmp_batch() and snmp_get_multi().
THEOREM EveryItemServedThm == Spec => []EveryItemServed
<1>1. DeviceInv => EveryItemServed
  BY PollInvServes, Zenon DEF DeviceInv
<1> QED
  BY <1>1, DeviceInvariant, PTL

\* poll_host() never has two sessions, and none is left that host->snmp.session
\* does not name, through any sequence of profiles and failures.
THEOREM NoSessionLostThm == Spec => []NoSessionLost
<1>1. DeviceInv => NoSessionLost
  BY PollInvServes, Zenon DEF DeviceInv
<1> QED
  BY <1>1, DeviceInvariant, PTL

\* snmp_host_init() opens a session with exactly the security the device's fields
\* ask for, or none, and leaves no copy or key behind.
THEOREM SessionAsConfiguredThm == Spec => []SessionAsConfigured
<1>1. DeviceInv => SessionAsConfigured
  BY SessionInvConfigured, Zenon DEF DeviceInv
<1> QED
  BY <1>1, DeviceInvariant, PTL

\* Any number of single requests and walks, below any number of names and with any
\* INT_MAX: a value was given for its request, a failure shows, and a count is the
\* number of different names (snmp_get_base, snmp_getnext, snmp_count).
THEOREM RequestsHonestThm == Spec => []RequestsHonest
<1>1. DeviceInv => RequestsHonest
  BY Zenon DEF DeviceInv, RequestsInv
<1> QED
  BY <1>1, DeviceInvariant, PTL

=============================================================================
