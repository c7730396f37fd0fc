------------------------------- MODULE Config -------------------------------
(***************************************************************************)
(* How Spine arrives at its settings: the command line (parse_command_     *)
(* line), the checks of spine_run() on the devices asked for, the          *)
(* configuration file (load_startup_configuration) and the Cacti settings  *)
(* table (read_config_options), in that order, up to the point where the   *)
(* devices to poll are selected.                                           *)
(*                                                                         *)
(* A text is a numeral or a word; atoi() of a word is 0. Each setting is   *)
(* read on its own, so a behaviour follows one of them, focus, and every   *)
(* other one is absent from the table. Arguments of different groups set   *)
(* different variables, so a command line has arguments of one group.      *)
(***************************************************************************)
EXTENDS Integers, Sequences

CONSTANTS
    Groups,         \* sets of kinds of argument
    MaxArgs,        \* arguments per command line
    MaxOptions,     \* the size of opttable[]
    Focus,          \* the settings looked at
    Numbers,        \* the numerals tried; "-1" is one more
    Words,          \* the words tried
    HostIds         \* the device ids tried

MaxThreads == 100
MaxPhpServers == 15
DefaultThreads == 5
Undefined == -1         \* !HOSTID_DEFINED
ConfigPaths == 4
PollerIds == {1, 2}     \* the main poller and a remote one

-----------------------------------------------------------------------------
(* Texts and settings *)

Numeral(n) == [word |-> "", num |-> n]
Word(w) == [word |-> w, num |-> 0]
Blank == Word("blank")
Absent == Word("absent")    \* no row, or a NULL
Texts == {Numeral(n) : n \in Numbers \union {-1}} \union {Word(w) : w \in Words} \union {Blank}

Atoi(t) == t.num

LogLevels == [NONE |-> 1, LOW |-> 2, MEDIUM |-> 3, HIGH |-> 4, DEBUG |-> 5]
LogDestinations == [FILE |-> 1, BOTH |-> 2, SYSLOG |-> 3, STDOUT |-> 4]

\* find_keyword_by_word(): a number if it is all digits, else its keyword
Keyword(table, t, default) ==
    IF t.word = "" /\ t.num >= 0 THEN t.num
    ELSE IF t.word \in DOMAIN table THEN table[t.word] ELSE default

LoggingOptions ==
    {"log_verbosity", "default_datechar", "default_date_format", "log_destination"}
PingOptions ==
    {"availability_method", "ping_recovery_count", "ping_failure_count",
     "ping_method", "ping_retries", "ping_timeout", "snmp_retries"}
BoolOptions ==
    {"log_perror", "log_pwarn", "boost_redirect", "boost_rrd_update_enable",
     "log_pstats"}
ProcessOptions == {"poller_interval", "concurrent_processes", "script_timeout"}
ScriptOptions ==
    {"spine_log_level", "php_servers", "active_profiles", "total_snmp_ports"}
BatchOptions == {"max_get_size"}
Settings == LoggingOptions \union PingOptions \union BoolOptions
            \union ProcessOptions \union ScriptOptions \union BatchOptions
            \union {"threads"}

\* before anything is read
Defaults ==
    [s \in Settings |->
        CASE s = "log_verbosity" -> LogLevels.LOW
          [] s = "default_datechar" -> 1
          [] s = "default_date_format" -> 5
          [] s = "log_destination" -> LogDestinations.FILE
          [] s = "threads" -> DefaultThreads
          [] OTHER -> 0]

AtLeast(low, n) == IF n < low THEN low ELSE n
AtMost(high, n) == IF n > high THEN high ELSE n
Within(low, high, n, default) == IF n \in low..high THEN n ELSE default
On == {Word("on"), Numeral(1)}

\* what Spine makes of the text of a setting
Value(s, t) ==
    LET n == Atoi(t) IN
    CASE s = "log_verbosity" -> IF n = 0 THEN Defaults[s] ELSE n
      [] s = "default_datechar" -> Within(0, 2, n, 1)
      [] s = "default_date_format" -> Within(0, 5, n, 5)
      [] s = "log_destination" -> Keyword(LogDestinations, t, LogDestinations.FILE)
      [] s \in BoolOptions -> IF t \in On THEN 1 ELSE 0
      [] s = "threads" -> AtMost(MaxThreads, n)
      [] s = "script_timeout" -> AtLeast(5, n)
      [] s = "php_servers" -> AtLeast(1, AtMost(MaxPhpServers, n))
      [] s \in {"active_profiles", "total_snmp_ports"} -> AtLeast(0, n)
      [] s = "max_get_size" -> AtMost(128, n)
      [] OTHER -> n

\* "absent" and "blank" stand for texts that are no words.
ASSUME ConfigAssumption ==
    /\ MaxArgs \in Nat /\ MaxOptions \in Nat
    /\ Focus \subseteq Settings
    /\ Numbers \subseteq Nat /\ HostIds \subseteq Nat
    /\ Words \cap {"absent", "blank"} = {}

-----------------------------------------------------------------------------
VARIABLES
    focus,          \* the setting followed
    kinds,          \* the kinds of argument on the command line
    row,            \* its text in the settings table (threads: poller table)
    pc,             \* what start-up does next
    args,           \* arguments read
    opttable,       \* the texts of focus given on the command line
    set,            \* the settings in effect
    threads_set,
    start_host_id, end_host_id, host_id_list,
    poller_id, mode, ping_only, mibs,
    path,           \* configuration files tried; -C names one
    conf_file,      \* -C was given
    cache,          \* "none", "whole" or "partial": focus is not in it
    php_required,
    (* history *)
    typed           \* the last -t value, 0 if none

world == <<focus, kinds, row>>
hosts == <<start_host_id, end_host_id, host_id_list>>
poller == <<poller_id, mode, ping_only, mibs>>
files == <<path, conf_file, cache>>
configVars == <<world, pc, args, opttable, set, threads_set, hosts, poller, files,
                php_required, typed>>

ConfigInit ==
    /\ focus \in Focus
    /\ kinds \in Groups
    /\ row \in Texts \union {Absent}
    /\ pc = "args" /\ args = 0 /\ opttable = <<>>
    /\ set = Defaults /\ threads_set = FALSE
    /\ start_host_id = Undefined /\ end_host_id = Undefined /\ host_id_list = {}
    /\ poller_id = 1 /\ mode = "online" /\ ping_only = FALSE /\ mibs = FALSE
    /\ path = 0 /\ conf_file = FALSE /\ cache = "none"
    /\ php_required = FALSE
    /\ typed = 0

-----------------------------------------------------------------------------
(* The command line: one argument *)

Reading(kind) ==
    /\ pc = "args" /\ args < MaxArgs /\ kind \in kinds
    /\ args' = args + 1
    /\ UNCHANGED <<world, files, php_required>>

\* a usage error, or --help and --version
Stop == pc' = "stopped" /\ UNCHANGED <<opttable, set, threads_set, hosts, poller, typed>>

Defined(id) == id >= 0

ArgFirst(id) ==
    /\ Reading("first")
    /\ \/ Defined(start_host_id) /\ Stop
       \/ /\ ~Defined(start_host_id)
          /\ start_host_id' = id
          /\ UNCHANGED <<pc, opttable, set, threads_set, end_host_id, host_id_list, poller,
                         typed>>

ArgLast(id) ==
    /\ Reading("last")
    /\ \/ Defined(end_host_id) /\ Stop
       \/ /\ ~Defined(end_host_id)
          /\ end_host_id' = id
          /\ UNCHANGED <<pc, opttable, set, threads_set, start_host_id, host_id_list, poller,
                         typed>>

\* A bare number is the first device, else the last one.
ArgId(id) ==
    /\ Reading("id")
    /\ \/ /\ ~Defined(start_host_id)
          /\ start_host_id' = id
          /\ UNCHANGED <<pc, opttable, set, threads_set, end_host_id, host_id_list, poller,
                         typed>>
       \/ /\ Defined(start_host_id) /\ ~Defined(end_host_id)
          /\ end_host_id' = id
          /\ UNCHANGED <<pc, opttable, set, threads_set, start_host_id, host_id_list, poller,
                         typed>>
       \/ Defined(start_host_id) /\ Defined(end_host_id) /\ Stop

ArgHostList(ids) ==
    /\ Reading("hostlist")
    /\ host_id_list' = ids
    /\ UNCHANGED <<pc, opttable, set, threads_set, start_host_id, end_host_id, poller, typed>>

ArgThreads(n) ==
    /\ Reading("threads")
    /\ \/ n < 1 /\ Stop
       \/ /\ n >= 1
          /\ set' = [set EXCEPT !["threads"] = AtMost(MaxThreads, n)]
          /\ threads_set' = TRUE
          /\ typed' = n
          /\ UNCHANGED <<pc, opttable, hosts, poller>>

ArgPoller(n) ==
    /\ Reading("poller")
    /\ poller_id' = n
    /\ UNCHANGED <<pc, opttable, set, threads_set, hosts, mode, ping_only, mibs, typed>>

ArgMode(m) ==
    /\ Reading("mode")
    /\ mode' = m
    /\ UNCHANGED <<pc, opttable, set, threads_set, hosts, poller_id, ping_only, mibs, typed>>

ArgFlag ==
    /\ Reading("flag")
    /\ \/ ping_only' = TRUE /\ UNCHANGED mibs
       \/ mibs' = TRUE /\ UNCHANGED ping_only
    /\ UNCHANGED <<pc, opttable, set, threads_set, hosts, poller_id, mode, typed>>

\* -O focus:t; -V, -S and -D are the same for log_verbosity, log_destination
ArgOption(t) ==
    /\ Reading("option")
    /\ \/ Len(opttable) = MaxOptions /\ Stop
       \/ /\ Len(opttable) < MaxOptions
          /\ opttable' = Append(opttable, t)
          /\ UNCHANGED <<pc, set, threads_set, hosts, poller, typed>>

ArgConf ==
    /\ pc = "args" /\ args < MaxArgs /\ "conf" \in kinds
    /\ args' = args + 1
    /\ conf_file' = TRUE
    /\ UNCHANGED <<world, pc, opttable, set, threads_set, hosts, poller, path,
                   cache, php_required, typed>>

\* an unknown argument, one without its value, a value that is no number, help
ArgRejected == Reading("rejected") /\ Stop

\* The end of the command line, and the checks of spine_run() that follow it.
CheckHosts ==
    /\ pc = "args"
    /\ mibs' = (mibs /\ ~ping_only)
    /\ pc' = IF \/ /\ Defined(start_host_id) # Defined(end_host_id)
                   /\ host_id_list = {}
                \/ start_host_id > end_host_id
             THEN "stopped" ELSE "file"
    /\ UNCHANGED <<world, args, opttable, set, threads_set, hosts, poller_id, mode,
                   ping_only, files, php_required, typed>>

-----------------------------------------------------------------------------
(* The configuration file *)

\* apply_config_directive(): the directives that are not database access data
Directives ==
    /\ poller_id' \in {poller_id} \union PollerIds
    /\ set' \in {set, [set EXCEPT !["log_destination"] = LogDestinations.BOTH]}

\* One file: read, cut short by an error after some directives, or not there.
ReadFile ==
    /\ pc = "file"
    /\ path' = path + 1
    /\ Directives
    /\ \/ pc' = "cache"
       \/ pc' = IF conf_file \/ path + 1 = ConfigPaths THEN "stopped" ELSE "file"
    /\ UNCHANGED <<world, args, opttable, threads_set, hosts, mode, ping_only, mibs,
                   conf_file, cache, php_required, typed>>

-----------------------------------------------------------------------------
(* The settings table *)

\* settings_cache_load(), and the connection to the remote database
LoadCache ==
    /\ pc = "cache"
    /\ \/ /\ cache' \in {"none", "whole", "partial"}
          /\ pc' = "logging"
       \/ UNCHANGED cache /\ pc' = "stopped"
    /\ UNCHANGED <<world, args, opttable, set, threads_set, hosts, poller, path,
                   conf_file, php_required, typed>>

\* the text of setting s in the table
Stored(s) == IF s = focus THEN row ELSE Absent

Getsetting_noQuery(s) ==
    IF s = focus /\ opttable # <<>> THEN Head(opttable)
    ELSE IF cache = "none" \/ (cache = "partial" /\ s = focus) \/ Stored(s) = Absent
         THEN Blank
         ELSE Stored(s)

Getsetting(s) ==
    IF s = focus /\ opttable # <<>> THEN Head(opttable)
    ELSE IF (cache = "partial" /\ s = focus) \/ Stored(s) = Absent
         THEN Blank
         ELSE Stored(s)

\* the poller table is never cached and a missing row is told apart
Getpsetting(s) == IF s = focus /\ opttable # <<>> THEN Head(opttable) ELSE Stored(s)

Read(options) ==
    [s \in Settings |-> IF s \in options THEN Value(s, Getsetting(s)) ELSE set[s]]

\* Every query of a group may fail, which ends Spine.
ReadGroup(here, next, options) ==
    /\ pc = here
    /\ \/ set' = Read(options) /\ pc' = next
       \/ cache = "none" /\ pc' = "stopped" /\ UNCHANGED set
    /\ UNCHANGED <<world, args, opttable, threads_set, hosts, poller, files,
                   php_required, typed>>

ReadLogging == ReadGroup("logging", "ping", LoggingOptions)
ReadPing == ReadGroup("ping", "flags", PingOptions)
ReadFlags == ReadGroup("flags", "process", BoolOptions)

ReadProcess ==
    /\ pc = "process"
    /\ \/ /\ LET text == Getpsetting("threads")
                 threads == IF threads_set \/ text = Absent THEN set["threads"]
                            ELSE Value("threads", text)
             IN  set' = [Read(ProcessOptions) EXCEPT !["threads"] = threads]
          /\ pc' = "script"
       \/ /\ \/ cache = "none"
             \/ ~threads_set /\ ~(focus = "threads" /\ opttable # <<>>)
          /\ pc' = "stopped" /\ UNCHANGED set
    /\ UNCHANGED <<world, args, opttable, threads_set, hosts, poller, files,
                   php_required, typed>>

ReadScript == ReadGroup("script", "php", ScriptOptions)

\* the WHERE clause on a device id
InRange(id) ==
    IF host_id_list # {} THEN id \in host_id_list
    ELSE Defined(start_host_id) /\ Defined(end_host_id)
            => id \in start_host_id..end_host_id

\* Script server items of any devices, of which the selected ones count.
ReadPhpRequirement ==
    /\ pc = "php"
    /\ \/ /\ \E items \in SUBSET HostIds : php_required' = \E id \in items : InRange(id)
          /\ pc' = "batch"
       \/ pc' = "stopped" /\ UNCHANGED php_required
    /\ UNCHANGED <<world, args, opttable, set, threads_set, hosts, poller, files, typed>>

ReadBatch == ReadGroup("batch", "interval", BatchOptions)

\* spine_run() again, then polling starts.
DefaultInterval ==
    /\ pc = "interval"
    /\ set' = [set EXCEPT !["poller_interval"] = IF @ = 0 THEN 300 ELSE @]
    /\ pc' = "run"
    /\ UNCHANGED <<world, args, opttable, threads_set, hosts, poller, files,
                   php_required, typed>>

ConfigNext ==
    \/ \E id \in HostIds : ArgFirst(id) \/ ArgLast(id) \/ ArgId(id)
    \/ \E ids \in SUBSET HostIds \ {{}} : ArgHostList(ids)
    \/ \E n \in Numbers : ArgThreads(n)
    \/ \E n \in PollerIds : ArgPoller(n)
    \/ \E m \in {"online", "offline", "recovery"} : ArgMode(m)
    \/ \E t \in Texts : ArgOption(t)
    \/ ArgFlag \/ ArgConf \/ ArgRejected
    \/ CheckHosts \/ ReadFile \/ LoadCache
    \/ ReadLogging \/ ReadPing \/ ReadFlags \/ ReadProcess \/ ReadScript
    \/ ReadPhpRequirement \/ ReadBatch \/ DefaultInterval

-----------------------------------------------------------------------------
(* Properties *)

\* what is used of a text: no interval is one of five minutes
Used(s, t) == IF s = "poller_interval" /\ Value(s, t) = 0 THEN 300 ELSE Value(s, t)

\* A setting comes from the command line if it was given there (the last -t,
\* which no -O threads overrides, or the first -O of a name), else from its row,
\* whether or not the table could be cached; only a cache that ran out of memory
\* halfway loses a row. Wherever it came from, or from nowhere at all, it is what
\* the rest of Spine builds on: as many script servers as php_processes[] has room
\* for and at least one, a script timeout that is not zero, a thread count within
\* the connection pools' cap, an interval that is not zero, known log formats. Two
\* have no lower bound and are used as given: a negative interval, and a thread
\* count below one from the poller table or -O.
SettingsAsGiven ==
    pc = "run" =>
        /\ typed > 0 => set["threads"] = AtMost(MaxThreads, typed)
        /\ (focus = "threads" => typed = 0) =>
              /\ opttable # <<>> => set[focus] = Used(focus, opttable[1])
              /\ opttable = <<>> /\ row # Absent /\ cache # "partial"
                    => set[focus] = Used(focus, row)
        /\ set["php_servers"] \in 1..MaxPhpServers
        /\ set["script_timeout"] >= 5
        /\ set["threads"] <= MaxThreads
        /\ set["poller_interval"] # 0
        /\ set["default_datechar"] \in 0..2 /\ set["default_date_format"] \in 0..5
        /\ set["max_get_size"] <= 128
=============================================================================
