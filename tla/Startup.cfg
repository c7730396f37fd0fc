SPECIFICATION Spec
CONSTANTS
    Groups = {{"first", "last", "id", "hostlist"}, {"threads", "option"}, {"poller", "mode", "flag", "conf", "rejected"}}
    MaxArgs = 3
    MaxOptions = 2
    Focus = {"default_datechar", "log_destination", "poller_interval", "script_timeout", "php_servers", "threads"}
    Numbers = {0, 7, 101}
    Words = {"on"}
    HostIds = {1, 2}
    FatalSignals <- MCFatalSignals
INVARIANTS
    SettingsAsGiven
    OnlyIcmpIsKept
PROPERTIES
    FatalSignalEnds
