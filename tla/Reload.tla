------------------------------- MODULE Reload -------------------------------
(* The configuration: what config.Load makes of the file and the environment, and the
   reloader of cmd/synapsed, which loads the file again on SIGHUP, applies the settings a
   running daemon can change and names the others as needing a restart.
   A setting is a section of the file, or the part of one that the reloader compares; its
   value is a number or Bad, one that validate rejects.  The alert policy's thresholds by
   class are settings of their own: 0 is a class without one. *)
EXTENDS Naturals

CONSTANTS
    Bad,
    Unreadable,  \* a file that cannot be read or decoded, or has an unknown key
    NoPath,      \* the daemon runs without --config
    Contents,       \* contents of the file: Unreadable, or values for some of the settings
    Envs,        \* environments: values for some of the settings
    FlagSets,    \* command lines: values for some of the settings
    MaxEdits, MaxHangups, MaxRestarts   \* bounds

PerClass == {"alerts.per_class.scan", "alerts.per_class.suspicious"}
Policy == {"alerts.policy"} \cup PerClass
Live == {"logging.level"} \cup Policy
Restart ==
    {"logging.format", "alerts.max_recent", "alerts.dedup_window_sec", "server", "storage", "capture",
     "models", "datasets", "training", "review", "live", "retention"}
Settings == Live \cup Restart \cup {"drift", "auth"}

ASSUME FileAssumption ==
    /\ NoPath \notin Contents
    /\ \A f \in Contents \ {Unreadable} : DOMAIN f \subseteq Settings /\ \A s \in DOMAIN f : f[s] \in Nat \cup {Bad}
\* the only override on the command line is --listen
ASSUME FlagsAssumption == \A f \in FlagSets : DOMAIN f \cap Live = {}

VARIABLES
    file, env, flags,
    running,        \* what the daemon runs on
    cur,            \* reloader.cur
    signal,         \* a SIGHUP waits in watch's channel
    at,             \* where watch is: "wait", "load", "level" or "policy"
    next,           \* the configuration being applied
    reported,       \* settings named as needing a restart since the start
    valid, wanted,   \* configurations the file has validly stood for; a SIGHUP came after the last edit
    edits, hangups, restarts

reloadVars == <<file, env, flags, running, cur, signal, at, next, reported, valid, wanted, edits, hangups, restarts>>

Over(values, settings) == [s \in Settings |-> IF s \in DOMAIN values THEN values[s] ELSE settings[s]]
Default == [s \in Settings |-> IF s = "alerts.per_class.suspicious" THEN 5 ELSE 0]
FileValues(f) == IF f = NoPath THEN Default ELSE Over(f, Default)
\* config.Load: the file over the defaults, the environment over both; only the result is
\* validated.  Decoding into the default table of thresholds keeps the classes the file leaves out.
Load(f, e) == Over(e, FileValues(f))
Accepted(f, e) == f # Unreadable /\ \A s \in Settings : Load(f, e)[s] # Bad
RestartRequired(old, new) == {s \in Restart : old[s] # new[s]}

ReloadInit ==
    /\ file \in Contents \cup {NoPath} /\ env \in Envs /\ flags \in FlagSets
    /\ Accepted(file, env)
    /\ running = Over(flags, Load(file, env)) /\ cur = running
    /\ signal = FALSE /\ at = "wait" /\ next = cur /\ reported = {}
    /\ valid = {Load(file, env)} /\ wanted = FALSE
    /\ edits = 0 /\ hangups = 0 /\ restarts = 0

Edit ==
    /\ file # NoPath /\ edits < MaxEdits
    /\ file' \in Contents \ {file}
    /\ valid' = IF Accepted(file', env) THEN valid \cup {Load(file', env)} ELSE valid
    /\ wanted' = FALSE /\ edits' = edits + 1
    /\ UNCHANGED <<env, flags, running, cur, signal, at, next, reported, hangups, restarts>>

\* mutant: the channel has no room, and a signal that comes during a reload is dropped
HangupUnbuffered ==
    /\ hangups < MaxHangups
    /\ signal' = (signal \/ at = "wait") /\ wanted' = TRUE /\ hangups' = hangups + 1
    /\ UNCHANGED <<file, env, flags, running, cur, at, next, reported, valid, edits, restarts>>

\* signal.Notify drops a signal that finds the channel full
Hangup ==
    /\ hangups < MaxHangups
    /\ signal' = TRUE /\ wanted' = TRUE /\ hangups' = hangups + 1
    /\ UNCHANGED <<file, env, flags, running, cur, at, next, reported, valid, edits, restarts>>
Take ==
    /\ at = "wait" /\ signal
    /\ signal' = FALSE /\ at' = "load"
    /\ UNCHANGED <<file, env, flags, running, cur, next, reported, valid, wanted, edits, hangups, restarts>>

LoadFile ==
    /\ at = "load"
    /\ IF file = NoPath \/ ~Accepted(file, env) THEN at' = "wait" /\ UNCHANGED next
       ELSE at' = "level" /\ next' = Load(file, env)
    /\ UNCHANGED <<file, env, flags, running, cur, signal, reported, valid, wanted, edits, hangups, restarts>>

\* settings are touched only when the reloader's own two configurations differ in one of them
Apply(settings) ==
    running' = IF \A s \in settings : cur[s] = next[s] THEN running
               ELSE [s \in Settings |-> IF s \in settings THEN next[s] ELSE running[s]]

ApplyLevel ==
    /\ at = "level" /\ at' = "policy"
    /\ Apply({"logging.level"})
    /\ UNCHANGED <<file, env, flags, cur, signal, next, reported, valid, wanted, edits, hangups, restarts>>

\* SetPolicy returns once the alert store has taken the policy
ApplyPolicy ==
    /\ at = "policy" /\ at' = "wait"
    /\ Apply(Policy)
    /\ cur' = next /\ reported' = reported \cup RestartRequired(cur, next)
    /\ UNCHANGED <<file, env, flags, signal, next, valid, wanted, edits, hangups, restarts>>

\* run: the command line is laid over the loaded configuration, after the validation
RestartDaemon ==
    /\ restarts < MaxRestarts /\ Accepted(file, env)
    /\ running' = Over(flags, Load(file, env)) /\ cur' = running'
    /\ signal' = FALSE /\ at' = "wait" /\ next' = cur' /\ reported' = {}
    /\ restarts' = restarts + 1
    /\ UNCHANGED <<file, env, flags, valid, wanted, edits, hangups>>

ReloadNext == Edit \/ Hangup \/ Take \/ LoadFile \/ ApplyLevel \/ ApplyPolicy \/ RestartDaemon

ReloadSpec == ReloadInit /\ [][ReloadNext]_reloadVars

-----------------------------------------------------------------------------
SameLive(a, b) == \A s \in Live : a[s] = b[s]

(* Between two reloads the level and the policy in force are those of one configuration that
   the file has validly stood for: never the good half of a bad file, never a mixture. *)
OneValidFile == at = "wait" => \E c \in valid : SameLive(running, c)

(* Once the reloader is idle after a SIGHUP that came later than the last edit, a valid file is
   in force, however many signals were merged into one and whatever was read half way. *)
AskedIsHeard == at = "wait" /\ ~signal /\ wanted /\ Accepted(file, env) => SameLive(running, Load(file, env))

(* A setting the running daemon does not have as the last accepted file has it was named as
   needing a restart by the reload that saw it change, or by an earlier one. *)
DivergenceWasReported == at = "wait" => \A s \in Restart : running[s] # cur[s] => s \in reported

(* The comment of reloader (reload.go:17): what is not applied is reported as needing a restart. *)
EverythingElseIsReported == at = "wait" => \A s \in Settings \ Live : running[s] # cur[s] => s \in reported

(* The comment of PerClassMinConfidence (config.go:254): a table in the file replaces the
   default one, so a class the file's table leaves out has no threshold of its own. *)
TableReplacesDefault ==
    at = "wait" /\ ~signal /\ wanted /\ file # NoPath /\ Accepted(file, env) /\ DOMAIN file \cap PerClass # {}
        => \A c \in PerClass \ DOMAIN file : running[c] = 0

\* A reload keeps its word: one valid file in force, the last SIGHUP heard, and what needs a
\* restart named.
ReloadKeepsItsWord == OneValidFile /\ AskedIsHeard /\ DivergenceWasReported

=============================================================================
