---------------------------- MODULE Settings ----------------------------
(***************************************************************************)
(* Transcription providers: config.toml of the desktop shell               *)
(* (crates/app/src/config/transcription.rs), the keys in the keyring of    *)
(* the operating system, the registry built from both when the process     *)
(* starts (crates/app/src/container.rs), and the settings modal, which     *)
(* writes both, the config from the copy its query cached.  The command    *)
(* line shares the keyring, and has a config.toml of its own that it only  *)
(* reads.                                                                  *)
(*                                                                         *)
(* Of a provider only its name counts.  An unknown preset, which only an   *)
(* editor can write, has the effect of a malformed file at a start.        *)
(***************************************************************************)
EXTENDS DesktopProcess

CONSTANTS
    Provider, NoProvider,
    Absent,    \* no file; no cached config
    Malformed  \* a file that is no TOML

ASSUME SettingsAssumption == NoProvider \notin Provider

VARIABLES
    config,   \* config.toml: active_provider and the providers
    keyring,  \* the providers with a key
    registry, \* TranscriberRegistry: the backends and the active one
    cached,   \* the config query of the webview
    modal,    \* the save in progress
    omitted,  \* providers saved without a key, or whose key was deleted
    unread    \* those whose key this process could not read when it started

settingsVars == <<config, keyring, registry, cached, modal, omitted, unread>>

\* torn, a history: a write of the file was cut short, and this is what it left.
Default == [active |-> NoProvider, has |-> {}, torn |-> FALSE]
Closed  == [step |-> "closed", name |-> NoProvider, key |-> FALSE, setAsActive |-> FALSE,
            draft |-> Default]
NoBackends == [on |-> {}, active |-> NoProvider]

\* TranscriptionConfig::load of a readable file.
load == IF config = Absent THEN Default ELSE config

\* Providers without a key that can be read are skipped.  An error (the file, or
\* the active provider is not registered) leaves a registry without any backend.
build_transcription_use_case(readable) ==
    LET on == load.has \cap readable
    IN  IF \/ config = Malformed
           \/ load.active \notin on \cup {NoProvider}
          THEN NoBackends
          ELSE [on |-> on, active |-> load.active]

SettingsInit ==
    /\ config \in {Absent, Malformed}
    /\ keyring = {}
    /\ registry = NoBackends
    /\ cached = Absent
    /\ modal = Closed
    /\ omitted = {}
    /\ unread = {}

\* The query is run when the sidebar mounts and the copy is older than five
\* minutes; an error leaves the copy.
FetchConfig ==
    /\ running
    /\ config # Malformed
    /\ cached # load
    /\ cached' = load
    /\ UNCHANGED <<config, keyring, registry, modal, omitted, unread>>

\* Save is enabled once the query has succeeded.
Save(p, key, setAsActive) ==
    /\ running
    /\ modal.step = "closed"
    /\ cached # Absent
    /\ Call
    /\ modal' = [Closed EXCEPT !.step = "key", !.name = p, !.key = key, !.setAsActive = setAsActive]
    /\ UNCHANGED <<config, keyring, registry, cached, omitted, unread>>

\* Mutant: an error of the keyring is shown, and the save goes on.
set_provider_key_ignored ==
    /\ modal.step = "key"
    /\ modal.key
    /\ modal' = [modal EXCEPT !.step = "config"]
    /\ \/ /\ keyring' = keyring \cup {modal.name}
          /\ omitted' = omitted \ {modal.name}
       \/ UNCHANGED <<keyring, omitted>>
    /\ UNCHANGED <<config, registry, cached, unread>>

set_provider_key ==
    /\ modal.step = "key"
    /\ modal.key
    /\ \/ /\ keyring' = keyring \cup {modal.name}
          /\ omitted' = omitted \ {modal.name}
          /\ modal' = [modal EXCEPT !.step = "config"]
       \/ modal' = Closed /\ UNCHANGED <<keyring, omitted>>
    /\ UNCHANGED <<config, registry, cached, unread>>

\* An empty key field keeps what the keyring has.
NoKeyGiven ==
    /\ modal.step = "key"
    /\ ~modal.key
    /\ omitted' = omitted \cup ({modal.name} \ keyring)
    /\ modal' = [modal EXCEPT !.step = "config"]
    /\ UNCHANGED <<config, keyring, registry, cached, unread>>

\* The cached config with the entry.
Draft == [active |-> IF modal.setAsActive THEN modal.name ELSE cached.active,
          has    |-> cached.has \cup {modal.name},
          torn   |-> cached.torn /\ ~modal.setAsActive]

\* What may be there while the file is written: nothing yet, or it ends early.
Torn(c) ==
    {Malformed, [Default EXCEPT !.torn = TRUE]}
        \cup [active : {c.active}, has : SUBSET c.has, torn : {TRUE}]

\* save() puts the draft in place of the table that is there, whatever that says
\* by now.  It fails before it writes, or fs::write truncates the file.
update_transcription_config ==
    /\ modal.step = "config"
    /\ \/ /\ config' \in Torn(Draft)
          /\ modal' = [modal EXCEPT !.step = "writing", !.draft = Draft]
       \/ modal' = Closed /\ UNCHANGED config
    /\ UNCHANGED <<keyring, registry, cached, omitted, unread>>

\* The write ends, or fails and leaves what it wrote.
SaveEnds ==
    /\ modal.step = "writing"
    /\ config' \in {config, modal.draft}
    /\ modal' = Closed
    /\ UNCHANGED <<keyring, registry, cached, omitted, unread>>

\* `perima auth set` and `delete`.
auth_set(p) ==
    /\ Call
    /\ keyring' = keyring \cup {p}
    /\ omitted' = omitted \ {p}
    /\ UNCHANGED <<config, registry, cached, modal, unread>>

auth_delete(p) ==
    /\ Call
    /\ p \in keyring
    /\ keyring' = keyring \ {p}
    /\ omitted' = omitted \cup {p}
    /\ UNCHANGED <<config, registry, cached, modal, unread>>

\* The file is damaged in an editor.
EditByHand ==
    /\ config \notin {Absent, Malformed}
    /\ Call
    /\ config' = Malformed
    /\ UNCHANGED <<keyring, registry, cached, modal, omitted, unread>>

\* A locked or absent keyring is an error like a missing key: info!, and skip.
SettingsStart ==
    /\ \E readable \in SUBSET keyring :
          /\ registry' = build_transcription_use_case(readable)
          /\ unread' = keyring \ readable
    /\ UNCHANGED <<config, keyring, cached, modal, omitted>>

SettingsDies ==
    /\ registry' = NoBackends
    /\ cached' = Absent
    /\ modal' = Closed
    /\ unread' = {}
    /\ UNCHANGED <<config, keyring, omitted>>

SettingsNext ==
    \/ \E p \in Provider : \/ \E key, setAsActive \in BOOLEAN : Save(p, key, setAsActive)
                           \/ auth_set(p) \/ auth_delete(p)
    \/ EditByHand
    \/ /\ FetchConfig \/ set_provider_key \/ NoKeyGiven
          \/ update_transcription_config \/ SaveEnds
       /\ UNCHANGED calls

\* "Restart perima for the new provider configuration to take effect": the
\* next start has the active provider of a readable config.toml, however the
\* saves that wrote it failed, ended with the process or overtook each other,
\* unless the user left out its key, the keyring does not give it, or the
\* process ended or the disk failed in the midst of fs::write.
ActiveStarts ==
    [][~running /\ running' /\ config # Malformed /\ ~load.torn
          /\ load.active \notin omitted \cup unread'
          => registry'.active = load.active]_<<running, settingsVars>>

\* A save "would wipe every other configured provider" only if the config was
\* not loaded yet.  It wipes those that were saved since, and all if it is cut
\* short.
SaveKeepsProviders ==
    [][config \notin {Absent, Malformed} /\ config' # Malformed
          => config.has \subseteq config'.has]_settingsVars
=============================================================================
