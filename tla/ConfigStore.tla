----------------------------- MODULE ConfigStore -----------------------------
(***************************************************************************)
(* The config file and the commands that read and write it: Config::load   *)
(* and Config::save of src/src/config.rs, called by the commands of        *)
(* src/src/cli/commands.rs, each a process of its own.  Of a config we     *)
(* keep which providers are enabled and the url of the gateway, which the  *)
(* environment overrides and which stands for all that validate looks at.  *)
(***************************************************************************)
EXTENDS Naturals, FiniteSets, Sequences

CONSTANTS
    Processes,  \* runs of the command line tool
    Providers,  \* the providers of the first config
    Urls,       \* of gateways
    Sound,      \* those of them that validate accepts
    Url,        \* that of the first config
    None

ASSUME ConfigAssumption ==
    /\ Sound \subseteq Urls
    /\ Url \in Sound
    /\ None \notin Urls \cup Processes

Configs ==
    UNION {[enabled: [S -> BOOLEAN], url: Urls] : S \in {{}, Providers}}

\* A file that is there is told from one that is not.
ASSUME NoneAssumption ==
    /\ None \notin [config: Configs, whole: BOOLEAN, by: Processes]
    /\ None \notin [config: Configs, whole: BOOLEAN]
    /\ None \notin Configs

\* `config enable`, `config disable`, `config export --toml` over the same
\* path, and `config generate` or `config wizard`.
Jobs ==
    [kind: {"toggle"}, provider: Providers, on: BOOLEAN]
        \cup [kind: {"export"}]
        \cup [kind: {"generate"}, url: Urls]

VARIABLES
    file,  \* the config at the path, and whether all of it is there; or None
    tmp,   \* the same for path.tmp, and who has made it; or None
    env,   \* a process -> its APERTURE_BASE_URL, or None
    pc, job,
    hand   \* a process -> the config it has in hand, or None

vars == <<file, tmp, env, pc, job, hand>>

First == [enabled |-> [p \in Providers |-> TRUE], url |-> Url]

Idle == [kind |-> "none"]

Init ==
    /\ file \in {None, [config |-> First, whole |-> TRUE]}
    /\ tmp = None
    /\ env \in [Processes -> Urls \cup {None}]
    /\ pc = [p \in Processes |-> "idle"]
    /\ job = [p \in Processes |-> Idle]
    /\ hand = [p \in Processes |-> None]

Valid(c) == c.url \in Sound

Goto(p, label) == pc' = [pc EXCEPT ![p] = label]

\* Only `generate` starts from a config of its own.
Begin(p, j) ==
    /\ pc[p] = "idle"
    /\ job' = [job EXCEPT ![p] = j]
    /\ IF j.kind = "generate"
       THEN /\ hand' = [hand EXCEPT ![p] = [enabled |-> << >>, url |-> j.url]]
            /\ Goto(p, "create")
       ELSE Goto(p, "load") /\ UNCHANGED hand
    /\ UNCHANGED <<file, tmp, env>>

\* The config of the file with the environment over it.
Overridden(p) ==
    IF env[p] = None THEN file.config ELSE [file.config EXCEPT !.url = env[p]]

Edited(c, j) ==
    IF j.kind = "toggle" THEN [c EXCEPT !.enabled[j.provider] = j.on] ELSE c

\* What half a file holds does not parse.
Load(p) ==
    /\ pc[p] = "load"
    /\ IF /\ file # None /\ file.whole /\ Valid(Overridden(p))
          /\ job[p].kind = "toggle"
                => job[p].provider \in DOMAIN file.config.enabled
       THEN /\ hand' = [hand EXCEPT ![p] = Edited(Overridden(p), job[p])]
            /\ Goto(p, "create")
       ELSE Goto(p, "failed") /\ UNCHANGED hand
    /\ UNCHANGED <<file, tmp, env, job>>

\* MUTANT: a temporary file that is there is taken and emptied.
CreateOrTruncate(p) ==
    /\ pc[p] = "create"
    /\ tmp' = [config |-> hand[p], whole |-> FALSE, by |-> p]
    /\ Goto(p, "write")
    /\ UNCHANGED <<file, env, job, hand>>

\* create_new: the file must not be there.
Create(p) ==
    /\ pc[p] = "create"
    /\ IF tmp = None
       THEN /\ tmp' = [config |-> hand[p], whole |-> FALSE, by |-> p]
            /\ Goto(p, "write")
       ELSE Goto(p, "failed") /\ UNCHANGED tmp
    /\ UNCHANGED <<file, env, job, hand>>

\* MUTANT: whether the write has succeeded is not looked at.
WriteUnchecked(p) ==
    /\ pc[p] = "write"
    /\ \E w \in BOOLEAN : tmp' = [tmp EXCEPT !.whole = w]
    /\ Goto(p, "rename")
    /\ UNCHANGED <<file, env, job, hand>>

\* The file keeps what a failed write has left in it.
Write(p) ==
    /\ pc[p] = "write"
    /\ \/ /\ tmp' = [tmp EXCEPT !.whole = TRUE]
          /\ Goto(p, "rename")
       \/ UNCHANGED tmp /\ Goto(p, "failed")
    /\ UNCHANGED <<file, env, job, hand>>

\* MUTANT: a rename that fails leaves the temporary file there.
RenameOnly(p) ==
    /\ pc[p] = "rename"
    /\ \/ /\ file' = [config |-> tmp.config, whole |-> tmp.whole]
          /\ tmp' = None
          /\ Goto(p, "done")
       \/ /\ Goto(p, "failed")
          /\ UNCHANGED <<file, tmp>>
    /\ UNCHANGED <<env, job, hand>>

\* A rename that fails removes the temporary file.
Rename(p) ==
    /\ pc[p] = "rename"
    /\ tmp' = None
    /\ \/ /\ file' = [config |-> tmp.config, whole |-> tmp.whole]
          /\ Goto(p, "done")
       \/ /\ Goto(p, "failed")
          /\ UNCHANGED file
    /\ UNCHANGED <<env, job, hand>>

\* The process is killed.
Crash(p) ==
    /\ pc[p] \in {"load", "create", "write", "rename"}
    /\ Goto(p, "crashed")
    /\ UNCHANGED <<file, tmp, env, job, hand>>

Next ==
    \E p \in Processes :
        \/ \E j \in Jobs : Begin(p, j)
        \/ Load(p) \/ Create(p) \/ Write(p) \/ Rename(p) \/ Crash(p)

Spec == Init /\ [][Next]_vars

-----------------------------------------------------------------------------
(* Properties *)

\* What the files and the processes hold are configs and labels.
TypeOK ==
    /\ file \in [config: Configs, whole: BOOLEAN] \cup {None}
    /\ tmp \in [config: Configs, whole: BOOLEAN, by: Processes] \cup {None}
    /\ env \in [Processes -> Urls \cup {None}]
    /\ pc \in [Processes -> {"idle", "load", "create", "write", "rename",
                             "done", "failed", "crashed"}]
    /\ job \in [Processes -> Jobs \cup {Idle}]
    /\ hand \in [Processes -> Configs \cup {None}]

\* Whoever is killed, fails or saves at the same time, the path never holds
\* part of a config (docs/reference/configuration.md:172).
FileWhole == file # None => file.whole

\* create_new makes a save exclusive: the file that a process is about to
\* rename is its own, and nobody has touched it since it was written.
SaveUndisturbed ==
    \A p \in Processes :
        pc[p] = "rename" =>
            tmp = [config |-> hand[p], whole |-> TRUE, by |-> p]

\* A temporary file that nobody will ever remove, and that makes every later
\* save fail, comes only from a process that was killed or could not write.
OnlyAccidentsLeaveTemp ==
    tmp # None =>
        \/ pc[tmp.by] \in {"write", "rename", "crashed"}
        \/ pc[tmp.by] = "failed" /\ ~tmp.whole

\* A command may be killed, or fail, at any step of a save: the config stays
\* whole, and nothing else leaves a temporary file behind.
CrashSafe == FileWhole /\ OnlyAccidentsLeaveTemp

=============================================================================
