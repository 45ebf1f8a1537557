------------------------------- MODULE Exports -------------------------------
(***************************************************************************)
(* `config export --opencode` and `--openclaw`, and the end of the wizard: *)
(* commands that go on, with the config they have loaded or saved          *)
(* (ConfigStore), to merge their settings into a file of another tool,     *)
(* which its user edits as well (src/src/cli/commands.rs,                  *)
(* opencode_export.rs and openclaw_export.rs).  With -o both formats may   *)
(* be written to one path; it is the one modelled here.                    *)
(***************************************************************************)
EXTENDS ConfigStore

CONSTANT MaxEdits  \* bound: how often the user edits the file

ASSUME ExportsAssumption == MaxEdits \in Nat /\ Processes \cap Nat = {}

\* Whose is what in the file: "router" is what an OpenCode export sets
\* (model, small_model and its own provider), "aperture" are the aperture-*
\* providers of an OpenClaw export and "model" is agents.defaults.model,
\* which it may set.  The rest is the user's: the other providers of either
\* tool, the other agents, and all other settings.
UserKeys == {"providers", "others", "model", "agents", "rest"}
Keys == UserKeys \cup {"router", "aperture"}

VARIABLES
    target,  \* the file, or None; its text is "whole", "empty" or "torn"
    tool,    \* a process -> what it does: "no" for no export as yet
    format,  \* a process -> the format it exports
    merged,  \* a process -> the settings it is going to write
    edits,   \* how often the user has edited the file
    users,   \* history: the settings of the user, by key; 0 for none
    raced,   \* history: the user has edited during an export
    broken   \* history: a write was cut off, or overlapped another

targets == <<target, tool, format, merged, edits, users, raced, broken>>
exportVars == <<vars, targets>>

\* What sets a key: nobody (0), the user (a number), or a process.
Settings == [Keys -> Nat \cup Processes]

\* A file that is there is told from one that is not.
ASSUME NoFileAssumption ==
    None \notin [settings: Settings, text: {"whole", "empty", "torn"}]

Nothing == [k \in Keys |-> 0]

File(settings, text) == [settings |-> settings, text |-> text]

\* Only the user has set anything.
UsersOwn == [k \in Keys |-> IF k \in UserKeys THEN users[k] ELSE 0]

ExportInit ==
    /\ Init
    /\ \E set \in {{}, UserKeys, UserKeys \ {"model"}} :
          users = [k \in UserKeys |-> IF k \in set THEN 1 ELSE 0]
    /\ target = IF \A k \in UserKeys : users[k] = 0 THEN None
                ELSE File(UsersOwn, "whole")
    /\ tool = [p \in Processes |-> "no"]
    /\ format = [p \in Processes |-> None]
    /\ merged = [p \in Processes |-> Nothing]
    /\ edits = 0
    /\ raced = FALSE /\ broken = FALSE

Step(p, from, to) == tool[p] = from /\ tool' = [tool EXCEPT ![p] = to]

others == <<vars, edits, users>>

-----------------------------------------------------------------------------
(* An export *)

\* The config is loaded, and saved if that was asked for too.
Ready(p) ==
    \/ pc[p] = "done" /\ job[p].kind \in {"export", "generate"}
    \/ pc[p] = "create" /\ job[p].kind = "export"

\* The OpenCode file comes first; the wizard has no other.
Following(p) ==
    CASE tool[p] = "no" /\ Ready(p) ->
            IF job[p].kind = "generate" THEN {"opencode"}
                                        ELSE {"opencode", "openclaw"}
      [] tool[p] = "done" /\ job[p].kind = "export"
            /\ format[p] = "opencode" -> {"openclaw"}
      [] OTHER -> {}

\* fetch_models, which may fail; the wizard has done so before it saved.
Fetch(p) ==
    /\ \E f \in Following(p) : format' = [format EXCEPT ![p] = f]
    /\ \/ tool' = [tool EXCEPT ![p] = "read"]
       \/ job[p].kind = "export" /\ tool' = [tool EXCEPT ![p] = "failed"]
    /\ UNCHANGED <<target, merged, raced, broken, others>>

\* from_router_config and merge_with_existing of OpenCodeConfig: `provider`
\* is replaced as a whole.  Without models there is no export.
OpenCodeMerges(p, old) == {[old EXCEPT !["router"] = p, !["providers"] = 0]}

\* MUTANT: `agents` is replaced even where a model is set.
OpenClawMergesAgents(p, old) ==
    LET new == [old EXCEPT !["aperture"] = p]
    IN  {old, [new EXCEPT !["model"] = IF @ # 0 THEN @ ELSE p, !["agents"] = 0]}

\* The same of OpenClawConfig: where no model is set, `agents` is replaced
\* as a whole.  Without models nothing is set.
OpenClawMerges(p, old) ==
    LET new == [old EXCEPT !["aperture"] = p]
    IN  {old, IF old["model"] # 0 THEN new
              ELSE [new EXCEPT !["model"] = p, !["agents"] = 0]}

Merges(p, old) ==
    IF format[p] = "opencode" THEN OpenCodeMerges(p, old)
                              ELSE OpenClawMerges(p, old)

\* MUTANT: a file that does not parse is taken for one that is not there.
ReadOrStartAfresh(p) ==
    /\ LET old == IF target = None \/ target.text # "whole" THEN Nothing
                                                           ELSE target.settings
       IN  \E new \in Merges(p, old) : merged' = [merged EXCEPT ![p] = new]
    /\ Step(p, "read", "open")
    /\ UNCHANGED <<target, format, raced, broken, others>>

\* A symlink is refused, and what does not parse cannot be merged with.
Read(p) ==
    /\ \/ /\ target # None => target.text = "whole"
          /\ LET old == IF target = None THEN Nothing ELSE target.settings
             IN  \E new \in Merges(p, old) : merged' = [merged EXCEPT ![p] = new]
          /\ Step(p, "read", "open")
       \/ Step(p, "read", "failed") /\ UNCHANGED merged
    /\ UNCHANGED <<target, format, raced, broken, others>>

Writing(p) == tool[p] = "write"

\* MUTANT: the file is opened as it is.
OpenUntruncated(p) ==
    /\ Step(p, "open", "write")
    /\ target' = IF target = None THEN File(Nothing, "empty") ELSE target
    /\ broken' = (broken \/ \E q \in Processes \ {p} : Writing(q))
    /\ UNCHANGED <<format, merged, raced, others>>

\* std::fs::write first empties the file, or makes one.
Open(p) ==
    /\ \/ /\ Step(p, "open", "write")
          /\ target' = File(Nothing, "empty")
          /\ broken' = (broken \/ \E q \in Processes \ {p} : Writing(q))
       \/ Step(p, "open", "failed") /\ UNCHANGED <<target, broken>>
    /\ UNCHANGED <<format, merged, raced, others>>

\* Then it writes from the start; of what another has written meanwhile the
\* end remains, if that was longer.
WriteTarget(p) ==
    /\ \/ /\ Step(p, "write", "restrict")
          /\ \/ target' = File(merged[p], "whole")
             \/ target.text # "empty" /\ target' = File(Nothing, "torn")
          /\ UNCHANGED broken
       \/ /\ Step(p, "write", "failed")
          /\ target' = File(Nothing, "torn")
          /\ broken' = TRUE
    /\ merged' = [merged EXCEPT ![p] = Nothing]
    /\ UNCHANGED <<format, raced, others>>

\* set_permissions, which may fail.
Restrict(p) ==
    /\ Step(p, "restrict", "done") \/ Step(p, "restrict", "failed")
    /\ UNCHANGED <<target, format, merged, raced, broken, others>>

\* The process is killed.
Kill(p) ==
    /\ \E from \in {"read", "open", "write", "restrict"} :
          Step(p, from, "crashed")
    /\ broken' = (broken \/ Writing(p))
    /\ merged' = [merged EXCEPT ![p] = Nothing]
    /\ UNCHANGED <<target, format, raced, others>>

-----------------------------------------------------------------------------
(* The user, or the tool, edits the file, and mends it when it is torn. *)

Between(p) == tool[p] \in {"open", "write"}

UserWrites(new) ==
    /\ edits < MaxEdits
    /\ edits' = edits + 1
    /\ target' = File(new, "whole")
    /\ raced' = (raced \/ \E p \in Processes : Between(p))
    /\ broken' = (broken \/ \E p \in Processes : Writing(p))
    /\ UNCHANGED <<vars, tool, format, merged>>

Edit(k) ==
    /\ target # None /\ target.text = "whole"
    /\ UserWrites([target.settings EXCEPT ![k] = edits + 2])
    /\ users' = [users EXCEPT ![k] = edits + 2]

Mend ==
    /\ target # None /\ target.text # "whole"
    /\ UserWrites(UsersOwn)
    /\ UNCHANGED users

-----------------------------------------------------------------------------

\* A command that has begun an export is done with the config.
Configure ==
    /\ \E p \in Processes :
          /\ tool[p] = "no"
          /\ \/ \E j \in Jobs : Begin(p, j)
             \/ Load(p) \/ Create(p) \/ Write(p) \/ Rename(p) \/ Crash(p)
    /\ UNCHANGED targets

ExportNext ==
    \/ Configure
    \/ \E p \in Processes :
          \/ Fetch(p) \/ Read(p) \/ Open(p) \/ WriteTarget(p) \/ Restrict(p)
          \/ Kill(p)
    \/ \E k \in UserKeys : Edit(k)
    \/ Mend

ExportSpec == ExportInit /\ [][ExportNext]_exportVars

-----------------------------------------------------------------------------
(* Properties *)

\* Settings that hold what the user has set (u): the other settings and, of
\* OpenClaw, the other providers and the model.  The rest of what OpenCode
\* has under `provider` is gone with the first export; so are the agents
\* of OpenClaw, unless their user had set a model no later than them.
HoldsFor(u, settings) ==
    LET Is(k) == u[k] # 0 => settings[k] = u[k]
        OrReplaced(k, by) == Is(k) \/ (settings[k] = 0 /\ settings[by] # 0)
    IN  /\ Is("rest") /\ Is("others") /\ Is("model")
        /\ OrReplaced("providers", "router")
        /\ OrReplaced("agents", "aperture")
        /\ u["model"] # 0 /\ u["model"] <= u["agents"] => Is("agents")

\* What exports of either format have read, changed and written back, in any
\* order and at once, holds what the user has set, as far as HoldsFor has it
\* (openclaw_export.rs:185, docs/tutorials/03-using-with-opencode.md:75), but
\* where the user has set more in between.  A torn file is never taken for
\* an empty one.  What HoldsFor leaves out is lost, though docs/tutorials/
\* 03-using-with-opencode.md:205 says "preserving any existing settings" and
\* openclaw_export.rs:188 "Does NOT touch: Agents, tools, themes".
SettingsKept ==
    target # None /\ target.text = "whole" /\ ~raced =>
        HoldsFor(users, target.settings)

\* The file is not whole only while somebody writes it, and after a write
\* was cut off or two of them overlapped: std::fs::write is not the save of
\* ConfigStore.
TornOnlyByAccident ==
    target # None /\ target.text # "whole" =>
        broken \/ \E p \in Processes : Writing(p)

=============================================================================
