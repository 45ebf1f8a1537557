---------------------------- MODULE ExportProofs ----------------------------
(***************************************************************************)
(* Proofs about ConfigStore and Exports, for any number of processes,      *)
(* providers, urls and edits.                                              *)
(*                                                                         *)
(* The file at the path is whole because what is renamed to it is; that is *)
(* so because the temporary file belongs to the one process that has made  *)
(* it, which is what the invariant Owned adds.                             *)
(*                                                                         *)
(* With the exports the commands are still those of ConfigStore, so its    *)
(* theorems hold of them.  Of the other tool's file two things are proved: *)
(* it is whole but while somebody writes it or after an accident, and      *)
(* what the user has set stays.  For the first the invariant adds that the *)
(* only writer finds the file empty, for the second that what a process    *)
(* has merged holds what the user has set since it has read the file.      *)
(***************************************************************************)
EXTENDS Exports, TLAPS

-----------------------------------------------------------------------------
(* The configuration *)

\* A process between create and rename finds its temporary file as it has
\* left it.
Owned ==
    \A p \in Processes :
        /\ pc[p] = "write" =>
              tmp = [config |-> hand[p], whole |-> FALSE, by |-> p]
        /\ pc[p] = "rename" =>
              tmp = [config |-> hand[p], whole |-> TRUE, by |-> p]

\* A process has in hand what it is about to write: a config that has passed
\* validate, unless it has made it up itself, which is saved without that.
InHand ==
    \A p \in Processes :
        /\ pc[p] = "idle" => hand[p] = None
        /\ pc[p] \in {"create", "write", "rename"} => hand[p] # None
        /\ hand[p] # None => Valid(hand[p]) \/ job[p].kind = "generate"

IInv ==
    /\ TypeOK
    /\ InHand
    /\ Owned
    /\ OnlyAccidentsLeaveTemp
    /\ FileWhole

\* A file holds something.
LEMMA FileIsSome ==
    ASSUME NEW c \in Configs, NEW w \in BOOLEAN
    PROVE  /\ [config |-> c, whole |-> w] \in [config: Configs, whole: BOOLEAN]
           /\ [config |-> c, whole |-> w] # None
  <1>1. [config |-> c, whole |-> w] \in [config: Configs, whole: BOOLEAN]
    OBVIOUS
  <1> QED
    BY <1>1, NoneAssumption

LEMMA TempIsSome ==
    ASSUME NEW c \in Configs, NEW w \in BOOLEAN, NEW p \in Processes
    PROVE  [config |-> c, whole |-> w, by |-> p] # None
  <1>1. [config |-> c, whole |-> w, by |-> p]
            \in [config: Configs, whole: BOOLEAN, by: Processes]
    OBVIOUS
  <1> QED
    BY <1>1, NoneAssumption

LEMMA FirstIsConfig == First \in Configs
  BY ConfigAssumption DEF First, Configs

\* A made up config has no providers.
LEMMA GeneratedIsConfig ==
    ASSUME NEW u \in Urls
    PROVE  [enabled |-> << >>, url |-> u] \in Configs
  <1>1. << >> \in [{} -> BOOLEAN]
    OBVIOUS
  <1> QED
    BY <1>1 DEF Configs

LEMMA UrlChanged ==
    ASSUME NEW c \in Configs, NEW u \in Urls
    PROVE  [c EXCEPT !.url = u] \in Configs
  BY DEF Configs

\* Whether it switches a provider on or off, an edit of a config that has
\* that provider is a config.
LEMMA EditedIsConfig ==
    ASSUME NEW c \in Configs, NEW j \in Jobs \cup {Idle},
           j.kind = "toggle" => j.provider \in DOMAIN c.enabled
    PROVE  Edited(c, j) \in Configs /\ Edited(c, j).url = c.url
  <1>1. CASE j.kind = "toggle"
    <2>1. j.on \in BOOLEAN
      BY <1>1 DEF Jobs, Idle
    <2>2. PICK S \in {{}, Providers} : c \in [enabled: [S -> BOOLEAN], url: Urls]
      BY DEF Configs
    <2>3. [c EXCEPT !.enabled[j.provider] = j.on]
              \in [enabled: [S -> BOOLEAN], url: Urls]
      BY <2>1, <2>2
    <2> QED
      BY <1>1, <2>2, <2>3 DEF Edited, Configs
  <1>2. CASE j.kind # "toggle"
    BY <1>2 DEF Edited
  <1> QED
    BY <1>1, <1>2

LEMMA Initially == Init => IInv
  <1> SUFFICES ASSUME Init PROVE IInv
    OBVIOUS
  <1>1. file \in [config: Configs, whole: BOOLEAN] \cup {None}
    <2>1. file = None \/ file = [config |-> First, whole |-> TRUE]
      BY DEF Init
    <2> QED
      BY <2>1, FirstIsConfig, FileIsSome
  <1>2. TypeOK
    BY <1>1 DEF Init, TypeOK
  <1>3. FileWhole
    BY NoneAssumption DEF Init, FileWhole
  <1> QED
    BY <1>2, <1>3 DEF Init, IInv, InHand, Owned, OnlyAccidentsLeaveTemp

-----------------------------------------------------------------------------
(* One lemma per action. *)

LEMMA BeginStep ==
    ASSUME IInv, NEW p \in Processes, NEW j \in Jobs, Begin(p, j)
    PROVE  IInv'
  <1> USE DEF IInv
  <1>1. CASE j.kind = "generate"
    <2>1. j.url \in Urls
      BY <1>1 DEF Jobs
    <2> DEFINE c == [enabled |-> << >>, url |-> j.url]
    <2>2. c \in Configs /\ c # None
      BY <2>1, GeneratedIsConfig, NoneAssumption
    <2> HIDE DEF c
    <2>3. /\ pc[p] = "idle" /\ pc' = [pc EXCEPT ![p] = "create"]
          /\ job' = [job EXCEPT ![p] = j]
          /\ hand' = [hand EXCEPT ![p] = c]
          /\ UNCHANGED <<file, tmp, env>>
      BY <1>1 DEF Begin, Goto, c
    <2>4. TypeOK'
      BY <2>2, <2>3 DEF TypeOK
    <2>5. InHand'
      BY <1>1, <2>2, <2>3 DEF TypeOK, InHand, Valid
    <2>6. Owned'
      BY <2>3 DEF TypeOK, Owned
    <2> QED
      BY <2>3, <2>4, <2>5, <2>6 DEF TypeOK, OnlyAccidentsLeaveTemp, FileWhole
  <1>2. CASE j.kind # "generate"
    <2>1. /\ pc[p] = "idle" /\ pc' = [pc EXCEPT ![p] = "load"]
          /\ job' = [job EXCEPT ![p] = j]
          /\ UNCHANGED <<file, tmp, env, hand>>
      BY <1>2 DEF Begin, Goto
    <2>2. TypeOK'
      BY <2>1 DEF TypeOK
    <2>3. InHand'
      BY <2>1 DEF TypeOK, InHand, Valid
    <2>4. Owned'
      BY <2>1 DEF TypeOK, Owned
    <2> QED
      BY <2>1, <2>2, <2>3, <2>4 DEF TypeOK, OnlyAccidentsLeaveTemp, FileWhole
  <1> QED
    BY <1>1, <1>2

LEMMA LoadStep ==
    ASSUME IInv, NEW p \in Processes, Load(p)
    PROVE  IInv'
  <1> USE DEF IInv
  <1>1. CASE pc' = [pc EXCEPT ![p] = "failed"] /\ UNCHANGED hand
    <2>1. pc[p] = "load" /\ UNCHANGED <<file, tmp, env, job>>
      BY DEF Load
    <2> QED
      BY <1>1, <2>1
      DEF TypeOK, InHand, Owned, OnlyAccidentsLeaveTemp, FileWhole, Valid
  <1>2. CASE ~(pc' = [pc EXCEPT ![p] = "failed"] /\ UNCHANGED hand)
    <2> DEFINE c == Overridden(p)
               e == Edited(c, job[p])
    <2>1. /\ file # None /\ Valid(c)
          /\ job[p].kind = "toggle" => job[p].provider \in DOMAIN file.config.enabled
          /\ pc[p] = "load" /\ pc' = [pc EXCEPT ![p] = "create"]
          /\ hand' = [hand EXCEPT ![p] = e]
          /\ UNCHANGED <<file, tmp, env, job>>
      BY <1>2 DEF Load, Goto
    <2>2. file.config \in Configs
      BY <2>1 DEF TypeOK
    <2>3. c \in Configs /\ c.enabled = file.config.enabled
      <3>1. CASE env[p] = None
        BY <2>2, <3>1 DEF Overridden
      <3>2. CASE env[p] # None
        <4>1. env[p] \in Urls
          BY <3>2 DEF TypeOK
        <4>2. c = [file.config EXCEPT !.url = env[p]]
          BY <3>2 DEF Overridden
        <4>3. c.enabled = file.config.enabled
          BY <2>2, <4>1, <4>2 DEF Configs
        <4> QED
          BY <2>2, <4>1, <4>2, <4>3, UrlChanged
      <3> QED
        BY <3>1, <3>2
    <2>4. job[p] \in Jobs \cup {Idle}
      BY DEF TypeOK
    <2> HIDE DEF c
    <2>5. e \in Configs /\ e.url = c.url
      BY <2>1, <2>3, <2>4, EditedIsConfig
    <2> HIDE DEF e
    <2>6. e # None /\ Valid(e)
      BY <2>1, <2>5, NoneAssumption DEF Valid
    <2>7. TypeOK'
      BY <2>1, <2>5 DEF TypeOK
    <2>8. InHand'
      BY <2>1, <2>6 DEF TypeOK, InHand, Valid
    <2>9. Owned'
      BY <2>1 DEF TypeOK, Owned
    <2> QED
      BY <2>1, <2>7, <2>8, <2>9 DEF TypeOK, OnlyAccidentsLeaveTemp, FileWhole
  <1> QED
    BY <1>1, <1>2

LEMMA CreateStep ==
    ASSUME IInv, NEW p \in Processes, Create(p)
    PROVE  IInv'
  <1> USE DEF IInv
  <1>1. pc[p] = "create" /\ UNCHANGED <<file, env, job, hand>>
    BY DEF Create
  <1>2. CASE tmp # None
    <2>1. pc' = [pc EXCEPT ![p] = "failed"] /\ UNCHANGED tmp
      BY <1>2 DEF Create, Goto
    <2> QED
      BY <1>1, <2>1
      DEF TypeOK, InHand, Owned, OnlyAccidentsLeaveTemp, FileWhole, Valid
  <1>3. CASE tmp = None
    <2> DEFINE t == [config |-> hand[p], whole |-> FALSE, by |-> p]
    <2>1. tmp' = t /\ pc' = [pc EXCEPT ![p] = "write"]
      BY <1>3 DEF Create, Goto
    <2>2. t \in [config: Configs, whole: BOOLEAN, by: Processes]
      BY <1>1 DEF TypeOK, InHand
    <2>3. TypeOK'
      BY <1>1, <2>1, <2>2 DEF TypeOK
    <2>4. InHand'
      BY <1>1, <2>1 DEF TypeOK, InHand, Valid
    <2>5. ASSUME NEW q \in Processes, pc[q] \in {"write", "rename"}
          PROVE  FALSE
      <3>1. hand[q] \in Configs
        BY <2>5 DEF TypeOK, InHand
      <3>2. /\ [config |-> hand[q], whole |-> FALSE, by |-> q] # None
            /\ [config |-> hand[q], whole |-> TRUE, by |-> q] # None
        BY <3>1, TempIsSome
      <3> QED
        BY <1>3, <2>5, <3>2 DEF Owned
    <2>6. Owned'
      BY <1>1, <2>1, <2>5 DEF TypeOK, Owned
    <2>7. OnlyAccidentsLeaveTemp'
      BY <2>1 DEF TypeOK, OnlyAccidentsLeaveTemp
    <2> QED
      BY <1>1, <2>3, <2>4, <2>6, <2>7 DEF FileWhole
  <1> QED
    BY <1>2, <1>3

\* The temporary file has one owner.
LEMMA OneOwner ==
    ASSUME Owned, NEW p \in Processes, NEW q \in Processes,
           pc[p] \in {"write", "rename"}, pc[q] \in {"write", "rename"}
    PROVE  p = q
  <1>1. tmp.by = p
    BY DEF Owned
  <1>2. tmp.by = q
    BY DEF Owned
  <1> QED
    BY <1>1, <1>2

LEMMA WriteStep ==
    ASSUME IInv, NEW p \in Processes, Write(p)
    PROVE  IInv'
  <1> USE DEF IInv
  <1>1. /\ pc[p] = "write" /\ UNCHANGED <<file, env, job, hand>>
        /\ tmp = [config |-> hand[p], whole |-> FALSE, by |-> p]
    BY DEF Write, Owned
  <1>2. \A q \in Processes : q # p => pc[q] \notin {"write", "rename"}
    BY <1>1, OneOwner
  <1>3. CASE tmp' = [tmp EXCEPT !.whole = TRUE] /\ Goto(p, "rename")
    <2>1. tmp' = [config |-> hand[p], whole |-> TRUE, by |-> p]
      BY <1>1, <1>3
    <2>2. hand[p] \in Configs
      BY <1>1 DEF TypeOK, InHand
    <2>3. tmp' \in [config: Configs, whole: BOOLEAN, by: Processes]
      BY <2>1, <2>2
    <2>4. TypeOK'
      BY <1>1, <1>3, <2>3 DEF TypeOK, Goto
    <2>5. InHand'
      BY <1>1, <1>3 DEF TypeOK, InHand, Valid, Goto
    <2>6. Owned'
      BY <1>1, <1>2, <1>3, <2>1 DEF TypeOK, Owned, Goto
    <2>7. OnlyAccidentsLeaveTemp'
      BY <1>3, <2>1 DEF TypeOK, OnlyAccidentsLeaveTemp, Goto
    <2> QED
      BY <1>1, <2>4, <2>5, <2>6, <2>7 DEF FileWhole
  <1>4. CASE UNCHANGED tmp /\ Goto(p, "failed")
    <2>1. TypeOK' /\ InHand'
      BY <1>1, <1>4 DEF TypeOK, InHand, Valid, Goto
    <2>2. Owned'
      BY <1>1, <1>2, <1>4 DEF TypeOK, Owned, Goto
    <2>3. OnlyAccidentsLeaveTemp'
      BY <1>1, <1>4 DEF TypeOK, OnlyAccidentsLeaveTemp, Goto
    <2> QED
      BY <1>1, <2>1, <2>2, <2>3 DEF FileWhole
  <1> QED
    BY <1>3, <1>4 DEF Write

LEMMA RenameStep ==
    ASSUME IInv, NEW p \in Processes, Rename(p)
    PROVE  IInv'
  <1> USE DEF IInv
  <1>1. /\ pc[p] = "rename" /\ tmp' = None /\ UNCHANGED <<env, job, hand>>
        /\ tmp = [config |-> hand[p], whole |-> TRUE, by |-> p]
    BY DEF Rename, Owned
  <1>2. \A q \in Processes : q # p => pc[q] \notin {"write", "rename"}
    BY <1>1, OneOwner
  <1>3. PICK label \in {"done", "failed"} : pc' = [pc EXCEPT ![p] = label]
    BY DEF Rename, Goto
  <1>4. UNCHANGED file \/ file' = [config |-> hand[p], whole |-> TRUE]
    BY <1>1 DEF Rename
  <1>5. hand[p] \in Configs
    BY <1>1 DEF TypeOK, InHand
  <1>6. file' \in [config: Configs, whole: BOOLEAN] \cup {None}
    BY <1>4, <1>5, FileIsSome DEF TypeOK
  <1>7. TypeOK'
    BY <1>1, <1>3, <1>6 DEF TypeOK
  <1>8. InHand'
    BY <1>1, <1>3 DEF TypeOK, InHand, Valid
  <1>9. Owned'
    BY <1>1, <1>2, <1>3 DEF TypeOK, Owned
  <1>10. FileWhole'
    BY <1>4 DEF FileWhole
  <1> QED
    BY <1>1, <1>7, <1>8, <1>9, <1>10 DEF OnlyAccidentsLeaveTemp

LEMMA CrashStep ==
    ASSUME IInv, NEW p \in Processes, Crash(p)
    PROVE  IInv'
  BY DEF IInv, Crash, Goto, TypeOK, InHand, Owned, OnlyAccidentsLeaveTemp,
         FileWhole, Valid

-----------------------------------------------------------------------------
(* Theorems *)

LEMMA StepKeepsIInv == IInv /\ [Next]_vars => IInv'
  <1> SUFFICES ASSUME IInv, [Next]_vars PROVE IInv'
    OBVIOUS
  <1>1. CASE Next
    <2>1. PICK p \in Processes :
             \/ \E j \in Jobs : Begin(p, j)
             \/ Load(p) \/ Create(p) \/ Write(p) \/ Rename(p) \/ Crash(p)
      BY <1>1 DEF Next
    <2> QED
      BY <2>1, BeginStep, LoadStep, CreateStep, WriteStep, RenameStep, CrashStep
  <1>2. CASE UNCHANGED vars
    BY <1>2 DEF vars, IInv, TypeOK, InHand, Owned, OnlyAccidentsLeaveTemp,
                FileWhole, Valid
  <1> QED
    BY <1>1, <1>2

LEMMA Invariance == Spec => []IInv
  BY Initially, StepKeepsIInv, PTL DEF Spec

\* Files and processes hold what their types say.
THEOREM TypeCorrect == Spec => []TypeOK
  BY Invariance, PTL DEF IInv

\* Whatever processes are killed or fail, and at whatever step, Config::save
\* never leaves part of a config at the path.
THEOREM NoPartialFile == Spec => []FileWhole
  BY Invariance, PTL DEF IInv

\* Between create_new and rename nobody but its owner touches the temporary
\* file, however many commands save at the same time.
THEOREM SavesExclude == Spec => []SaveUndisturbed
  <1>1. IInv => SaveUndisturbed
    BY DEF IInv, Owned, SaveUndisturbed
  <1> QED
    BY Invariance, <1>1, PTL

\* A temporary file that stays behind is that of a process that was killed,
\* or that could not write it.
THEOREM NothingLeftBehind == Spec => []OnlyAccidentsLeaveTemp
  BY Invariance, PTL DEF IInv

\* A command may be killed or fail at any step of a save.
THEOREM SavesAreCrashSafe == Spec => []CrashSafe
  <1>1. FileWhole /\ OnlyAccidentsLeaveTemp => CrashSafe
    BY DEF CrashSafe
  <1> QED
    BY <1>1, NoPartialFile, NothingLeftBehind, PTL

\* A command that reads the config file saves nothing that validate has not
\* accepted with the environment over it; only generate saves what it has
\* made up without looking (commands.rs:389-447).
THEOREM HeldIsValid ==
    Spec => [](\A p \in Processes :
                  hand[p] # None => Valid(hand[p]) \/ job[p].kind = "generate")
  <1>1. IInv => \A p \in Processes :
                   hand[p] # None => Valid(hand[p]) \/ job[p].kind = "generate"
    BY DEF IInv, InHand
  <1> QED
    BY Invariance, <1>1, PTL

-----------------------------------------------------------------------------
(* The exports *)

Texts == {"whole", "empty", "torn"}

FileTypeOK ==
    /\ target \in [settings: Settings, text: Texts] \cup {None}
    /\ tool \in [Processes -> {"no", "read", "open", "write", "restrict",
                               "done", "failed", "crashed"}]
    /\ merged \in [Processes -> Settings]
    /\ edits \in Nat
    /\ users \in [UserKeys -> Nat]
    /\ \A k \in UserKeys : users[k] <= edits + 1
    /\ raced \in BOOLEAN /\ broken \in BOOLEAN

\* Unless there was an accident, the one writer has just emptied the file.
OneWriter ==
    ~broken =>
        \A p \in Processes : Writing(p) =>
            /\ target # None /\ target.text = "empty"
            /\ \A q \in Processes : Writing(q) => q = p

TextInv == OneWriter /\ TornOnlyByAccident

Holds(settings) == HoldsFor(users, settings)

MergedHold == ~raced => \A p \in Processes : Between(p) => Holds(merged[p])

\* There is no file only if the user has set nothing.
NoneSet == target = None => \A k \in UserKeys : users[k] = 0

SettingsInv == NoneSet /\ MergedHold /\ SettingsKept

EInv == FileTypeOK /\ TextInv /\ SettingsInv

LEMMA FileIsThere ==
    ASSUME NEW s \in Settings, NEW x \in Texts
    PROVE  /\ File(s, x) \in [settings: Settings, text: Texts]
           /\ File(s, x) # None
           /\ File(s, x).settings = s /\ File(s, x).text = x
  <1>1. File(s, x) \in [settings: Settings, text: Texts]
    BY DEF File
  <1> QED
    BY <1>1, NoFileAssumption DEF File, Texts

LEMMA NothingIsSettings == Nothing \in Settings
  BY DEF Nothing, Settings

LEMMA UsersOwnIsSettings ==
    ASSUME users \in [UserKeys -> Nat]
    PROVE  UsersOwn \in Settings
  BY DEF UsersOwn, Settings, Keys

\* A merge sets what it may and keeps what the user has set.
LEMMA MergesKeep ==
    ASSUME NEW p \in Processes, NEW old \in Settings,
           users \in [UserKeys -> Nat], NEW new \in Merges(p, old)
    PROVE  new \in Settings /\ (Holds(old) => Holds(new))
  <1>1. p # 0
    BY ExportsAssumption
  <1>2. CASE new = [old EXCEPT !["router"] = p, !["providers"] = 0]
    BY <1>1, <1>2 DEF Settings, Keys, UserKeys, Holds, HoldsFor
  <1>3. CASE new = old
    BY <1>3
  <1>4. CASE /\ old["model"] # 0
             /\ new = [old EXCEPT !["aperture"] = p]
    BY <1>1, <1>4 DEF Settings, Keys, UserKeys, Holds, HoldsFor
  <1>5. CASE /\ old["model"] = 0
             /\ new = [old EXCEPT !["aperture"] = p, !["model"] = p, !["agents"] = 0]
    <2>1. new \in Settings
      BY <1>5 DEF Settings, Keys, UserKeys
    <2>2. ASSUME Holds(old) PROVE Holds(new)
      <3>1. users["model"] = 0
        BY <1>5, <2>2 DEF UserKeys, Holds, HoldsFor
      <3>2. /\ new["agents"] = 0 /\ new["aperture"] = p
            /\ \A k \in {"rest", "others", "providers", "router"} :
                  new[k] = old[k]
        BY <1>5 DEF Settings, Keys, UserKeys
      <3> QED
        BY <1>1, <2>2, <3>1, <3>2 DEF Holds, HoldsFor
    <2> QED
      BY <2>1, <2>2
  <1> QED
    BY <1>2, <1>3, <1>4, <1>5 DEF Merges, OpenCodeMerges, OpenClawMerges

LEMMA ExportInitially == ExportInit => EInv
  <1> SUFFICES ASSUME ExportInit PROVE EInv
    OBVIOUS
  <1>1. /\ users \in [UserKeys -> Nat] /\ edits = 0
        /\ \A k \in UserKeys : users[k] <= 1
    BY DEF ExportInit
  <1>2. target = None \/ target = File(UsersOwn, "whole")
    BY DEF ExportInit
  <1>3. /\ target \in [settings: Settings, text: Texts] \cup {None}
        /\ target # None => target.text = "whole" /\ target.settings = UsersOwn
    BY <1>1, <1>2, UsersOwnIsSettings, FileIsThere DEF Texts
  <1>4. FileTypeOK
    <2>1. \A k \in UserKeys : users[k] <= edits + 1
      BY <1>1
    <2>2. /\ tool = [p \in Processes |-> "no"]
          /\ merged = [p \in Processes |-> Nothing]
          /\ raced = FALSE /\ broken = FALSE
      BY DEF ExportInit
    <2> QED
      BY <1>1, <1>3, <2>1, <2>2, NothingIsSettings DEF FileTypeOK
  <1>5. TextInv
    BY <1>3 DEF ExportInit, TextInv, OneWriter, TornOnlyByAccident, Writing
  <1>6. MergedHold
    BY DEF ExportInit, MergedHold, Between
  <1>7. SettingsKept
    BY <1>3 DEF SettingsKept, HoldsFor, UsersOwn, Keys, UserKeys
  <1>8. NoneSet
    <2>1. target = None => ~(target = File(UsersOwn, "whole"))
      BY <1>1, UsersOwnIsSettings, FileIsThere DEF Texts
    <2> QED
      BY <2>1 DEF ExportInit, NoneSet
  <1> QED
    BY <1>4, <1>5, <1>6, <1>7, <1>8 DEF EInv, SettingsInv

-----------------------------------------------------------------------------
(* One lemma per action. *)

\* Steps of a process that writes nothing, beside others that may.
LEMMA QuietStep ==
    ASSUME EInv, NEW p \in Processes,
           NEW from \in {"no", "done", "read", "open", "restrict"},
           NEW to \in {"read", "restrict", "done", "failed", "crashed"},
           Step(p, from, to), to # "restrict",
           UNCHANGED <<target, edits, users, raced, broken>>,
           merged' = merged \/ merged' = [merged EXCEPT ![p] = Nothing]
    PROVE  EInv'
  <1> USE DEF EInv, Step
  <1>1. FileTypeOK'
    BY NothingIsSettings DEF FileTypeOK
  <1>2. \A q \in Processes :
           /\ Writing(q)' <=> Writing(q)
           /\ Between(q)' => Between(q) /\ q # p
    BY DEF FileTypeOK, Writing, Between
  <1>3. TextInv'
    BY <1>2 DEF TextInv, OneWriter, TornOnlyByAccident
  <1>4. \A q \in Processes : q # p => merged'[q] = merged[q]
    BY DEF FileTypeOK
  <1>5. MergedHold'
    BY <1>2, <1>4 DEF SettingsInv, MergedHold, Holds
  <1> QED
    BY <1>1, <1>3, <1>5 DEF SettingsInv, NoneSet, SettingsKept

LEMMA FetchStep ==
    ASSUME EInv, NEW p \in Processes, Fetch(p)
    PROVE  EInv'
  <1>1. tool[p] \in {"no", "done"}
    BY DEF Fetch, Following
  <1>2. PICK to \in {"read", "failed"} : tool' = [tool EXCEPT ![p] = to]
    BY DEF Fetch
  <1> QED
    BY <1>1, <1>2, QuietStep DEF Fetch, Step, others

LEMMA RestrictStep ==
    ASSUME EInv, NEW p \in Processes, Restrict(p)
    PROVE  EInv'
  <1>1. PICK to \in {"done", "failed"} : Step(p, "restrict", to)
    BY DEF Restrict
  <1> QED
    BY <1>1, QuietStep DEF Restrict, others

LEMMA ReadStep ==
    ASSUME EInv, NEW p \in Processes, Read(p)
    PROVE  EInv'
  <1> USE DEF EInv
  <1>1. UNCHANGED <<target, edits, users, raced, broken>>
    BY DEF Read, others
  <1>2. CASE Step(p, "read", "failed") /\ UNCHANGED merged
    BY <1>1, <1>2, QuietStep
  <1>3. ASSUME target # None => target.text = "whole",
               NEW old \in Settings,
               old = IF target = None THEN Nothing ELSE target.settings,
               NEW new \in Merges(p, old),
               merged' = [merged EXCEPT ![p] = new],
               Step(p, "read", "open")
        PROVE  EInv'
    <2>1. new \in Settings /\ (Holds(old) => Holds(new))
      BY <1>3, MergesKeep DEF FileTypeOK
    <2>2. FileTypeOK'
      BY <1>1, <1>3, <2>1 DEF FileTypeOK, Step
    <2>3. \A q \in Processes :
             /\ Writing(q)' <=> Writing(q)
             /\ q # p => (Between(q)' <=> Between(q)) /\ merged'[q] = merged[q]
      BY <1>3 DEF FileTypeOK, Step, Writing, Between
    <2>4. TextInv'
      BY <1>1, <2>3 DEF TextInv, OneWriter, TornOnlyByAccident
    <2>5. ~raced => Holds(old)
      <3>1. CASE target = None
        BY <1>3, <3>1 DEF SettingsInv, NoneSet, Holds, HoldsFor, UserKeys
      <3>2. CASE target # None
        BY <1>3, <3>2 DEF SettingsInv, SettingsKept, Holds
      <3> QED
        BY <3>1, <3>2
    <2>6. ~raced => Holds(merged'[p])
      BY <1>3, <2>1, <2>5 DEF FileTypeOK
    <2>7. MergedHold'
      BY <1>1, <2>3, <2>6 DEF SettingsInv, MergedHold, Holds
    <2> QED
      BY <1>1, <2>2, <2>4, <2>7 DEF SettingsInv, NoneSet, SettingsKept
  <1>4. (IF target = None THEN Nothing ELSE target.settings) \in Settings
    BY NothingIsSettings DEF FileTypeOK
  <1> QED
    BY <1>2, <1>3, <1>4 DEF Read

LEMMA OpenStep ==
    ASSUME EInv, NEW p \in Processes, Open(p)
    PROVE  EInv'
  <1> USE DEF EInv
  <1>1. CASE Step(p, "open", "failed") /\ UNCHANGED <<target, broken>>
    BY <1>1, QuietStep DEF Open, others
  <1>2. CASE /\ Step(p, "open", "write")
             /\ target' = File(Nothing, "empty")
             /\ broken' = (broken \/ \E q \in Processes \ {p} : Writing(q))
    <2>1. UNCHANGED <<merged, edits, users, raced>>
      BY DEF Open, others
    <2>2. /\ target' \in [settings: Settings, text: Texts]
          /\ target' # None /\ target'.text = "empty"
      BY <1>2, NothingIsSettings, FileIsThere DEF Texts
    <2>3. FileTypeOK'
      BY <1>2, <2>1, <2>2 DEF FileTypeOK, Step
    <2>4. /\ Writing(p)'
          /\ \A q \in Processes : q # p => (Writing(q)' <=> Writing(q))
          /\ \A q \in Processes : Between(q)' <=> Between(q)
      BY <1>2 DEF FileTypeOK, Step, Writing, Between
    <2>5. TextInv'
      BY <1>2, <2>2, <2>4 DEF TextInv, OneWriter, TornOnlyByAccident
    <2>6. MergedHold'
      BY <2>1, <2>4 DEF SettingsInv, MergedHold, Holds
    <2> QED
      BY <2>2, <2>3, <2>5, <2>6 DEF SettingsInv, NoneSet, SettingsKept
  <1> QED
    BY <1>1, <1>2 DEF Open

LEMMA WriteTargetStep ==
    ASSUME EInv, NEW p \in Processes, WriteTarget(p)
    PROVE  EInv'
  <1> USE DEF EInv
  <1>1. /\ tool[p] = "write" /\ merged' = [merged EXCEPT ![p] = Nothing]
        /\ UNCHANGED <<edits, users, raced>>
    BY DEF WriteTarget, Step, others
  <1>2. PICK to \in {"restrict", "failed"} : tool' = [tool EXCEPT ![p] = to]
    BY DEF WriteTarget, Step
  <1>3. \A q \in Processes :
           /\ Writing(q)' <=> Writing(q) /\ q # p
           /\ Between(q)' => Between(q) /\ merged'[q] = merged[q]
    BY <1>1, <1>2 DEF FileTypeOK, Writing, Between
  <1>4. MergedHold'
    BY <1>1, <1>3 DEF SettingsInv, MergedHold, Holds
  <1>5. CASE target' = File(merged[p], "whole") /\ UNCHANGED broken
    <2>1. /\ target' \in [settings: Settings, text: Texts] /\ target' # None
          /\ target'.text = "whole" /\ target'.settings = merged[p]
      BY <1>5, FileIsThere DEF FileTypeOK, Texts
    <2>2. FileTypeOK'
      BY <1>1, <1>2, <1>5, <2>1, NothingIsSettings DEF FileTypeOK
    <2>3. TextInv'
      BY <1>1, <1>3, <1>5, <2>1 DEF TextInv, OneWriter, TornOnlyByAccident, Writing
    <2>4. SettingsKept'
      BY <1>1, <2>1 DEF SettingsInv, MergedHold, SettingsKept, Holds, Between
    <2> QED
      BY <1>4, <2>1, <2>2, <2>3, <2>4 DEF SettingsInv, NoneSet
  <1>6. CASE target' = File(Nothing, "torn") /\ broken'
    <2>1. /\ target' \in [settings: Settings, text: Texts] /\ target' # None
          /\ target'.text = "torn"
      BY <1>6, NothingIsSettings, FileIsThere DEF Texts
    <2>2. broken' \in BOOLEAN
      BY DEF FileTypeOK, WriteTarget
    <2>3. FileTypeOK'
      BY <1>1, <1>2, <2>1, <2>2, NothingIsSettings DEF FileTypeOK
    <2>4. TextInv'
      BY <1>6 DEF TextInv, OneWriter, TornOnlyByAccident
    <2> QED
      BY <1>4, <2>1, <2>3, <2>4 DEF SettingsInv, NoneSet, SettingsKept
  <1>7. target.text # "empty" => broken
    BY <1>1 DEF TextInv, OneWriter, Writing
  <1> QED
    BY <1>5, <1>6, <1>7 DEF WriteTarget

LEMMA KillStep ==
    ASSUME EInv, NEW p \in Processes, Kill(p)
    PROVE  EInv'
  <1> USE DEF EInv
  <1>1. /\ UNCHANGED <<target, edits, users, raced>>
        /\ merged' = [merged EXCEPT ![p] = Nothing]
        /\ broken' = (broken \/ Writing(p))
    BY DEF Kill, others
  <1>2. PICK from \in {"read", "open", "write", "restrict"} :
           Step(p, from, "crashed")
    BY DEF Kill
  <1>3. CASE from # "write"
    <2>1. UNCHANGED broken
      BY <1>1, <1>2, <1>3 DEF Step, Writing, FileTypeOK
    <2> QED
      BY <1>1, <1>2, <1>3, <2>1, QuietStep
  <1>4. CASE from = "write"
    <2>1. broken'
      BY <1>1, <1>2, <1>4 DEF Step, Writing
    <2>2. FileTypeOK'
      BY <1>1, <1>2, NothingIsSettings DEF FileTypeOK, Step
    <2>3. \A q \in Processes : Between(q)' => Between(q) /\ merged'[q] = merged[q]
      BY <1>1, <1>2 DEF FileTypeOK, Step, Between
    <2>4. MergedHold'
      BY <1>1, <2>3 DEF SettingsInv, MergedHold, Holds
    <2>5. TextInv'
      BY <2>1 DEF TextInv, OneWriter, TornOnlyByAccident
    <2> QED
      BY <1>1, <2>2, <2>4, <2>5 DEF SettingsInv, NoneSet, SettingsKept
  <1> QED
    BY <1>3, <1>4

\* What the user writes is there as a whole.
LEMMA UserWritesStep ==
    ASSUME EInv, NEW new \in Settings, UserWrites(new), target # None,
           users' \in [UserKeys -> Nat],
           \A k \in UserKeys : users'[k] <= edits + 2,
           ~raced => HoldsFor(users', new)
    PROVE  EInv'
  <1> USE DEF EInv
  <1>1. /\ UNCHANGED <<tool, merged>> /\ edits' = edits + 1
        /\ raced' = (raced \/ \E p \in Processes : Between(p))
        /\ broken' = (broken \/ \E p \in Processes : Writing(p))
    BY DEF UserWrites
  <1>2. /\ target' \in [settings: Settings, text: Texts] /\ target' # None
        /\ target'.text = "whole" /\ target'.settings = new
    BY FileIsThere DEF UserWrites, Texts
  <1>3. FileTypeOK'
    BY <1>1, <1>2 DEF FileTypeOK
  <1>4. TextInv'
    BY <1>1, <1>2 DEF TextInv, OneWriter, TornOnlyByAccident, Writing
  <1>5. MergedHold'
    BY <1>1 DEF MergedHold, Between
  <1>6. SettingsKept'
    BY <1>1, <1>2 DEF SettingsKept
  <1> QED
    BY <1>2, <1>3, <1>4, <1>5, <1>6 DEF SettingsInv, NoneSet

LEMMA EditStep ==
    ASSUME EInv, NEW k \in UserKeys, Edit(k)
    PROVE  EInv'
  <1> DEFINE new == [target.settings EXCEPT ![k] = edits + 2]
  <1>1. target \in [settings: Settings, text: Texts]
    BY DEF EInv, FileTypeOK, Edit
  <1>2. edits + 2 \in Nat
    BY DEF EInv, FileTypeOK
  <1>3. new \in Settings
    BY <1>1, <1>2 DEF Settings
  <1>4. users' = [users EXCEPT ![k] = edits + 2] /\ users \in [UserKeys -> Nat]
    BY DEF Edit, EInv, FileTypeOK
  <1>5. /\ users' \in [UserKeys -> Nat]
        /\ \A l \in UserKeys : users'[l] <= edits + 2
    BY <1>2, <1>4 DEF EInv, FileTypeOK
  <1>6. ~raced => HoldsFor(users, target.settings)
    BY DEF EInv, SettingsInv, SettingsKept, Edit
  <1>7. ASSUME ~raced PROVE HoldsFor(users', new)
    <2>1. /\ new[k] = edits + 2 /\ users'[k] = edits + 2
          /\ \A l \in Keys \ {k} : new[l] = target.settings[l]
          /\ \A l \in UserKeys \ {k} : users'[l] = users[l]
      BY <1>1, <1>2, <1>4 DEF Settings, Keys
    <2>2. \A l \in UserKeys : users[l] \in Nat /\ users[l] < edits + 2
      BY <1>2, <1>4 DEF EInv, FileTypeOK
    <2> HIDE DEF new
    <2> QED
      BY <1>2, <1>6, <1>7, <2>1, <2>2 DEF HoldsFor, UserKeys, Keys
  <1>8. UserWrites(new) /\ target # None
    BY DEF Edit
  <1> HIDE DEF new
  <1> QED
    BY <1>3, <1>5, <1>7, <1>8, UserWritesStep

LEMMA MendStep ==
    ASSUME EInv, Mend
    PROVE  EInv'
  <1>1. UsersOwn \in Settings /\ users' = users
    BY UsersOwnIsSettings DEF Mend, EInv, FileTypeOK
  <1> QED
    BY <1>1, UserWritesStep
    DEF Mend, EInv, FileTypeOK, HoldsFor, UsersOwn, Keys, UserKeys

-----------------------------------------------------------------------------
(* Theorems *)

LEMMA StepKeepsEInv == EInv /\ [ExportNext]_exportVars => EInv'
  <1> SUFFICES ASSUME EInv, [ExportNext]_exportVars PROVE EInv'
    OBVIOUS
  <1>1. CASE UNCHANGED targets
    BY <1>1 DEF targets, EInv, FileTypeOK, TextInv, OneWriter,
                TornOnlyByAccident, Writing, SettingsInv, NoneSet,
                MergedHold, Between, Holds, SettingsKept
  <1>2. CASE Configure
    BY <1>1, <1>2 DEF Configure
  <1>3. ASSUME NEW p \in Processes,
               \/ Fetch(p) \/ Read(p) \/ Open(p) \/ WriteTarget(p)
               \/ Restrict(p) \/ Kill(p)
        PROVE  EInv'
    BY <1>3, FetchStep, ReadStep, OpenStep, WriteTargetStep, RestrictStep,
       KillStep
  <1>4. ASSUME NEW k \in UserKeys, Edit(k) PROVE EInv'
    BY <1>4, EditStep
  <1>5. CASE Mend
    BY <1>5, MendStep
  <1>6. CASE UNCHANGED exportVars
    BY <1>1, <1>6 DEF exportVars
  <1> QED
    BY <1>2, <1>3, <1>4, <1>5, <1>6 DEF ExportNext

LEMMA ExportInvariance == ExportSpec => []EInv
  BY ExportInitially, StepKeepsEInv, PTL DEF ExportSpec

\* Commands that export as well do to the config file and its temporary file
\* what ConfigStore says, and nothing else: what is proved of ConfigStore
\* holds with the exports too.
THEOREM ExportsRefineConfigStore == ExportSpec => Spec
  <1>1. ExportInit => Init
    BY DEF ExportInit
  <1>2. [ExportNext]_exportVars => [Next]_vars
    <2> SUFFICES ASSUME [ExportNext]_exportVars PROVE [Next]_vars
      OBVIOUS
    <2>1. CASE Configure
      BY <2>1 DEF Configure, Next
    <2>2. ASSUME NEW p \in Processes,
                 \/ Fetch(p) \/ Read(p) \/ Open(p) \/ WriteTarget(p)
                 \/ Restrict(p) \/ Kill(p)
          PROVE  UNCHANGED vars
      BY <2>2 DEF Fetch, Read, Open, WriteTarget, Restrict, Kill, others
    <2>3. ASSUME NEW k \in UserKeys, Edit(k) PROVE UNCHANGED vars
      BY <2>3 DEF Edit, UserWrites
    <2>4. CASE Mend
      BY <2>4 DEF Mend, UserWrites
    <2>5. CASE UNCHANGED exportVars
      BY <2>5 DEF exportVars
    <2> QED
      BY <2>1, <2>2, <2>3, <2>4, <2>5 DEF ExportNext
  <1> QED
    BY <1>1, <1>2, PTL DEF ExportSpec, Spec

\* While commands export and are killed, the config file stays whole, and only
\* the killed and the failed leave something beside it.
THEOREM ConfigCrashSafe == ExportSpec => []CrashSafe
  BY ExportsRefineConfigStore, SavesAreCrashSafe, PTL

\* The other tool's file is never torn but while it is written, or after a
\* write that was cut off or overlapped another (commands.rs:331).
THEOREM TornByAccident == ExportSpec => []TornOnlyByAccident
  <1>1. EInv => TornOnlyByAccident
    BY DEF EInv, TextInv
  <1> QED
    BY ExportInvariance, <1>1, PTL

\* However many exports of either format read, merge and write the file,
\* one after the other or at once, what its user has set is still there, but
\* for what HoldsFor excepts (the other providers of OpenCode, and agents of
\* OpenClaw without a model), unless the user edited between the read and
\* the write of an export.
THEOREM UserSettingsKept == ExportSpec => []SettingsKept
  <1>1. EInv => SettingsKept
    BY DEF EInv, SettingsInv
  <1> QED
    BY ExportInvariance, <1>1, PTL

=============================================================================
