------------------------- MODULE TelegrafEntrypoint -------------------------
(***************************************************************************)
(* The entrypoint of the Telegraf container: it renders every input        *)
(* template once per monitored instance into a directory and starts        *)
(* Telegraf on that directory.  The container is killed and restarted at   *)
(* any point; the directory may survive (a Kubernetes emptyDir) or not (a  *)
(* tmpfs).                                                                 *)
(*                                                                         *)
(* The name of an environment variable is the sequence of its words:       *)
(* DB1_APP_DSN is <<"DB1", "APP", "DSN">>, so an id is a sequence too.     *)
(***************************************************************************)
EXTENDS Naturals, Sequences

CONSTANTS
  Settings,   \* environments an operator may give the container
  Lower,      \* lower case of an id, as used in the names of the files
  WellFormed, \* ids made of letters, digits and _, not starting with a digit
  Templates,  \* the files of INPUTS_DIR
  Static,     \* the files of STATIC_DIR
  MaxStarts   \* bound: starts of the container

(***************************************************************************)
(* A setting is a record: given, whether PG_INSTANCES is not empty; ids,   *)
(* the words it is split into, which may be none when it is given (",");   *)
(* inputs, whether INPUTS_DIR exists; set, the names of the variables that *)
(* are not empty.                                                          *)
(***************************************************************************)
ASSUME SettingsAssumption ==
  /\ \A id \in DOMAIN Lower : id \in Seq(STRING)
  /\ \A s \in Settings :
       /\ s.given \in BOOLEAN /\ s.inputs \in BOOLEAN
       /\ s.ids \in Seq(DOMAIN Lower)
       /\ s.ids # <<>> => s.given
  /\ MaxStarts \in Nat

VARIABLES
  setting, \* the environment of the container
  dir,     \* RENDER_DIR: name of a file |-> its content
  pc,      \* "stopped", "rendering", "running" or "died"
  next,    \* index in PG_INSTANCES of the id to render next
  starts

vars == <<setting, dir, pc, next, starts>>

Suffixes == {<<"INSTANCE">>, <<"DSN">>, <<"APP", "DSN">>, <<"ENV">>}
Required == {<<"INSTANCE">>, <<"DSN">>, <<"APP", "DSN">>}

NoFiles == [f \in {} |-> {}]

\* Mistake: the loop starts before the first id.
IndexZero == 0

FirstIndex == 1

FileName(id, t) == <<Lower[id], t>>

\* Mistake: the application DSN is taken from the cluster DSN.
SubstituteOne(id, name) ==
  IF name = <<"PG", "APP", "DSN">> THEN id \o <<"DSN">>
  ELSE IF Head(name) = "PG" THEN id \o Tail(name) ELSE name

\* The four sed expressions, one after the other, on one ${name}.
Substitute(id, name) ==
  LET Step(n, suffix) == IF n = <<"PG">> \o suffix THEN id \o suffix ELSE n
  IN Step(Step(Step(Step(name, <<"DSN">>), <<"APP", "DSN">>),
               <<"INSTANCE">>), <<"ENV">>)

\* A file refers to one variable per suffix.
Rendered(id) ==
  [suffix \in Suffixes |-> Substitute(id, <<"PG">> \o suffix)]

\* The loop stays within PG_INSTANCES, and RENDER_DIR holds nothing but
\* static files and files of rendered ids.
TypeOK ==
  /\ setting \in Settings
  /\ pc \in {"stopped", "rendering", "running", "died"}
  /\ next \in 1..(Len(setting.ids) + 1)
  /\ starts \in 0..MaxStarts
  /\ DOMAIN dir \subseteq
       Static \cup {<<Lower[id], t>> : id \in DOMAIN Lower, t \in Templates}

Init ==
  /\ setting \in Settings
  /\ dir = NoFiles
  /\ pc = "stopped"
  /\ next = FirstIndex
  /\ starts = 0

\* Mistake: the directory is not emptied.
BeginKeeping ==
  /\ pc = "stopped"
  /\ starts < MaxStarts
  /\ starts' = starts + 1
  /\ next' = FirstIndex
  /\ IF ~(setting.given /\ setting.inputs)
       THEN pc' = "died" /\ UNCHANGED dir
       ELSE /\ pc' = "rendering"
            /\ dir' = [f \in Static \cup DOMAIN dir |->
                         IF f \in Static THEN "static" ELSE dir[f]]
  /\ UNCHANGED setting

\* PG_INSTANCES must not be empty, whatever it is split into, and INPUTS_DIR
\* must exist; the directory is emptied and gets the static files.
Begin ==
  /\ pc = "stopped"
  /\ starts < MaxStarts
  /\ starts' = starts + 1
  /\ next' = FirstIndex
  /\ IF ~(setting.given /\ setting.inputs)
       THEN pc' = "died" /\ UNCHANGED dir
       ELSE pc' = "rendering" /\ dir' = [f \in Static |-> "static"]
  /\ UNCHANGED setting

\* Mistake: an id is compared with the one before it only.
DuplicateOfPrevious(i) == i > 1 /\ setting.ids[i - 1] = setting.ids[i]

Duplicate(i) == \E j \in 1..(i - 1) : setting.ids[j] = setting.ids[i]

Acceptable(i) ==
  LET id == setting.ids[i]
  IN /\ id \in WellFormed
     /\ ~Duplicate(i)
     /\ \A suffix \in Required : id \o suffix \in setting.set
     /\ id \o <<"ENV">> \in setting.set \/ <<"PG", "ENV">> \in setting.set

\* One id: die, or write one file per template (overwriting a file of the
\* same name).
RenderNext ==
  /\ pc = "rendering"
  /\ next <= Len(setting.ids)
  /\ IF ~Acceptable(next)
       THEN pc' = "died" /\ UNCHANGED <<dir, next>>
       ELSE LET id == setting.ids[next]
                files == {FileName(id, t) : t \in Templates}
            IN /\ dir' = [f \in DOMAIN dir \cup files |->
                            IF f \in files THEN Rendered(id) ELSE dir[f]]
               /\ next' = next + 1
               /\ UNCHANGED pc
  /\ UNCHANGED <<setting, starts>>

\* Mistake: Telegraf is started beside the loop.
ExecEarly ==
  /\ pc = "rendering"
  /\ pc' = "running"
  /\ UNCHANGED <<setting, dir, next, starts>>

\* Mistake: the end of the loop is missed by one.
ExecLate ==
  /\ pc = "rendering"
  /\ next > Len(setting.ids) + 1
  /\ pc' = "running"
  /\ UNCHANGED <<setting, dir, next, starts>>

Exec ==
  /\ pc = "rendering"
  /\ next > Len(setting.ids)
  /\ pc' = "running"
  /\ UNCHANGED <<setting, dir, next, starts>>

\* The container ends (restart: unless-stopped); its directory survives or
\* is lost with it.
Ends ==
  /\ pc # "stopped"
  /\ pc' = "stopped"
  /\ next' = FirstIndex
  /\ dir' \in {dir, NoFiles}
  /\ UNCHANGED <<setting, starts>>

\* The operator edits the env file between two starts.
Reconfigure ==
  /\ pc = "stopped"
  /\ starts < MaxStarts
  /\ setting' \in Settings
  /\ next' = FirstIndex
  /\ UNCHANGED <<dir, pc, starts>>

Next == Begin \/ RenderNext \/ Exec \/ Ends \/ Reconfigure

Spec == Init /\ [][Next]_vars

\* The script runs on; a container is not killed before Telegraf starts or
\* the script dies for ever.
FairSpec ==
  /\ Spec
  /\ WF_vars(RenderNext) /\ WF_vars(Exec)
-----------------------------------------------------------------------------
Ids == {setting.ids[i] : i \in 1..Len(setting.ids)}

\* Telegraf never starts on an environment the script refuses: PG_INSTANCES
\* or INPUTS_DIR missing, a variable missing, an id malformed or given twice.
\* It does start when PG_INSTANCES holds separators only, on no id at all.
RunsOnlyOnGoodSettings ==
  pc = "running" =>
    /\ setting.given /\ setting.inputs
    /\ \A i, j \in 1..Len(setting.ids) :
         setting.ids[i] = setting.ids[j] => i = j
    /\ \A id \in Ids :
         /\ id \in WellFormed
         /\ \A suffix \in Required : id \o suffix \in setting.set
         /\ {id \o <<"ENV">>, <<"PG", "ENV">>} \cap setting.set # {}

\* "For every id of PG_INSTANCES the input templates of INPUTS_DIR are
\* rendered into RENDER_DIR": while Telegraf runs there is, for every id and
\* every template, a file that refers to this id.
EveryInstanceRendered ==
  pc = "running" =>
    \A id \in Ids, t \in Templates :
      \E f \in DOMAIN dir \ Static :
        f[2] = t /\ dir[f][<<"INSTANCE">>] = id \o <<"INSTANCE">>

PgApp == <<"PG", "APP">>

\* The four expressions work on each other's results for one id alone: a file
\* refers to the variables of one id, and every one to the right one, except
\* that a file of PG_APP may ask for another DSN.
VariablesRenamed ==
  pc \in {"rendering", "running"} =>
    \A f \in DOMAIN dir \ Static :
      \E id \in Ids : \A suffix \in Suffixes :
        \/ dir[f][suffix] = id \o suffix
        \/ id = PgApp /\ suffix = <<"DSN">>

\* "For every id of PG_INSTANCES the input templates of INPUTS_DIR are
\* rendered into RENDER_DIR as <id>__<file>.conf, ${PG_DSN} / ${PG_APP_DSN} /
\* ${PG_INSTANCE} / ${PG_ENV} become ${<ID>_DSN} / ${<ID>_APP_DSN} /
\* ${<ID>_INSTANCE} / ${<ID>_ENV}".
AsTheHeaderSays ==
  pc = "running" =>
    \A id \in Ids, t \in Templates :
      \E f \in DOMAIN dir \ Static :
        f[2] = t /\ \A suffix \in Suffixes : dir[f][suffix] = id \o suffix

\* Telegraf never collects an instance that PG_INSTANCES no longer names,
\* whatever an earlier start left in the directory.
NothingStale ==
  pc = "running" =>
    DOMAIN dir = Static \cup {FileName(id, t) : id \in Ids, t \in Templates}

GoodSetting == \A i \in 1..Len(setting.ids) : Acceptable(i)

\* A start ends: in a running Telegraf when every id is good (there may be
\* none), and with an error when one is not, unless the container is stopped
\* first.
StartEnds ==
  /\ pc = "rendering" /\ GoodSetting ~> pc \in {"running", "stopped"}
  /\ pc = "rendering" /\ ~GoodSetting ~> pc \in {"died", "stopped"}
=============================================================================
