------------------------------ MODULE Settings ------------------------------
(***************************************************************************)
(* config.yaml: settings.Init, the goroutine of viper.WatchConfig with the *)
(* callback Init gives it, and the first uses of settings.Conf.  Someone   *)
(* edits the file; the process may end at any time and be started again.   *)
(*                                                                         *)
(* Settings, in the file, in viper or in Conf, are a value for each of     *)
(* Fields.  Missing stands for a key that is not there, and for a pointer  *)
(* of Conf that is nil; Mistyped for a value that is not of the field's    *)
(* type.  A file is emptied before it is written, and what an editor       *)
(* leaves may be no YAML.                                                  *)
(***************************************************************************)
EXTENDS Integers

CONSTANTS
  Edits,       \* settings an editor may write
  Example,     \* yamlExample
  MaxEdits,    \* bound: times the file is edited
  MaxBoots     \* bound: times the program is started

\* The fields of AppConfig, in the order Unmarshal fills them.
Fields == <<"port", "hardware", "log">>
Names == {"port", "hardware", "log"}
Missing == 0
Mistyped == -1
Values == [Names -> Nat]
Contents == [Names -> Nat \cup {Mistyped}]
Empty == [f \in Names |-> Missing]

ASSUME EditsAssumption == Edits \subseteq Contents
ASSUME ExampleAssumption == Example \in Values /\ \A f \in Names : Example[f] /= Missing
ASSUME BoundsAssumption == MaxEdits \in Nat /\ MaxBoots \in Nat \ {0}

VARIABLES
  exists, file,    \* config.yaml
  editing,         \* an editor has emptied it and not yet written it
  broken,          \* what the editor has left in it is no YAML
  pc,              \* where main and the watcher's goroutine are
  held,            \* the settings each is about to put into viper or into Conf
  next,            \* the field of Conf it fills next
  viper, Conf,
  event,           \* the file was changed since the watcher read it last
  \* history:
  found,           \* what Init read, or wrote, in this process
  raced,           \* the watcher read the file before Init had filled Conf ...
  unsettled,       \* ... and has not read it since
  edits, boots

disk == <<exists, file, editing, broken, edits>>
local == <<held, next>>
history == <<found, raced, unsettled, boots>>
vars == <<disk, pc, local, viper, Conf, event, history>>

Threads == {"main", "watcher"}
MainSteps == {"stat", "write", "register", "read", "store", "unmarshal", "decode", "print",
              "logger", "serving", "panicked", "reported"}
WatcherSteps == {"off", "idle", "store", "unmarshal", "decode"}

\* A process that has just been started.
Started(p, h, n, v, c, e, f, r, u) ==
  /\ p = [t \in Threads |-> IF t = "main" THEN "stat" ELSE "off"]
  /\ h = [t \in Threads |-> Empty] /\ n = [t \in Threads |-> 1]
  /\ v = Empty /\ c = Empty /\ e = FALSE /\ f = Empty /\ r = FALSE /\ u = FALSE

Init ==
  /\ exists = FALSE /\ file = Empty /\ editing = FALSE /\ broken = FALSE /\ edits = 0
  /\ Started(pc, held, next, viper, Conf, event, found, raced, unsettled) /\ boots = 1

\* The process ends with main.
Goto(t, from, to) ==
  /\ pc["main"] \notin {"panicked", "reported"}
  /\ pc[t] = from /\ pc' = [pc EXCEPT ![t] = to]

-----------------------------------------------------------------------------
(* settings.Init where there is no file.                                     *)

\* ReadConfInBuff, and WriteConfigAs as far as creating the file.
Create ==
  /\ ~exists /\ Goto("main", "stat", "write")
  /\ viper' = Example /\ exists' = TRUE
  /\ UNCHANGED <<file, editing, broken, edits, local, Conf, event, history>>

\* The file is written.  No one watches it.
Write ==
  /\ Goto("main", "write", "unmarshal")
  /\ file' = viper /\ found' = viper
  /\ UNCHANGED <<exists, editing, broken, edits, local, viper, Conf, event, raced, unsettled, boots>>

-----------------------------------------------------------------------------
(* settings.Init where there is one, and the watcher.                        *)

WatchConfig ==
  /\ exists /\ pc["main"] = "stat"
  /\ pc' = [pc EXCEPT !["main"] = "register", !["watcher"] = "idle"]
  /\ UNCHANGED <<disk, local, viper, Conf, event, history>>

OnConfigChange ==
  /\ Goto("main", "register", "read")
  /\ UNCHANGED <<disk, local, viper, Conf, event, history>>

Loading == pc["main"] \in {"register", "read", "store", "unmarshal", "decode"}

\* History: the watcher, in t, reads the file while Init is still on its way.
Reads(t) ==
  IF t = "main" THEN UNCHANGED <<raced, unsettled>>
  ELSE raced' = (raced \/ Loading) /\ unsettled' = Loading

\* ReadInConfig reads the file, in Init or for an event ...
ReadInConfig(t) ==
  /\ ~broken
  /\ IF t = "main" THEN Goto(t, "read", "store") ELSE event /\ Goto(t, "idle", "store")
  /\ held' = [held EXCEPT ![t] = file]
  /\ event' = (event /\ t = "main")
  /\ found' = (IF t = "main" THEN file ELSE found)
  /\ Reads(t)
  /\ UNCHANGED <<disk, next, viper, Conf, boots>>

\* Mutant: the watcher ends with the first file it cannot parse.
ReadFail_Ends(t) ==
  /\ editing \/ broken
  /\ IF t = "main" THEN Goto(t, "read", "reported") ELSE event /\ Goto(t, "idle", "ended")
  /\ event' = (event /\ t = "main")
  /\ Reads(t)
  /\ UNCHANGED <<disk, local, viper, Conf, found, boots>>

\* ... which fails where it cannot be parsed: Init then fails, while the
\* watcher goes on to the callback.
ReadFail(t) ==
  /\ editing \/ broken
  /\ IF t = "main" THEN Goto(t, "read", "reported")
     ELSE event /\ Goto(t, "idle", IF pc["main"] = "register" THEN "idle" ELSE "unmarshal")
  /\ event' = (event /\ t = "main")
  /\ Reads(t)
  /\ UNCHANGED <<disk, local, viper, Conf, found, boots>>

\* Mutant: the watcher has no callback to call.
Store_NoCallback(t) ==
  /\ Goto(t, "store", IF t = "watcher" THEN "idle" ELSE "unmarshal")
  /\ viper' = held[t]
  /\ UNCHANGED <<disk, local, Conf, event, history>>

\* ... and viper holds what was read; the watcher then calls the callback if
\* there is one yet.
Store(t) ==
  /\ Goto(t, "store", IF pc["main"] = "register" THEN "idle" ELSE "unmarshal")
  /\ viper' = held[t]
  /\ UNCHANGED <<disk, local, Conf, event, history>>

-----------------------------------------------------------------------------
(* viper.Unmarshal(Conf), in either thread.                                  *)

\* AllSettings
Unmarshal(t) ==
  /\ Goto(t, "unmarshal", "decode")
  /\ held' = [held EXCEPT ![t] = viper] /\ next' = [next EXCEPT ![t] = 1]
  /\ UNCHANGED <<disk, viper, Conf, event, history>>

\* Mutant: a key that is not there makes its field nil.
Merged_Zeroed(f, settings) == IF settings[f] = Mistyped THEN Conf[f] ELSE settings[f]

\* What becomes of a field: one that has no key, or no value of its type, keeps
\* what it has, a pointer nil.
Merged(f, settings) == IF settings[f] \in {Missing, Mistyped} THEN Conf[f] ELSE settings[f]

\* Mutant: Init drops the error, as the callback does.
Decoded_Dropped(t) ==
  IF t = "watcher" THEN "idle" ELSE IF pc["watcher"] = "off" THEN "logger" ELSE "print"

\* The error Unmarshal returns when a value was of another type: Init returns it,
\* and main ends; the callback drops it.
Decoded(t) ==
  IF t = "watcher" THEN "idle"
  ELSE IF \E f \in Names : held[t][f] = Mistyped THEN "reported"
  ELSE IF pc["watcher"] = "off" THEN "logger" ELSE "print"

\* Mutant: next goes on behind the last field.
Decode_Over(t) ==
  /\ Goto(t, "decode", IF next[t] < 3 THEN "decode" ELSE Decoded(t))
  /\ next' = [next EXCEPT ![t] = @ + 1]
  /\ LET f == Fields[next[t]] IN Conf' = [Conf EXCEPT ![f] = Merged(f, held[t])]
  /\ UNCHANGED <<disk, held, viper, event, history>>

\* One field after another, those behind a mistyped one too; Init then prints
\* Conf.Hardware, where it has read the file.
Decode(t) ==
  /\ Goto(t, "decode", IF next[t] < 3 THEN "decode" ELSE Decoded(t))
  /\ next' = [next EXCEPT ![t] = IF next[t] < 3 THEN @ + 1 ELSE @]
  /\ LET f == Fields[next[t]] IN Conf' = [Conf EXCEPT ![f] = Merged(f, held[t])]
  /\ UNCHANGED <<disk, held, viper, event, history>>

\* fmt.Println(*Conf.Hardware)
PrintHardware ==
  /\ Goto("main", "print", IF Conf["hardware"] = Missing THEN "panicked" ELSE "logger")
  /\ UNCHANGED <<disk, local, viper, Conf, event, history>>

\* logger.Init, which reads Conf.LogConfig.
LoggerInit ==
  /\ Goto("main", "logger", IF Conf["log"] = Missing THEN "panicked" ELSE "serving")
  /\ UNCHANGED <<disk, local, viper, Conf, event, history>>

\* The file cannot be created, or cannot be written.  main reports it and returns.
Fail ==
  /\ (~exists /\ Goto("main", "stat", "reported")) \/ Goto("main", "write", "reported")
  /\ UNCHANGED <<disk, local, viper, Conf, event, history>>

-----------------------------------------------------------------------------
(* The world.                                                                *)

Edit ==
  /\ exists /\ pc["main"] /= "write" /\ ~editing /\ edits < MaxEdits
  /\ file' = Empty /\ editing' = TRUE /\ broken' = FALSE /\ edits' = edits + 1
  /\ event' = (pc["watcher"] /= "off")
  /\ UNCHANGED <<exists, pc, local, viper, Conf, history>>

Save ==
  /\ editing
  /\ (file' \in Edits /\ broken' = FALSE) \/ (file' = Empty /\ broken' = TRUE)
  /\ editing' = FALSE
  /\ event' = (pc["watcher"] /= "off")
  /\ UNCHANGED <<exists, edits, pc, local, viper, Conf, history>>

Restart ==
  /\ boots < MaxBoots
  /\ boots' = boots + 1
  /\ Started(pc', held', next', viper', Conf', event', found', raced', unsettled')
  /\ UNCHANGED disk

Watcher == \/ ReadInConfig("watcher") \/ ReadFail("watcher") \/ Store("watcher")
           \/ Unmarshal("watcher") \/ Decode("watcher")

Next ==
  \/ Create \/ Write \/ WatchConfig \/ OnConfigChange
  \/ \E t \in Threads :
       ReadInConfig(t) \/ ReadFail(t) \/ Store(t) \/ Unmarshal(t) \/ Decode(t)
  \/ PrintHardware \/ LoggerInit \/ Fail
  \/ Edit \/ Save \/ Restart

Spec == Init /\ [][Next]_vars /\ WF_vars(Watcher)

-----------------------------------------------------------------------------
(* What config.yaml is there for. *)

\* Every variable has its type.
TypeOK ==
  /\ exists \in BOOLEAN /\ editing \in BOOLEAN /\ broken \in BOOLEAN
  /\ event \in BOOLEAN /\ raced \in BOOLEAN /\ unsettled \in BOOLEAN
  /\ file \in Contents /\ viper \in Contents /\ found \in Contents /\ Conf \in Values
  /\ held \in [Threads -> Contents] /\ next \in [Threads -> 1..3]
  /\ edits \in 0..MaxEdits /\ boots \in 1..MaxBoots
  /\ pc \in [Threads -> MainSteps \cup WatcherSteps]
  /\ pc["main"] \in MainSteps /\ pc["watcher"] \in WatcherSteps

\* A pointer of Conf is nil when it is used, and the program panics, only if its
\* section was not in the file that Init read: not after a first start, and not
\* because of what the watcher reads meanwhile, unless that was before Init was done.
NilOnlyIfMissing ==
  pc["main"] \in {"print", "logger", "serving", "panicked"} /\ ~raced =>
    \A f \in Names : Conf[f] = Missing => found[f] = Missing

\* The values of the file that Unmarshal takes over are those in Conf.  A key that
\* is missing or mistyped, and a file that is no YAML, leave there what an earlier
\* version said: Conf may be of several versions of the file.
Follows == \A f \in Names : file[f] \in {Missing, Mistyped, Conf[f]}

\* When no event is left to handle, Conf follows a watched file, unless the last
\* the watcher read of it was read while Init was filling Conf, too.
Settled ==
  pc["main"] = "serving" /\ pc["watcher"] = "idle" /\ ~event /\ ~unsettled => Follows

\* A program that serves has a log section, and one that watches its file a
\* hardware section, from then on until it ends: whatever the watcher read before
\* Init was done, and whatever a later edit leaves out or gets wrong.
ServesWhole ==
  pc["main"] = "serving" =>
    /\ Conf["log"] /= Missing
    /\ pc["watcher"] /= "off" => Conf["hardware"] /= Missing

\* Every value of an edit made while the program serves that Unmarshal can take
\* over comes into force, whatever happened in the start, unless the program ends;
\* an edit that cannot be read or decoded does not stop the later ones.
EditsFollowed ==
  pc["main"] = "serving" /\ event ~> Follows \/ pc["main"] /= "serving"
=============================================================================
