--------------------------- MODULE SettingsProofs ---------------------------
(***************************************************************************)
(* Theorems about Settings, for any file, any edits and any number of      *)
(* starts.                                                                 *)
(***************************************************************************)
EXTENDS Settings, TLAPS

LEMMA FieldsNames ==
  /\ \A i \in 1..3 : Fields[i] \in Names
  /\ \A f \in Names : \E i \in 1..3 : Fields[i] = f
  /\ \A i, j \in 1..3 : Fields[i] = Fields[j] => i = j
<1>1. Fields[1] = "port" /\ Fields[2] = "hardware" /\ Fields[3] = "log"
  BY DEF Fields
<1>2. \A i \in 1..3 : i = 1 \/ i = 2 \/ i = 3
  OBVIOUS
<1> QED
  BY <1>1, <1>2 DEF Names

LEMMA EmptyIsValues == Empty \in Values /\ Empty \in Contents
BY DEF Empty, Values, Contents, Missing

LEMMA ExampleIsContents == Example \in Contents
BY ExampleAssumption DEF Values, Contents

\* Decode changes one field, and makes none nil.
LEMMA DecodeConf ==
  ASSUME TypeOK, NEW t \in Threads, Decode(t)
  PROVE  /\ Conf' \in Values
         /\ \A f \in Names : Conf'[f] = IF f = Fields[next[t]] THEN Merged(f, held[t]) ELSE Conf[f]
         /\ \A f \in Names : Conf[f] /= Missing => Conf'[f] /= Missing
<1>1. next[t] \in 1..3 /\ held[t] \in Contents /\ Conf \in Values
  BY DEF TypeOK
<1> DEFINE g == Fields[next[t]]
<1>2. g \in Names
  BY <1>1, FieldsNames
<1>3. Conf' = [Conf EXCEPT ![g] = Merged(g, held[t])]
  BY DEF Decode
<1>4. Merged(g, held[t]) \in Nat
  BY <1>1, <1>2 DEF Merged, Values, Contents, Missing, Mistyped
<1> HIDE DEF g
<1>5. Conf' \in Values /\ \A f \in Names : Conf'[f] = IF f = g THEN Merged(f, held[t]) ELSE Conf[f]
  BY <1>1, <1>2, <1>3, <1>4 DEF Values
<1>6. \A f \in Names : Conf[f] /= Missing => Conf'[f] /= Missing
  BY <1>5 DEF Merged
<1> QED
  BY <1>5, <1>6 DEF g

-----------------------------------------------------------------------------
(* The invariant.                                                            *)

\* Until Init has filled Conf the watcher does not touch it, unless they race.
Alone ==
  /\ pc["main"] \in {"stat", "write"} => pc["watcher"] = "off" /\ ~raced
  /\ ~raced /\ Loading => pc["watcher"] \in {"off", "idle"}
  /\ raced /\ Loading => unsettled

\* What is in each place on the way from the file Init reads to Conf.
FoundInConf(f) == found[f] \notin {Missing, Mistyped} => Conf[f] /= Missing
OnTheWay ==
  ~raced =>
    /\ pc["main"] = "store" => held["main"] = found
    /\ pc["main"] = "unmarshal" => viper = found
    /\ pc["main"] = "decode" =>
         held["main"] = found /\ \A i \in 1..3 : i < next["main"] => FoundInConf(Fields[i])
    /\ pc["main"] \in {"print", "logger", "serving", "panicked"} =>
         \A f \in Names : FoundInConf(f) /\ found[f] /= Mistyped

\* The same for the file as it is, when it has not changed since it was read.
FileInConf(f) == file[f] \in {Missing, Mistyped, Conf[f]}
Carries(t) ==
  /\ pc[t] = "store" => held[t] = file
  /\ pc[t] = "unmarshal" => viper = file
  /\ pc[t] = "decode" =>
       held[t] = file /\ \A i \in 1..3 : i < next[t] => FileInConf(Fields[i])
Fresh ==
  ~unsettled /\ ~event /\ ~editing /\ ~broken /\ pc["watcher"] /= "off" =>
    /\ Carries("main")
    /\ pc["main"] \in {"print", "logger", "serving"} =>
         Carries("watcher") /\ (pc["watcher"] = "idle" => \A f \in Names : FileInConf(f))

Emptied == editing \/ broken => file = Empty /\ exists /\ pc["main"] /= "write"

IInv == TypeOK /\ Alone /\ OnTheWay /\ Fresh /\ Emptied

LEMMA NextTypeOK ==
  ASSUME IInv, [Next]_vars
  PROVE  TypeOK'
<1> USE DEF IInv, TypeOK, Goto, disk, local, history, Threads, MainSteps, WatcherSteps
<1>1. CASE Create
  BY <1>1, ExampleIsContents DEF Create
<1>2. CASE Write
  BY <1>2 DEF Write
<1>3. CASE WatchConfig
  BY <1>3 DEF WatchConfig
<1>4. CASE OnConfigChange
  BY <1>4 DEF OnConfigChange
<1>5. CASE ReadInConfig("main")
  BY <1>5 DEF ReadInConfig, Reads, Loading
<1>6. CASE ReadInConfig("watcher")
  BY <1>6 DEF ReadInConfig, Reads, Loading
<1>7. CASE ReadFail("main")
  BY <1>7 DEF ReadFail, Reads, Loading
<1>8. CASE ReadFail("watcher")
  BY <1>8 DEF ReadFail, Reads, Loading
<1>9. CASE Store("main")
  BY <1>9 DEF Store
<1>10. CASE Store("watcher")
  BY <1>10 DEF Store
<1>11. CASE Unmarshal("main")
  BY <1>11 DEF Unmarshal
<1>12. CASE Unmarshal("watcher")
  BY <1>12 DEF Unmarshal
<1>13. CASE Decode("main")
  <2>1. Conf' \in Values
    BY <1>13, DecodeConf
  <2>2. next'["main"] \in 1..3 /\ next' \in [Threads -> 1..3]
    BY <1>13 DEF Decode
  <2> QED
    BY <1>13, <2>1, <2>2 DEF Decode, Decoded
<1>14. CASE Decode("watcher")
  <2>1. Conf' \in Values
    BY <1>14, DecodeConf
  <2>2. next' \in [Threads -> 1..3]
    BY <1>14 DEF Decode
  <2> QED
    BY <1>14, <2>1, <2>2 DEF Decode, Decoded
<1>15. CASE PrintHardware
  BY <1>15 DEF PrintHardware
<1>16. CASE LoggerInit
  BY <1>16 DEF LoggerInit
<1>17. CASE Fail
  BY <1>17 DEF Fail
<1>18. CASE Edit
  <2>1. edits' \in 0..MaxEdits
    BY <1>18, BoundsAssumption DEF Edit
  <2>2. file' \in Contents /\ event' \in BOOLEAN
    BY <1>18, EmptyIsValues DEF Edit
  <2> QED
    BY <1>18, <2>1, <2>2 DEF Edit
<1>19. CASE Save
  BY <1>19, EditsAssumption, EmptyIsValues DEF Save
<1>20. CASE Restart
  <2>1. boots' \in 1..MaxBoots
    BY <1>20, BoundsAssumption DEF Restart
  <2>2. pc' \in [Threads -> MainSteps \cup WatcherSteps] /\ pc'["main"] = "stat" /\ pc'["watcher"] = "off"
    BY <1>20 DEF Restart, Started
  <2>3. held' \in [Threads -> Values] /\ next' \in [Threads -> 1..3]
    BY <1>20, EmptyIsValues DEF Restart, Started
  <2> QED
    BY <1>20, <2>1, <2>2, <2>3, EmptyIsValues DEF Restart, Started
<1>21. CASE UNCHANGED vars
  BY <1>21 DEF vars
<1> QED
  BY <1>1, <1>2, <1>3, <1>4, <1>5, <1>6, <1>7, <1>8, <1>9, <1>10, <1>11, <1>12, <1>13, <1>14, <1>15, <1>16, <1>17, <1>18, <1>19, <1>20, <1>21 DEF Next, Threads

LEMMA NextAlone ==
  ASSUME IInv, [Next]_vars
  PROVE  Alone' /\ Emptied'
<1> USE DEF IInv, Alone, Emptied, Loading, Goto, disk, local, history, Threads
<1>0. /\ pc \in [Threads -> MainSteps \cup WatcherSteps]
      /\ held \in [Threads -> Contents] /\ next \in [Threads -> 1..3]
      /\ pc["main"] \in MainSteps /\ pc["watcher"] \in WatcherSteps
  BY DEF TypeOK
<1>1. CASE Create
  BY <1>0, <1>1 DEF Create
<1>2. CASE Write
  BY <1>0, <1>2 DEF Write
<1>3. CASE WatchConfig
  BY <1>0, <1>3 DEF WatchConfig
<1>4. CASE OnConfigChange
  BY <1>0, <1>4 DEF OnConfigChange
<1>5. CASE ReadInConfig("main")
  BY <1>0, <1>5 DEF ReadInConfig, Reads, Loading
<1>6. CASE ReadInConfig("watcher")
  BY <1>0, <1>6 DEF ReadInConfig, Reads, Loading
<1>7. CASE ReadFail("main")
  BY <1>0, <1>7 DEF ReadFail, Reads, Loading
<1>8. CASE ReadFail("watcher")
  BY <1>0, <1>8 DEF ReadFail, Reads, Loading
<1>9. CASE Store("main")
  BY <1>0, <1>9 DEF Store
<1>10. CASE Store("watcher")
  BY <1>0, <1>10 DEF Store
<1>11. CASE Unmarshal("main")
  BY <1>0, <1>11 DEF Unmarshal
<1>12. CASE Unmarshal("watcher")
  BY <1>0, <1>12 DEF Unmarshal
<1>13. CASE Decode("main")
  BY <1>0, <1>13 DEF Decode, Decoded
<1>14. CASE Decode("watcher")
  BY <1>0, <1>14 DEF Decode, Decoded
<1>15. CASE PrintHardware
  BY <1>0, <1>15 DEF PrintHardware
<1>16. CASE LoggerInit
  BY <1>0, <1>16 DEF LoggerInit
<1>17. CASE Fail
  BY <1>0, <1>17 DEF Fail
<1>18. CASE Edit
  BY <1>0, <1>18 DEF Edit
<1>19. CASE Save
  BY <1>0, <1>19 DEF Save
<1>20. CASE Restart
  BY <1>0, <1>20 DEF Restart, Started
<1>21. CASE UNCHANGED vars
  BY <1>0, <1>21 DEF vars
<1> QED
  BY <1>1, <1>2, <1>3, <1>4, <1>5, <1>6, <1>7, <1>8, <1>9, <1>10, <1>11, <1>12, <1>13, <1>14, <1>15, <1>16, <1>17, <1>18, <1>19, <1>20, <1>21 DEF Next, Threads

LEMMA NextOnTheWay ==
  ASSUME IInv, [Next]_vars
  PROVE  OnTheWay'
<1> USE DEF IInv, OnTheWay, FoundInConf, Alone, Loading, Goto, disk, local, history, Threads
<1>0. /\ pc \in [Threads -> MainSteps \cup WatcherSteps]
      /\ held \in [Threads -> Contents] /\ next \in [Threads -> 1..3]
      /\ pc["main"] \in MainSteps /\ pc["watcher"] \in WatcherSteps
  BY DEF TypeOK
<1>1. CASE Create
  BY <1>0, <1>1 DEF Create
<1>2. CASE Write
  BY <1>0, <1>2 DEF Write
<1>3. CASE WatchConfig
  BY <1>0, <1>3 DEF WatchConfig
<1>4. CASE OnConfigChange
  BY <1>0, <1>4 DEF OnConfigChange
<1>5. CASE ReadInConfig("main")
  BY <1>0, <1>5 DEF ReadInConfig, Reads, Loading
<1>6. CASE ReadInConfig("watcher")
  BY <1>0, <1>6 DEF ReadInConfig, Reads, Loading
<1>7. CASE ReadFail("main")
  BY <1>0, <1>7 DEF ReadFail, Reads, Loading
<1>8. CASE ReadFail("watcher")
  BY <1>0, <1>8 DEF ReadFail, Reads, Loading
<1>9. CASE Store("main")
  BY <1>0, <1>9 DEF Store
<1>10. CASE Store("watcher")
  BY <1>0, <1>10 DEF Store
<1>11. CASE Unmarshal("main")
  BY <1>0, <1>11 DEF Unmarshal
<1>12. CASE Unmarshal("watcher")
  BY <1>0, <1>12 DEF Unmarshal
<1>13. CASE Decode("main")
  <2> SUFFICES ASSUME ~raced
               PROVE  OnTheWay'
    BY <1>13 DEF Decode
  <2>1. /\ held["main"] = found /\ found' = found /\ held' = held
        /\ \A i \in 1..3 : i < next["main"] => FoundInConf(Fields[i])
        /\ next["main"] \in 1..3
    BY <1>0, <1>13 DEF Decode
  <2>2. \A i \in 1..3 : i <= next["main"] => FoundInConf(Fields[i])'
    <3> SUFFICES ASSUME NEW i \in 1..3, i <= next["main"], found[Fields[i]] \notin {Missing, Mistyped}
                 PROVE  Conf'[Fields[i]] /= Missing
      BY <2>1
    <3>1. Fields[i] \in Names
      BY FieldsNames
    <3>2. CASE i < next["main"]
      BY <1>13, <2>1, <3>1, <3>2, DecodeConf
    <3>3. CASE i = next["main"]
      <4>1. Conf'[Fields[i]] = Merged(Fields[i], held["main"])
        BY <1>13, <3>1, <3>3, DecodeConf
      <4> QED
        BY <2>1, <4>1 DEF Merged
    <3> QED
      BY <2>1, <3>2, <3>3
  <2>3. CASE next["main"] < 3
    <3>1. pc'["main"] = "decode" /\ next'["main"] = next["main"] + 1
      BY <1>0, <1>13, <2>3 DEF Decode
    <3> QED
      BY <2>1, <2>2, <3>1
  <2>4. CASE next["main"] = 3
    <3>1. /\ pc'["main"] \in {"logger", "print", "reported"}
          /\ pc'["main"] /= "reported" => \A f \in Names : found'[f] /= Mistyped
      BY <1>0, <1>13, <2>1, <2>4 DEF Decode, Decoded
    <3>2. \A f \in Names : FoundInConf(f)'
      <4> SUFFICES ASSUME NEW f \in Names PROVE FoundInConf(f)'
        OBVIOUS
      <4>1. PICK i \in 1..3 : Fields[i] = f
        BY FieldsNames
      <4> QED
        BY <2>2, <2>4, <4>1
    <3> QED
      BY <3>1, <3>2
  <2> QED
    BY <2>1, <2>3, <2>4
<1>14. CASE Decode("watcher")
  <2>1. \A f \in Names : FoundInConf(f) => FoundInConf(f)'
    BY <1>14, DecodeConf DEF Decode
  <2>2. ~raced' => pc["main"] \notin {"store", "unmarshal", "decode"}
    BY <1>14 DEF Decode
  <2> QED
    BY <1>0, <1>14, <2>1, <2>2 DEF Decode
<1>15. CASE PrintHardware
  BY <1>0, <1>15 DEF PrintHardware
<1>16. CASE LoggerInit
  BY <1>0, <1>16 DEF LoggerInit
<1>17. CASE Fail
  BY <1>0, <1>17 DEF Fail
<1>18. CASE Edit
  BY <1>0, <1>18 DEF Edit
<1>19. CASE Save
  BY <1>0, <1>19 DEF Save
<1>20. CASE Restart
  BY <1>0, <1>20 DEF Restart, Started
<1>21. CASE UNCHANGED vars
  BY <1>0, <1>21 DEF vars
<1> QED
  BY <1>1, <1>2, <1>3, <1>4, <1>5, <1>6, <1>7, <1>8, <1>9, <1>10, <1>11, <1>12, <1>13, <1>14, <1>15, <1>16, <1>17, <1>18, <1>19, <1>20, <1>21 DEF Next, Threads

LEMMA NextFresh ==
  ASSUME IInv, [Next]_vars
  PROVE  Fresh'
<1> USE DEF IInv, Fresh, Carries, FileInConf, Alone, Emptied, Loading, Goto, disk, local, history, Threads
<1>0. /\ pc \in [Threads -> MainSteps \cup WatcherSteps]
      /\ held \in [Threads -> Contents] /\ next \in [Threads -> 1..3]
      /\ pc["main"] \in MainSteps /\ pc["watcher"] \in WatcherSteps
  BY DEF TypeOK
<1>1. CASE Create
  BY <1>0, <1>1 DEF Create
<1>2. CASE Write
  BY <1>0, <1>2 DEF Write
<1>3. CASE WatchConfig
  BY <1>0, <1>3 DEF WatchConfig
<1>4. CASE OnConfigChange
  BY <1>0, <1>4 DEF OnConfigChange
<1>5. CASE ReadInConfig("main")
  BY <1>0, <1>5 DEF ReadInConfig, Reads, Loading
<1>6. CASE ReadInConfig("watcher")
  BY <1>0, <1>6 DEF ReadInConfig, Reads, Loading
<1>7. CASE ReadFail("main")
  BY <1>0, <1>7 DEF ReadFail, Reads, Loading
<1>8. CASE ReadFail("watcher")
  BY <1>0, <1>8 DEF ReadFail, Reads, Loading
<1>9. CASE Store("main")
  BY <1>0, <1>9 DEF Store
<1>10. CASE Store("watcher")
  BY <1>0, <1>10 DEF Store
<1>11. CASE Unmarshal("main")
  BY <1>0, <1>11 DEF Unmarshal
<1>12. CASE Unmarshal("watcher")
  BY <1>0, <1>12 DEF Unmarshal
<1>13. CASE Decode("main")
  <2> SUFFICES ASSUME ~unsettled, ~event, ~editing, ~broken, pc["watcher"] /= "off"
               PROVE  Fresh'
    BY <1>0, <1>13 DEF Decode, Decoded
  <2>1. /\ held["main"] = file /\ file' = file /\ held' = held
        /\ \A i \in 1..3 : i < next["main"] => FileInConf(Fields[i])
        /\ next["main"] \in 1..3
    BY <1>0, <1>13 DEF Decode, MainSteps
  <2>2. \A i \in 1..3 : i <= next["main"] => FileInConf(Fields[i])'
    <3> SUFFICES ASSUME NEW i \in 1..3, i <= next["main"]
                 PROVE  file[Fields[i]] \in {Missing, Mistyped, Conf'[Fields[i]]}
      BY <2>1
    <3>1. Fields[i] \in Names
      BY FieldsNames
    <3>2. Conf'[Fields[i]] = IF i = next["main"] THEN Merged(Fields[i], file) ELSE Conf[Fields[i]]
      BY <1>13, <2>1, <3>1, DecodeConf, FieldsNames
    <3>3. CASE i < next["main"]
      BY <2>1, <3>2, <3>3
    <3>4. CASE i = next["main"]
      BY <3>2, <3>4 DEF Merged
    <3> QED
      BY <2>1, <3>3, <3>4
  <2>3. CASE next["main"] < 3
    <3>1. pc' = pc /\ next'["main"] = next["main"] + 1
      BY <1>0, <1>13, <2>3 DEF Decode
    <3> QED
      BY <1>13, <2>1, <2>2, <3>1 DEF Decode
  <2>4. CASE next["main"] = 3
    <3>1. \A f \in Names : FileInConf(f)'
      <4> SUFFICES ASSUME NEW f \in Names PROVE FileInConf(f)'
        OBVIOUS
      <4>1. PICK i \in 1..3 : Fields[i] = f
        BY FieldsNames
      <4> QED
        BY <2>2, <2>4, <4>1
    <3>2. pc["watcher"] = "idle" /\ pc'["watcher"] = "idle" /\ pc'["main"] \in {"logger", "print", "reported"}
      BY <1>0, <1>13, <2>4 DEF Decode, Decoded
    <3> QED
      BY <1>0, <1>13, <2>4, <3>1, <3>2 DEF Decode, Decoded
  <2> QED
    BY <2>1, <2>3, <2>4
<1>14. CASE Decode("watcher")
  <2> SUFFICES ASSUME ~unsettled, ~event, ~editing, ~broken, pc["watcher"] /= "off"
               PROVE  Fresh'
    BY <1>0, <1>14 DEF Decode, Decoded
  <2>1. /\ held["watcher"] = file /\ file' = file /\ held' = held
        /\ \A i \in 1..3 : i < next["watcher"] => FileInConf(Fields[i])
        /\ next["watcher"] \in 1..3
    BY <1>0, <1>14 DEF Decode, MainSteps
  <2>2. \A i \in 1..3 : i <= next["watcher"] => FileInConf(Fields[i])'
    <3> SUFFICES ASSUME NEW i \in 1..3, i <= next["watcher"]
                 PROVE  file[Fields[i]] \in {Missing, Mistyped, Conf'[Fields[i]]}
      BY <2>1
    <3>1. Fields[i] \in Names
      BY FieldsNames
    <3>2. Conf'[Fields[i]] = IF i = next["watcher"] THEN Merged(Fields[i], file) ELSE Conf[Fields[i]]
      BY <1>14, <2>1, <3>1, DecodeConf, FieldsNames
    <3>3. CASE i < next["watcher"]
      BY <2>1, <3>2, <3>3
    <3>4. CASE i = next["watcher"]
      BY <3>2, <3>4 DEF Merged
    <3> QED
      BY <2>1, <3>3, <3>4
  <2>3. CASE next["watcher"] < 3
    <3>1. pc' = pc /\ next'["watcher"] = next["watcher"] + 1
      BY <1>0, <1>14, <2>3 DEF Decode
    <3> QED
      BY <1>14, <2>1, <2>2, <3>1 DEF Decode
  <2>4. CASE next["watcher"] = 3
    <3>1. \A f \in Names : FileInConf(f)'
      <4> SUFFICES ASSUME NEW f \in Names PROVE FileInConf(f)'
        OBVIOUS
      <4>1. PICK i \in 1..3 : Fields[i] = f
        BY FieldsNames
      <4> QED
        BY <2>2, <2>4, <4>1
    <3>2. pc'["watcher"] = "idle" /\ pc'["main"] = pc["main"] /\ ~Loading
      BY <1>0, <1>14, <2>4 DEF Decode, Decoded
    <3> QED
      BY <1>0, <1>14, <2>4, <3>1, <3>2 DEF Decode, Decoded
  <2> QED
    BY <2>1, <2>3, <2>4
<1>15. CASE PrintHardware
  BY <1>0, <1>15 DEF PrintHardware
<1>16. CASE LoggerInit
  BY <1>0, <1>16 DEF LoggerInit
<1>17. CASE Fail
  BY <1>0, <1>17 DEF Fail
<1>18. CASE Edit
  BY <1>0, <1>18 DEF Edit
<1>19. CASE Save
  BY <1>0, <1>19 DEF Save
<1>20. CASE Restart
  BY <1>0, <1>20 DEF Restart, Started
<1>21. CASE UNCHANGED vars
  BY <1>0, <1>21 DEF vars
<1> QED
  BY <1>1, <1>2, <1>3, <1>4, <1>5, <1>6, <1>7, <1>8, <1>9, <1>10, <1>11, <1>12, <1>13, <1>14, <1>15, <1>16, <1>17, <1>18, <1>19, <1>20, <1>21 DEF Next, Threads

LEMMA InitIInv == Init => IInv
<1> SUFFICES ASSUME Init PROVE IInv
  OBVIOUS
<1> USE DEF Init, Started
<1>1. TypeOK
  <2>1. pc \in [Threads -> MainSteps \cup WatcherSteps]
    BY DEF MainSteps, WatcherSteps
  <2>2. pc["main"] \in MainSteps /\ pc["watcher"] \in WatcherSteps
    BY DEF MainSteps, WatcherSteps, Threads
  <2>3. edits \in 0..MaxEdits /\ boots \in 1..MaxBoots
    BY BoundsAssumption
  <2>4. held \in [Threads -> Contents] /\ next \in [Threads -> 1..3]
    BY EmptyIsValues
  <2> QED
    BY <2>1, <2>2, <2>3, <2>4, EmptyIsValues DEF TypeOK
<1>2. pc["main"] = "stat" /\ pc["watcher"] = "off"
  BY DEF Threads
<1>3. Alone /\ OnTheWay /\ Fresh /\ Emptied
  BY <1>2 DEF Alone, OnTheWay, Fresh, Emptied, Loading
<1> QED
  BY <1>1, <1>3 DEF IInv

LEMMA Invariant == Spec => []IInv
<1>1. IInv /\ [Next]_vars => IInv'
  BY NextTypeOK, NextAlone, NextOnTheWay, NextFresh DEF IInv
<1> QED
  BY InitIInv, <1>1, PTL DEF Spec

-----------------------------------------------------------------------------
(* The theorems.                                                             *)

\* Every variable has its type, whatever the two threads do at the same time.
THEOREM TypeCorrect == Spec => []TypeOK
<1>1. IInv => TypeOK
  BY DEF IInv
<1> QED
  BY Invariant, <1>1, PTL

\* A pointer of Conf that is nil when it is used was missing in the file Init read,
\* unless the watcher read the file before Init was done (settings.go:85-101).
THEOREM NilWasMissing == Spec => []NilOnlyIfMissing
<1>1. IInv => NilOnlyIfMissing
  BY DEF IInv, OnTheWay, FoundInConf, NilOnlyIfMissing
<1> QED
  BY Invariant, <1>1, PTL

\* With no event left to handle, a program that serves has in Conf every value of a
\* watched file that Unmarshal can take over, the error the callback drops included,
\* unless the watcher last read the file before Init was done (settings.go:87-91).
THEOREM ConfSettles == Spec => []Settled
<1>1. IInv => Settled
  <2> SUFFICES ASSUME IInv, pc["main"] = "serving", pc["watcher"] = "idle", ~event, ~unsettled
               PROVE  Follows
    BY DEF Settled
  <2>1. CASE editing \/ broken
    <3>1. \A f \in Names : file[f] = Missing
      BY <2>1 DEF IInv, Emptied, Empty
    <3> QED
      BY <3>1 DEF Follows
  <2>2. CASE ~editing /\ ~broken
    BY <2>2 DEF IInv, Fresh, FileInConf, Follows
  <2> QED
    BY <2>1, <2>2
<1> QED
  BY Invariant, <1>1, PTL

-----------------------------------------------------------------------------
(* What holds where the two threads race, too. *)

\* The hardware section has been looked at before logger.Init is called.
Looked ==
  /\ ServesWhole
  /\ pc["main"] = "logger" /\ pc["watcher"] /= "off" => Conf["hardware"] /= Missing

LEMMA NextLooked ==
  ASSUME TypeOK, Looked, [Next]_vars
  PROVE  Looked'
<1> USE DEF Looked, ServesWhole, TypeOK, Goto, disk, local, history, Threads
<1>1. CASE PrintHardware
  BY <1>1 DEF PrintHardware
<1>2. CASE LoggerInit
  BY <1>2 DEF LoggerInit
<1>3. ASSUME NEW t \in Threads, Decode(t) PROVE Looked'
  <2>1. \A f \in Names : Conf[f] /= Missing => Conf'[f] /= Missing
    BY <1>3, DecodeConf
  <2>2. Conf["log"] /= Missing => Conf'["log"] /= Missing
    BY <2>1 DEF Names
  <2>3. Conf["hardware"] /= Missing => Conf'["hardware"] /= Missing
    BY <2>1 DEF Names
  <2>4. CASE t = "main"
    <3>1. pc["main"] = "decode" /\ pc'["watcher"] = pc["watcher"]
          /\ pc'["main"] \in {"decode", "logger", "print", "reported"}
          /\ (pc'["main"] = "logger" => pc["watcher"] = "off")
      BY <1>3, <2>4 DEF Decode, Decoded
    <3> QED
      BY <3>1
  <2>5. CASE t = "watcher"
    <3>1. pc'["main"] = pc["main"] /\ pc["watcher"] /= "off"
      BY <1>3, <2>5 DEF Decode
    <3> QED
      BY <2>2, <2>3, <3>1
  <2> QED
    BY <2>4, <2>5
<1>4. ASSUME NEW t \in Threads, ReadInConfig(t) \/ ReadFail(t) \/ Store(t) \/ Unmarshal(t)
      PROVE  Looked'
  <2>1. Conf' = Conf
    BY <1>4 DEF ReadInConfig, ReadFail, Store, Unmarshal
  <2>2. CASE t = "main"
    BY <1>4, <2>1, <2>2 DEF ReadInConfig, ReadFail, Store, Unmarshal
  <2>3. CASE t = "watcher"
    BY <1>4, <2>1, <2>3 DEF ReadInConfig, ReadFail, Store, Unmarshal
  <2> QED
    BY <2>2, <2>3
<1>5. CASE Create \/ Write \/ WatchConfig \/ OnConfigChange \/ Fail
  BY <1>5 DEF Create, Write, WatchConfig, OnConfigChange, Fail
<1>6. CASE Edit \/ Save
  BY <1>6 DEF Edit, Save
<1>7. CASE Restart
  BY <1>7 DEF Restart, Started
<1>8. CASE UNCHANGED vars
  BY <1>8 DEF vars
<1> QED
  BY <1>1, <1>2, <1>3, <1>4, <1>5, <1>6, <1>7, <1>8 DEF Next

\* No pointer that start-up has looked at becomes nil afterwards, races and bad
\* edits included (settings.go:88-91, :101, logger.go:47).
THEOREM ServingNeverNil == Spec => []ServesWhole
<1>1. Init => Looked
  BY DEF Init, Started, Threads, Looked, ServesWhole
<1>2. TypeOK /\ Looked /\ [Next]_vars => Looked'
  BY NextLooked
<1>3. Looked => ServesWhole
  BY DEF Looked
<1> QED
  BY <1>1, <1>2, <1>3, TypeCorrect, PTL DEF Spec
=============================================================================
