------------------------------- MODULE Config -------------------------------
(***************************************************************************)
(* The configuration options of src/config: setting them (set.go) and      *)
(* persisting them as a JSON file (persistence.go).                        *)
(*                                                                         *)
(* Every option holds a user value (activeValue) and a default value       *)
(* (activeDefaultValue).  setConfigOption validates a value, sets it,      *)
(* signals the change and saves `userConfig`, the flat map from option     *)
(* keys to values that the package keeps beside the options (declared     *)
(* outside the sources; nothing in set.go writes it).  saveConfig writes   *)
(* MapToJSON(userConfig) to the file; loadConfig reads it back through     *)
(* JSONToMap and hands the flat map to setConfig.                          *)
(*                                                                         *)
(* A key is "/"-separated; it is modelled as the sequence of its parts,    *)
(* so that joining with "/" is \o and strings.SplitN(key, "/", 2) is       *)
(* Head/Tail (the parts contain no "/").  A Go map is a function from      *)
(* keys to values; a map held as a value of another is boxed as         *)
(* [map |-> f] (Go's interface{} holding a map[string]interface{}).       *)
(* Go ranges over a map in an unspecified order, so flatten, which         *)
(* deletes from the map it ranges over, has a set of possible results.     *)
(***************************************************************************)
EXTENDS Naturals, Sequences, Functions, TLC

CONSTANTS
  Options,    \* the registered option keys (sequences of key parts)
  OptType,    \* [Options -> {"string", "[]string", "int", "bool"}]
  Matches,    \* [Options -> SUBSET Data]: what the option's regex accepts
  Data,       \* the contents a value may have, abstracted
  GoTypes,    \* the dynamic types a value handed to the setters may have
  MaxChanges, \* bound on signalChanges calls
  Nil,        \* model value: no value set (nil)
  NoFile      \* model value: the config file does not exist

(* A leaf value: its dynamic Go type and its contents. *)
Value == [type: GoTypes, datum: Data]

ASSUME /\ OptType \in [Options -> {"string", "[]string", "int", "bool"}]
       /\ Matches \in [Options -> SUBSET Data]
       /\ {"string", "int", "bool"} \subseteq GoTypes
       /\ MaxChanges \in Nat

VARIABLES
  userConfig,  \* the flat map saveConfig persists
  active,      \* [Options -> Value \cup {Nil}]: option.activeValue
  defaults,    \* [Options -> Value \cup {Nil}]: option.activeDefaultValue
  changes,     \* signalChanges calls so far (each closes changedSignal)
  file,        \* the JSON object in the config file, or NoFile
  started      \* loadConfig has run in this process

vars == <<userConfig, active, defaults, changes, file, started>>

-----------------------------------------------------------------------------
(* Go maps *)

Put(m, k, v) == (k :> v) @@ m
Del(m, k) == Restrict(m, DOMAIN m \ {k})

IsMap(v) == "map" \in DOMAIN v

(* validateValue: the type switch, then the option's regex; bools have no *)
(* regex, and any other type is "invalid option value type".              *)
ValidateValue(o, v) ==
  CASE v.type \in {"string", "[]string", "int"} ->
         v.type = OptType[o] /\ v.datum \in Matches[o]
    [] v.type = "bool" -> OptType[o] = "bool"
    [] OTHER -> FALSE

(* expand: every key with a "/" moves into the map under its first part,  *)
(* which is created, or replaces a leaf stored there; then the new maps   *)
(* are expanded.  The values of a flat map are leaves, so the only maps    *)
(* met under a first part are those created by this loop, and the result *)
(* does not depend on the order of the range.                              *)
RECURSIVE Expand(_)
Expand(m) ==
  LET slashed == {k \in DOMAIN m : Len(k) > 1}
      heads   == {<<Head(k)>> : k \in slashed}
      Sub(h)  == [r \in {Tail(k) : k \in {s \in slashed : <<Head(s)>> = h}} |-> m[h \o r]]
  IN [k \in (DOMAIN m \ slashed) \cup heads |-> IF k \in heads THEN [map |-> Expand(Sub(k))] ELSE m[k]]

(* flatten(rootMap, subMap, subKey), as the set of its possible results:  *)
(* `todo` holds the keys of subMap the range has not reached.  The        *)
(* top-level call ranges over rootMap itself, so an entry deleted before  *)
(* it is reached is not produced.  (Entries it adds are leaves under keys  *)
(* with a "/"; producing them at the top level does nothing.)              *)
RECURSIVE Flatten(_, _, _, _)
Flatten(root, sub, subKey, todo) ==
  IF todo = {} THEN {root}
  ELSE UNION {
    LET top     == subKey = <<>>
        entry   == IF top THEN root[k] ELSE sub[k]
        Rest(r) == Flatten(r, sub, subKey, todo \ {k})
    IN CASE top /\ k \notin DOMAIN root -> Rest(root)
         [] IsMap(entry) ->
              UNION {Rest(Del(r, k)) : r \in Flatten(root, entry.map, subKey \o k, DOMAIN entry.map)}
         [] ~top  -> Rest(Put(root, subKey \o k, entry))
         [] OTHER -> Rest(root)
    : k \in todo}

(* encoding/json: a value read back from the file has the type Unmarshal  *)
(* gives it: numbers are float64 and arrays []interface{}.                 *)
JSONType(t) == CASE t = "int" -> "float64" [] t = "[]string" -> "[]interface{}" [] OTHER -> t

RECURSIVE Unmarshal(_)
Unmarshal(obj) ==
  [k \in DOMAIN obj |-> IF IsMap(obj[k]) THEN [map |-> Unmarshal(obj[k].map)]
                        ELSE [obj[k] EXCEPT !.type = JSONType(@)]]

MapToJSON(m) == Expand(m)

JSONToMap(obj) == LET o == Unmarshal(obj) IN Flatten(o, o, <<>>, DOMAIN o)

-----------------------------------------------------------------------------

(* Flat maps of values the setters accept, as userConfig may hold. *)
FlatConfigs ==
  UNION {{f \in [S -> Value] : \A o \in S : ValidateValue(o, f[o])} : S \in SUBSET Options}

(* setConfig and SetDefaultConfig: every option takes its value from the  *)
(* map, or nil when the map lacks its key.                                 *)
FromMap(m) == [o \in Options |-> IF o \in DOMAIN m THEN m[o] ELSE Nil]

Init ==
  /\ userConfig \in FlatConfigs
  /\ active = [o \in Options |-> Nil]
  /\ defaults = [o \in Options |-> Nil]
  /\ changes = 0
  /\ file = NoFile
  /\ started = FALSE

(* signalChanges: the levels are refetched, the validity flag is reset    *)
(* and changedSignal is closed and replaced.                               *)
SignalChanges == changes < MaxChanges /\ changes' = changes + 1

(* saveConfig: MapToJSON(userConfig) is written to the file. *)
SaveConfig == file' = MapToJSON(userConfig)

(* setConfigOption: a nil value clears the option, any other is set only  *)
(* if validateValue accepts it (else the error is returned and nothing    *)
(* changes); then signalChanges and saveConfig.                            *)
SetConfigOption(o, v) ==
  /\ started
  /\ IF v = Nil THEN TRUE ELSE ValidateValue(o, v)
  /\ active' = [active EXCEPT ![o] = v]
  /\ SignalChanges
  /\ SaveConfig
  /\ UNCHANGED <<userConfig, defaults, started>>

(* setDefaultConfigOption: the same on the default value. *)
SetDefaultConfigOption(o, v) ==
  /\ started
  /\ IF v = Nil THEN TRUE ELSE ValidateValue(o, v)
  /\ defaults' = [defaults EXCEPT ![o] = v]
  /\ SignalChanges
  /\ SaveConfig
  /\ UNCHANGED <<userConfig, active, started>>

(* SetDefaultConfig: all defaults from one map, no validation, no save. *)
SetDefaultConfig(m) ==
  /\ started
  /\ defaults' = FromMap(m)
  /\ SignalChanges
  /\ UNCHANGED <<userConfig, active, file, started>>

(* loadConfig, when the package starts: a missing file is an error and    *)
(* nothing is set; else JSONToMap of its contents goes to setConfig,      *)
(* which signals the change.                                               *)
LoadConfig ==
  /\ ~started
  /\ started' = TRUE
  /\ IF file = NoFile
       THEN UNCHANGED <<active, changes>>
       ELSE /\ \E m \in JSONToMap(file) : active' = FromMap(m)
            /\ SignalChanges
  /\ UNCHANGED <<userConfig, defaults, file>>

(* The process ends and starts again: the options are registered afresh, *)
(* the file stays.                                                         *)
Restart ==
  /\ started
  /\ started' = FALSE
  /\ active' = [o \in Options |-> Nil]
  /\ defaults' = [o \in Options |-> Nil]
  /\ UNCHANGED <<userConfig, changes, file>>

Next ==
  \/ \E o \in Options, v \in Value \cup {Nil} :
       SetConfigOption(o, v) \/ SetDefaultConfigOption(o, v)
  \/ \E m \in FlatConfigs : SetDefaultConfig(m)
  \/ LoadConfig
  \/ Restart

Spec == Init /\ [][Next]_vars

-----------------------------------------------------------------------------

(* What the file holds is what a later start loads: once saveConfig has   *)
(* written userConfig, loadConfig (JSONToMap, then setConfig) gives every *)
(* option the value userConfig holds for it, and nil to the others.       *)
LoadRestoresSaved ==
  [][~started /\ started' /\ file # NoFile => active' = FromMap(userConfig)]_vars

====
