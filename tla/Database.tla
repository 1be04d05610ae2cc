------------------------------ MODULE Database ------------------------------
(***************************************************************************)
(* The caching, permission-checking facade of the record database          *)
(* (database.Interface, src/database/interface.go) over one database whose *)
(* Controller owns a bbolt backend (src/database/storage/bbolt/bbolt.go),   *)
(* with the wrapper record codec of src/database/record/wrapper.go.         *)
(*                                                                         *)
(* Several goroutines ("callers") use one or more Interface values.  Every *)
(* mutating call runs in three steps, because another goroutine may run    *)
(* between them:                                                           *)
(*   Begin  : getRecord (controller Get, permission and read-only checks), *)
(*   Apply  : lock the record, Options.Apply, the call's own mutation, the *)
(*            cache update of Put/PutNew,                                   *)
(*   Commit : Controller.Put, i.e. MarshalRecord and one bbolt update tx.  *)
(* Get and Exists change no state: Get is the operator GetResult, and the *)
(* properties quantify over every Get that could run in a state.         *)
(*                                                                         *)
(* Data is abstracted to the set of attributes a record's JSON payload     *)
(* holds; time is a bounded Unix clock in seconds.                         *)
(***************************************************************************)
EXTENDS Naturals, FiniteSets

CONSTANTS
  Keys,       \* database keys of the one database
  Attrs,      \* attribute names a payload may hold
  BadAttr,    \* an attribute path the JSON accessor refuses
  Ifaces,     \* database.Interface instances
  Opts,       \* [Ifaces -> option record], see OptionsType
  Callers,    \* goroutines calling the facade
  IfaceOf,    \* [Callers -> Ifaces]: the Interface each goroutine uses
  ReadOnly,   \* Controller.ReadOnly(); BBolt.ReadOnly() is always FALSE
  MaxTime,    \* last value of the clock (Unix seconds, from 1)
  Durations,  \* expiry arguments of SetAbsoluteExpiry / SetRelativateExpiry
  NoRecord    \* model value: key absent / no record held

OptionsType ==
  [local: BOOLEAN, internal: BOOLEAN, alwaysSecret: BOOLEAN,
   alwaysCrown: BOOLEAN, absExpiry: 0..MaxTime, relExpiry: 0..MaxTime,
   cache: BOOLEAN]

ASSUME /\ Opts \in [Ifaces -> OptionsType]
       /\ IfaceOf \in [Callers -> Ifaces]
       /\ ReadOnly \in BOOLEAN
       /\ BadAttr \notin Attrs
       /\ MaxTime \in Nat \ {0}

Time == 0..(2 * MaxTime)   \* timestamps; expiries may lie past the clock

(* record.Meta: four timestamps (0 = unset) and the two permission flags. *)
Meta == [created: Time, modified: Time, expires: Time, deleted: Time,
         secret: BOOLEAN, crown: BOOLEAN]

ZeroMeta == [created |-> 0, modified |-> 0, expires |-> 0, deleted |-> 0,
             secret |-> FALSE, crown |-> FALSE]

(* An in-memory record (a *record.Wrapper with JSON format). *)
Record == [key: Keys, meta: Meta, data: SUBSET Attrs]

(* The bytes bbolt stores for a key, as written by Wrapper.MarshalRecord:  *)
(* fmt is whether the envelope carries the format byte after the meta     *)
(* block.                                                                 *)
Envelope == [meta: Meta, data: SUBSET Attrs, fmt: BOOLEAN]

Errors == {"NotFound", "PermissionDenied", "ReadOnly", "Decode", "Accessor"}

Kinds == {"Put", "PutNew", "Delete", "InsertValue",
          "MakeSecret", "MakeCrownJewel", "SetAbsoluteExpiry",
          "SetRelativateExpiry"}

KeyOps == {"Delete", "InsertValue", "MakeSecret", "MakeCrownJewel",
           "SetAbsoluteExpiry", "SetRelativateExpiry"}

VARIABLES
  store,      \* [Keys -> Envelope \cup {NoRecord}]: the bbolt bucket
  cache,      \* [Ifaces -> [Keys -> Record \cup {NoRecord}]]: gcache per Interface
  clock,      \* time.Now().Unix()
  pc,         \* [Callers -> {"idle", "apply", "commit"}]
  op,         \* [Callers -> call]: the call in progress
  rec         \* [Callers -> Record \cup {NoRecord}]: the record the call works on

vars == <<store, cache, clock, pc, op, rec>>

-----------------------------------------------------------------------------
(* record.Meta helpers (meta.go is not among the sources; these follow    *)
(* the spec, sections 3 and 4.6).                                          *)

CheckPermission(m, o) ==
  /\ o.local \/ ~m.crown
  /\ o.internal \/ ~m.secret

CheckValidity(m, now) ==
  /\ m.deleted = 0
  /\ m.expires = 0 \/ m.expires >= now

\* Meta.Update via Base.UpdateMeta: a nil meta is created as ZeroMeta first.
UpdateMeta(m, now) ==
  [m EXCEPT !.modified = now, !.created = IF @ = 0 THEN now ELSE @]

\* Meta.Reset: fresh timestamps, permission flags kept.
ResetMeta(m) == [m EXCEPT !.created = 0, !.modified = 0, !.expires = 0, !.deleted = 0]

(* Options.Apply *)
ApplyOpts(o, m, now) ==
  LET u  == UpdateMeta(m, now)
      s  == [u EXCEPT !.secret = @ \/ o.alwaysSecret, !.crown = @ \/ o.alwaysCrown]
  IN  CASE o.absExpiry > 0 -> [s EXCEPT !.expires = o.absExpiry]
        [] o.relExpiry > 0 -> [s EXCEPT !.expires = now + o.relExpiry]
        [] OTHER           -> s

-----------------------------------------------------------------------------
(* Codec: Wrapper.MarshalRecord / Wrapper.Marshal, and NewRawWrapper.     *)

\* A record with Deleted > 0 marshals to no data section at all, so the
\* envelope ends after the meta block, without a format byte.
MarshalRecord(r) ==
  [meta |-> r.meta,
   data |-> IF r.meta.deleted > 0 THEN {} ELSE r.data,
   fmt  |-> r.meta.deleted = 0]

\* NewRawWrapper fails when varint.Unpack8 finds no format byte.
NewRawWrapper(k, e) ==
  IF e.fmt THEN [err |-> "ok", rec |-> [key |-> k, meta |-> e.meta, data |-> e.data]]
           ELSE [err |-> "Decode", rec |-> NoRecord]

Fail(e) == [err |-> e, rec |-> NoRecord]

\* BBolt.Get
StorageGet(k) ==
  IF store[k] = NoRecord THEN Fail("NotFound") ELSE NewRawWrapper(k, store[k])

\* Controller.Get: storage errors pass through, invalid records are not found.
ControllerGet(k) ==
  LET g == StorageGet(k) IN
  IF g.err = "ok" /\ ~CheckValidity(g.rec.meta, clock) THEN Fail("NotFound") ELSE g

(* Interface.getRecord *)
getRecord(o, k, check, mustBeWriteable) ==
  LET g == ControllerGet(k) IN
  CASE mustBeWriteable /\ ReadOnly                          -> Fail("ReadOnly")
    [] g.err # "ok"                                         -> g
    [] check /\ ~CheckPermission(g.rec.meta, o)             -> Fail("PermissionDenied")
    [] OTHER                                                -> g

(* Interface.checkCache *)
checkCache(i, k) == IF Opts[i].cache THEN cache[i][k] ELSE NoRecord

(* Interface.updateCache *)
updateCache(i, k, r) ==
  cache' = IF Opts[i].cache THEN [cache EXCEPT ![i][k] = r] ELSE cache

Live(e) == e # NoRecord /\ e.fmt /\ CheckValidity(e.meta, clock)

-----------------------------------------------------------------------------

Idle == [kind |-> "none", key |-> NoRecord, arg |-> NoRecord]

Init ==
  /\ store = [k \in Keys |-> NoRecord]
  /\ cache = [i \in Ifaces |-> [k \in Keys |-> NoRecord]]
  /\ clock = 1
  /\ pc = [c \in Callers |-> "idle"]
  /\ op = [c \in Callers |-> Idle]
  /\ rec = [c \in Callers |-> NoRecord]

(* A call returns: the goroutine forgets the call and its record. *)
Return(c) ==
  /\ pc' = [pc EXCEPT ![c] = "idle"]
  /\ op' = [op EXCEPT ![c] = Idle]
  /\ rec' = [rec EXCEPT ![c] = NoRecord]

(* Interface.Get's result: a cache hit only re-checks permission. *)
GetResult(c, k) ==
  LET i   == IfaceOf[c]
      hit == checkCache(i, k)
  IN IF hit # NoRecord
       THEN IF CheckPermission(hit.meta, Opts[i]) THEN [err |-> "ok", rec |-> hit]
                                                  ELSE Fail("PermissionDenied")
       ELSE getRecord(Opts[i], k, TRUE, FALSE)

(* The records a goroutine may pass to Put or PutNew: a new wrapper (as    *)
(* the API's handlePut builds it, meta nil) or a record it loaded with Get *)
(* from the store as it is now, with any payload.                          *)
Inputs(c) ==
  {[key |-> k, meta |-> ZeroMeta, data |-> d] : k \in Keys, d \in SUBSET Attrs}
  \cup {[GetResult(c, k).rec EXCEPT !.data = d] :
          k \in {x \in Keys : GetResult(c, x).err = "ok"}, d \in SUBSET Attrs}

Args(kind) ==
  CASE kind = "InsertValue"                                 -> Attrs \cup {BadAttr}
    [] kind \in {"SetAbsoluteExpiry", "SetRelativateExpiry"} -> Durations
    [] OTHER                                                -> {NoRecord}

(* Put and PutNew: getRecord on the record's own key; ErrNotFound is fine. *)
(* A call that getRecord fails returns its error and changes nothing, so  *)
(* only the calls that go on are steps of the model.                      *)
BeginPut(c, kind, r) ==
  LET g == getRecord(Opts[IfaceOf[c]], r.key, TRUE, TRUE) IN
  /\ pc[c] = "idle"
  /\ g.err \in {"ok", "NotFound"}
  /\ pc' = [pc EXCEPT ![c] = "apply"]
  /\ rec' = [rec EXCEPT ![c] = r]
  /\ op' = [op EXCEPT ![c] = [kind |-> kind, key |-> r.key, arg |-> NoRecord]]
  /\ UNCHANGED <<store, cache, clock>>

(* The calls that load the record by key first: every error returns. *)
BeginKeyOp(c, kind, k, a) ==
  LET g == getRecord(Opts[IfaceOf[c]], k, TRUE, TRUE) IN
  /\ pc[c] = "idle"
  /\ g.err = "ok"
  /\ pc' = [pc EXCEPT ![c] = "apply"]
  /\ rec' = [rec EXCEPT ![c] = g.rec]
  /\ op' = [op EXCEPT ![c] = [kind |-> kind, key |-> k, arg |-> a]]
  /\ UNCHANGED <<store, cache, clock>>

(* Mutant of Mutate: Delete marks the record deleted without calling     *)
(* Options.Apply first.                                                   *)
MutateDeleteNoApply(kind, o, r, a) ==
  LET applied(m) == ApplyOpts(o, m, clock) IN
  CASE kind = "Put"                 -> [r EXCEPT !.meta = applied(@)]
    [] kind = "PutNew"              -> [r EXCEPT !.meta = applied(ResetMeta(@))]
    [] kind = "InsertValue"         -> [r EXCEPT !.meta = applied(@), !.data = @ \cup {a}]
    [] kind = "MakeSecret"          -> [r EXCEPT !.meta = [applied(@) EXCEPT !.secret = TRUE]]
    [] kind = "MakeCrownJewel"      -> [r EXCEPT !.meta = [applied(@) EXCEPT !.crown = TRUE]]
    [] kind = "SetAbsoluteExpiry"   -> [r EXCEPT !.meta = [applied(@) EXCEPT !.expires = a]]
    [] kind = "SetRelativateExpiry" -> [r EXCEPT !.meta = [applied(@) EXCEPT !.expires = clock + a]]
    [] kind = "Delete"              -> [r EXCEPT !.meta = [@ EXCEPT !.deleted = clock]]

(* The body of each call after getRecord, up to db.Put: record lock,       *)
(* Options.Apply and the call's own change to the meta or payload.        *)
Mutate(kind, o, r, a) ==
  LET applied(m) == ApplyOpts(o, m, clock) IN
  CASE kind = "Put"                 -> [r EXCEPT !.meta = applied(@)]
    [] kind = "PutNew"              -> [r EXCEPT !.meta = applied(ResetMeta(@))]
    [] kind = "InsertValue"         -> [r EXCEPT !.meta = applied(@), !.data = @ \cup {a}]
    [] kind = "MakeSecret"          -> [r EXCEPT !.meta = [applied(@) EXCEPT !.secret = TRUE]]
    [] kind = "MakeCrownJewel"      -> [r EXCEPT !.meta = [applied(@) EXCEPT !.crown = TRUE]]
    [] kind = "SetAbsoluteExpiry"   -> [r EXCEPT !.meta = [applied(@) EXCEPT !.expires = a]]
    [] kind = "SetRelativateExpiry" -> [r EXCEPT !.meta = [applied(@) EXCEPT !.expires = clock + a]]
    [] kind = "Delete"              -> [r EXCEPT !.meta = [applied(@) EXCEPT !.deleted = clock]]

(* Mutant of Apply: InsertValue ignores the error of acc.Set. *)
ApplyIgnoreSetError(c) ==
  LET i == IfaceOf[c]
      k == op[c].key
      r == Mutate(op[c].kind, Opts[i], rec[c], op[c].arg)
  IN /\ pc[c] = "apply"
     /\ pc' = [pc EXCEPT ![c] = "commit"]
     /\ rec' = [rec EXCEPT ![c] = r]
     /\ IF op[c].kind \in {"Put", "PutNew"} THEN updateCache(i, k, r)
                                             ELSE UNCHANGED cache
     /\ UNCHANGED <<op, store, clock>>

Apply(c) ==
  LET i == IfaceOf[c]
      k == op[c].key
      r == Mutate(op[c].kind, Opts[i], rec[c], op[c].arg)
  IN /\ pc[c] = "apply"
     /\ IF op[c].kind = "InsertValue" /\ op[c].arg = BadAttr
          \* acc.Set failed: the call returns before Apply and db.Put
          THEN /\ Return(c)
               /\ UNCHANGED cache
          ELSE /\ pc' = [pc EXCEPT ![c] = "commit"]
               /\ rec' = [rec EXCEPT ![c] = r]
               /\ IF op[c].kind \in {"Put", "PutNew"} THEN updateCache(i, k, r)
                                                       ELSE UNCHANGED cache
               /\ UNCHANGED op
     /\ UNCHANGED <<store, clock>>

(* db.Put: Controller.Put and BBolt.Put, one update transaction. *)
Commit(c) ==
  LET k == op[c].key IN
  /\ pc[c] = "commit"
  /\ store' = [store EXCEPT ![k] = MarshalRecord(rec[c])]
  /\ Return(c)
  /\ UNCHANGED <<cache, clock>>

Tick ==
  /\ clock < MaxTime
  /\ clock' = clock + 1
  /\ UNCHANGED <<store, cache, pc, op, rec>>

Next ==
  \/ \E c \in Callers :
       \/ \E kind \in {"Put", "PutNew"}, r \in Inputs(c) : BeginPut(c, kind, r)
       \/ \E kind \in KeyOps, k \in Keys : \E a \in Args(kind) : BeginKeyOp(c, kind, k, a)
       \/ Apply(c)
       \/ Commit(c)
  \/ Tick

Spec == Init /\ [][Next]_vars

-----------------------------------------------------------------------------

TypeOK ==
  /\ store \in [Keys -> Envelope \cup {NoRecord}]
  /\ cache \in [Ifaces -> [Keys -> Record \cup {NoRecord}]]
  /\ clock \in 1..MaxTime
  /\ pc \in [Callers -> {"idle", "apply", "commit"}]
  /\ rec \in [Callers -> Record \cup {NoRecord}]
  /\ \A c \in Callers : op[c].kind \in Kinds \cup {"none"}

(* Every write an Interface commits carries the flags its Options force   *)
(* (Options.Apply is called on every mutating path of interface.go, after *)
(* PutNew's Meta.Reset), whatever record the write started from.          *)
PolicyOnEveryWrite ==
  [][\A c \in Callers :
       Commit(c) =>
         /\ Opts[IfaceOf[c]].alwaysSecret => rec[c].meta.secret
         /\ Opts[IfaceOf[c]].alwaysCrown => rec[c].meta.crown]_vars

(* Spec 8, "permission monotonicity" and scenario 3: a record marked      *)
(* secret (crown jewel) is never returned to a non-internal (non-local)   *)
(* caller, regardless of cache state.  Checked against the stored record. *)
PermissionRegardlessOfCache ==
  \A c \in Callers, k \in Keys :
    GetResult(c, k).err = "ok" /\ store[k] # NoRecord
      => CheckPermission(store[k].meta, Opts[IfaceOf[c]])

(* Spec 8, scenario 2: once a Delete of a key has committed (the stored   *)
(* record carries Deleted > 0), a Get of that key fails with NotFound.    *)
GetAfterDeleteNotFound ==
  \A c \in Callers, k \in Keys :
    store[k] # NoRecord /\ store[k].meta.deleted > 0
      => GetResult(c, k).err = "NotFound"

(* getRecord's permission check in Put and the mutating calls is meant to *)
(* keep an Interface from overwriting a record it may not access: no      *)
(* commit by an Interface replaces a live record that it is not permitted *)
(* to read.                                                               *)
NoUnpermittedOverwrite ==
  [][\A c \in Callers :
       Commit(c) /\ Live(store[op[c].key])
         => CheckPermission(store[op[c].key].meta, Opts[IfaceOf[c]])]_vars

====
