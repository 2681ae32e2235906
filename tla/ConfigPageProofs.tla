--------------------------- MODULE ConfigPageProofs ---------------------------
(***************************************************************************)
(* Proofs about ConfigPage: the secret of the last rotation is accepted,    *)
(* no secret is refused before its time, secrets do not pile up, a restart *)
(* keeps the configuration, the pages say what was true and send what was  *)
(* edited, for any number of tabs, calls, crashes and lost connections.    *)
(*                                                                         *)
(* The invariant Inv relates what a call has read to what is still true    *)
(* when it writes.  A step of one kind of call leaves what the other kind  *)
(* has read alone: SecretsKept and ConfigKept say so once for all steps.   *)
(* ServerInv says what the calls and the rows hold, PagesInv what every    *)
(* page shows and which call it waits for.                                 *)
(***************************************************************************)
EXTENDS ConfigPage, FiniteSetTheorems, TLAPS

-------------------------------------------------------------------------------
(* The calls in flight.                                                    *)

(* A call has the fields of its kind, or those of a call that is over. *)
IsOver(c) ==
    /\ c = [kind |-> c.kind, id |-> c.id, tab |-> c.tab, at |-> c.at]
    /\ c.kind \in {"save", "rotate"} /\ c.at \in {"ok", "failed"}

IsSave(c) ==
    /\ c = [kind |-> "save", id |-> c.id, tab |-> c.tab, at |-> c.at,
            payload |-> c.payload, base |-> c.base, allowed |-> c.allowed]
    /\ c.at \in {"sent", "read", "truncated", "written"}

IsRotation(c) ==
    /\ c = [kind |-> "rotate", id |-> c.id, tab |-> c.tab, at |-> c.at,
            gateway |-> c.gateway, begun |-> c.begun, first |-> c.first,
            found |-> c.found, key |-> c.key, current |-> c.current]
    /\ c.at \in {"sent", "counted", "found"}

WellFormed(c) == IsOver(c) \/ IsSave(c) \/ IsRotation(c)

(* Calls are numbered as they are sent. *)
CallsOK ==
    /\ posts \in Nat
    /\ \A c \in calls : WellFormed(c) /\ c.id \in 1..posts
    /\ \A c, d \in calls : c.id = d.id => c = d

(* What the steps of a call do to its record. *)
LEMMA EndedWellFormed ==
    ASSUME NEW c, WellFormed(c), NEW at \in {"ok", "failed"}
    PROVE  WellFormed(Ended(c, at)) /\ Ended(c, at).id = c.id /\ Ended(c, at).at = at
           /\ Ended(c, at).kind = c.kind
BY DEF WellFormed, IsOver, IsSave, IsRotation, Ended

(* A call without a tab is otherwise the call it was. *)
LEMMA AbandonedWellFormed ==
    ASSUME NEW c, WellFormed(c), NEW tab
    PROVE  LET d == [c EXCEPT !.tab = tab]
           IN  /\ WellFormed(d) /\ d.id = c.id /\ d.at = c.at /\ d.kind = c.kind
               /\ IsRotation(c) => /\ IsRotation(d) /\ d.first = c.first /\ d.found = c.found
                                   /\ d.key = c.key /\ d.current = c.current
               /\ IsSave(c) => IsSave(d) /\ d.payload = c.payload /\ d.base = c.base
BY DEF WellFormed, IsOver, IsSave, IsRotation

(* A save at its next stage keeps its payload and what it has read. *)
LEMMA MovedSave ==
    ASSUME NEW c, IsSave(c), NEW at \in {"read", "truncated", "written"}
    PROVE  LET d == [c EXCEPT !.at = at]
           IN  IsSave(d) /\ d.id = c.id /\ d.at = at /\ d.payload = c.payload /\ d.base = c.base
BY DEF IsSave

(* A save that has read .env keeps its payload and holds what it read. *)
LEMMA ReadSave ==
    ASSUME NEW c, IsSave(c), NEW f
    PROVE  LET d == Reading(c, f)
           IN  /\ IsSave(d) /\ d.id = c.id /\ d.at = "read" /\ d.tab = c.tab
               /\ d.payload = c.payload /\ d.base = f /\ d.allowed = c.allowed
<1> DEFINE d == Reading(c, f)
<1>1. /\ DOMAIN c = {"kind", "id", "tab", "at", "payload", "base", "allowed"}
      /\ d = [x \in DOMAIN c |->
               IF x = "base" THEN f ELSE IF x = "at" THEN "read" ELSE c[x]]
  BY DEF IsSave, Reading
<1> HIDE DEF d
<1>2. /\ d.kind = "save" /\ d.id = c.id /\ d.tab = c.tab
      /\ d.at = "read" /\ d.payload = c.payload /\ d.base = f
      /\ d.allowed = c.allowed
  BY <1>1 DEF IsSave
<1>3. d = [kind |-> "save", id |-> c.id, tab |-> c.tab, at |-> "read",
           payload |-> c.payload, base |-> f, allowed |-> c.allowed]
  BY <1>1, <1>2
<1> QED BY <1>2, <1>3 DEF IsSave, d

(* A rotation that has counted knows the key, the secret and whether a row is active. *)
LEMMA CountedRotation ==
    ASSUME NEW c, IsRotation(c)
    PROVE  /\ IsRotation(Counted(c)) /\ Counted(c).id = c.id /\ Counted(c).at = "counted"
           /\ Counted(c).first = (ActiveRows = {})
           /\ Counted(c).key = cfg["SECRET_ENCRYPTION_KEY"]
           /\ Counted(c).current = cfg["WEBHOOK_SECRET"]
<1> DEFINE d == Counted(c)
<1>1. /\ DOMAIN c = {"kind", "id", "tab", "at", "gateway", "begun", "first", "found",
                    "key", "current"}
      /\ d = [x \in DOMAIN c |->
               IF x = "current" THEN cfg["WEBHOOK_SECRET"] ELSE
               IF x = "key" THEN cfg["SECRET_ENCRYPTION_KEY"] ELSE
               IF x = "first" THEN (ActiveRows = {}) ELSE
               IF x = "begun" THEN begins + 1 ELSE IF x = "at" THEN "counted" ELSE
               c[x]]
  BY DEF IsRotation, Counted
<1> HIDE DEF d
<1>2. /\ d.kind = "rotate" /\ d.id = c.id /\ d.tab = c.tab
      /\ d.at = "counted" /\ d.gateway = c.gateway /\ d.begun = begins + 1
      /\ d.first = (ActiveRows = {}) /\ d.found = c.found
      /\ d.key = cfg["SECRET_ENCRYPTION_KEY"]
      /\ d.current = cfg["WEBHOOK_SECRET"]
  BY <1>1 DEF IsRotation
<1>3. d = [kind |-> "rotate", id |-> c.id, tab |-> c.tab, at |-> "counted",
           gateway |-> c.gateway, begun |-> begins + 1, first |-> (ActiveRows = {}),
           found |-> c.found, key |-> cfg["SECRET_ENCRYPTION_KEY"],
           current |-> cfg["WEBHOOK_SECRET"]]
  BY <1>1, <1>2
<1> QED BY <1>2, <1>3 DEF IsRotation, d

(* A rotation that has found the open rows keeps what it counted. *)
LEMMA FoundRotation ==
    ASSUME NEW c, IsRotation(c)
    PROVE  /\ IsRotation(Found(c)) /\ Found(c).id = c.id /\ Found(c).at = "found"
           /\ Found(c).found = {r \in rows : r.until = 0} /\ Found(c).first = c.first
           /\ Found(c).key = c.key /\ Found(c).current = c.current
<1> DEFINE d == Found(c)
<1>1. /\ DOMAIN c = {"kind", "id", "tab", "at", "gateway", "begun", "first", "found",
                    "key", "current"}
      /\ d = [x \in DOMAIN c |->
               IF x = "found" THEN {r \in rows : r.until = 0} ELSE
               IF x = "at" THEN "found" ELSE c[x]]
  BY DEF IsRotation, Found
<1> HIDE DEF d
<1>2. /\ d.kind = "rotate" /\ d.id = c.id /\ d.tab = c.tab
      /\ d.at = "found" /\ d.gateway = c.gateway /\ d.begun = c.begun
      /\ d.first = c.first /\ d.found = {r \in rows : r.until = 0} /\ d.key = c.key
      /\ d.current = c.current
  BY <1>1 DEF IsRotation
<1>3. d = [kind |-> "rotate", id |-> c.id, tab |-> c.tab, at |-> "found",
           gateway |-> c.gateway, begun |-> c.begun, first |-> c.first,
           found |-> {r \in rows : r.until = 0}, key |-> c.key, current |-> c.current]
  BY <1>1, <1>2
<1> QED BY <1>2, <1>3 DEF IsRotation, d

(* One call is replaced by its next stage. *)
LEMMA MoveKeepsCalls ==
    ASSUME CallsOK, NEW c \in calls, NEW d, Move(c, d), UNCHANGED posts,
           WellFormed(d), d.id = c.id
    PROVE  CallsOK'
BY DEF CallsOK, Move, InFlight

(* One call is added. *)
LEMMA SendKeepsCalls ==
    ASSUME CallsOK, NEW d, calls' = calls \cup {d}, posts' = posts + 1,
           WellFormed(d), d.id = posts + 1
    PROVE  CallsOK'
BY DEF CallsOK

(* A rotation that moves replaces itself among those under way. *)
LEMMA Moved ==
    ASSUME NEW c, NEW d, Move(c, d), IsRotation(c), IsRotation(d), d.at # "sent"
    PROVE  Rotations' = (Rotations \ {c}) \cup {d}
<1>1. d.kind = "rotate" /\ d.at \in {"counted", "found"}
  BY DEF IsRotation
<1>2. d \in Rotations'
  BY <1>1 DEF Move, InFlight, Rotations
<1>3. \A e : e # d => (e \in Rotations' <=> e \in Rotations \ {c})
  BY DEF Move, InFlight, Rotations
<1> QED BY <1>2, <1>3

(* The steps that touch neither a call nor the server. *)
Quiet == UNCHANGED <<server, calls, posts>>

(* Reads, answers and forms of a page are such steps. *)
LEMMA QuietSteps ==
    ASSUME NEW t,
           \/ ReadConfig(t) \/ ReadStatus(t) \/ LoadDone(t) \/ LoadFailed(t)
           \/ Edit(t) \/ CancelEdit(t) \/ ConfigRefreshed(t) \/ RefreshFailed(t)
           \/ OpenForm(t) \/ CancelForm(t) \/ StatusRefreshed(t) \/ StatusFailed(t)
    PROVE  Quiet
BY DEF Quiet, server, ReadConfig, ReadStatus, LoadDone, LoadFailed, Edit, CancelEdit,
       ConfigRefreshed, RefreshFailed, OpenForm, CancelForm, StatusRefreshed, StatusFailed

-------------------------------------------------------------------------------
(* The invariant.                                                          *)

OpenRows == {r \in rows : r.until = 0}

(* A window is named after the rotation that opened it, and there is always a row
   without one once there is a row. *)
RowsOK ==
    /\ \A r \in rows : /\ r = [secret |-> r.secret, key |-> r.key, begun |-> r.begun,
                               until |-> r.until]
                       /\ r.key \in ValidKeys /\ r.until \in 0..posts
    /\ over \subseteq 0..posts
    /\ rows # {} => OpenRows # {}

(* A rotation under way has not opened its window yet, and one that is not the
   first will find a row. *)
RotationsOK ==
    /\ \A c \in calls : IsRotation(c) => c.id \notin over /\ \A r \in rows : r.until # c.id
    /\ \A c \in Rotations : c.key \in ValidKeys /\ (~c.first => rows # {})

(* Without an overlap there is one rotation at a time: what it has read still holds. *)
OneRotation ==
    "rotate" \notin mishaps =>
        /\ \A c, d \in Rotations : c.id = d.id
        /\ \A c \in Rotations : /\ c.first => OpenRows = {}
                                /\ c.at = "found" => ~c.first /\ c.found = OpenRows
        /\ \A r, q \in OpenRows : r = q

(* The lines a start needs. *)
Needed == Required \ DOMAIN Environ

(* A start on the lines f brings back config but for the variables ks and what
   SavedSurvivesRestart excepts, and is possible; ms are the mishaps so far. *)
Restored(f, ks, config, ms) ==
    /\ \A k \in Keys \ ks :
         \/ Loaded(f)[k] = config[k]
         \/ k \in DOMAIN Environ
         \/ k \in DOMAIN f /\ ~Plain(k, f[k])
         \/ "lost" \in ms /\ k \notin DOMAIN f
    /\ ("lost" \in ms \/ Needed \subseteq DOMAIN f)

(* Without an overlap there is one save at a time: what it has read, and .env until it
   writes, restore the memory, and so does .env when no save is under way. *)
OneSave ==
    /\ ~up => Saves = {}
    /\ up => unapplied = {}
    /\ "save" \notin mishaps =>
        /\ \A c, d \in Saves : c.id = d.id
        /\ \A c \in Saves : /\ Restored(c.base, {}, cfg, mishaps)
                            /\ c.at = "read" => Restored(env, {}, cfg, mishaps)
                            /\ c.at = "truncated" => env = Nothing
                            /\ c.at = "written" => env = Merged(c)
        /\ Saves = {} => Restored(env, unapplied, cfg, mishaps)

(* The secret of the last rotation is in an open row. *)
NewestKept ==
    newest.key \in ValidKeys =>
        \E r \in OpenRows : r.secret = newest.secret /\ r.key = newest.key

Inv == CallsOK /\ RowsOK /\ RotationsOK /\ OneRotation /\ OneSave /\ NewestKept

(* The text of a variable comes from the environment or else from its line. *)
LEMMA TextIs ==
    ASSUME NEW f, NEW k
    PROVE  /\ k \in DOMAIN Environ => Text(f, k) = Environ[k]
           /\ k \notin DOMAIN Environ /\ k \in DOMAIN f => Text(f, k) = Stripped[f[k]]
           /\ k \notin DOMAIN Environ /\ k \notin DOMAIN f => Text(f, k) = Blank
BY DEF Text, Environment, Overlay

(* More mishaps except more. *)
LEMMA RestoredOn ==
    ASSUME NEW f, NEW ks, NEW config, NEW ms, NEW ns, Restored(f, ks, config, ms),
           "lost" \in ms => "lost" \in ns
    PROVE  Restored(f, ks, config, ns)
BY DEF Restored

(* Of an empty file nothing is expected when lines were lost. *)
LEMMA NothingRestored ==
    ASSUME NEW ks, NEW config, NEW ms, "lost" \in ms
    PROVE  Restored(Nothing, ks, config, ms)
BY DEF Restored, Nothing

(* What was loaded is loaded again. *)
LEMMA LoadedRestored ==
    ASSUME NEW f, NEW ks, NEW ms, "lost" \in ms \/ Needed \subseteq DOMAIN f
    PROVE  Restored(f, ks, Loaded(f), ms)
BY DEF Restored

(* Lines that were merged restore what those before did, but for the variables merged. *)
LEMMA MergedRestored ==
    ASSUME NEW f, NEW g, NEW config, NEW ms, Restored(f, {}, config, ms)
    PROVE  Restored(Overlay(g, f), DOMAIN g, config, ms)
<1> DEFINE m == Overlay(g, f)
<1>1. /\ DOMAIN f \subseteq DOMAIN m
      /\ \A k : k \notin DOMAIN g =>
                  (k \in DOMAIN m <=> k \in DOMAIN f) /\ (k \in DOMAIN f => m[k] = f[k])
  BY DEF Overlay
<1> HIDE DEF m
<1>2. ASSUME NEW k \in Keys \ DOMAIN g
      PROVE  \/ Loaded(m)[k] = config[k]
             \/ k \in DOMAIN Environ
             \/ k \in DOMAIN m /\ ~Plain(k, m[k])
             \/ "lost" \in ms /\ k \notin DOMAIN m
  <2>1. Text(m, k) = Text(f, k)
    BY <1>1, TextIs
  <2>2. Loaded(m)[k] = Loaded(f)[k]
    BY <2>1 DEF Loaded
  <2> QED BY <1>1, <2>2 DEF Restored
<1>3. "lost" \in ms \/ Needed \subseteq DOMAIN m
  BY <1>1 DEF Restored
<1>4. Restored(m, DOMAIN g, config, ms)
  BY <1>2, <1>3 DEF Restored
<1> QED BY <1>4 DEF m

(* Once they were applied, too, they restore the memory again. *)
LEMMA AppliedRestored ==
    ASSUME NEW f, NEW g, NEW ms, Restored(f, {}, cfg, ms)
    PROVE  Restored(Overlay(g, f), {}, Applied(g), ms)
<1> DEFINE m == Overlay(g, f)
<1>1. Restored(m, DOMAIN g, cfg, ms)
  BY MergedRestored
<1>2. \A k \in DOMAIN g : k \in DOMAIN m /\ m[k] = g[k]
  BY DEF Overlay
<1> HIDE DEF m
<1>3. ASSUME NEW k \in Keys, k \in DOMAIN g, k \notin DOMAIN Environ, Plain(k, m[k])
      PROVE  Loaded(m)[k] = Applied(g)[k]
  <2>1. Text(m, k) = g[k]
    BY <1>2, <1>3, TextIs DEF Plain
  <2>2. CASE k \in NumberKeys
    BY <1>2, <1>3, <2>1, <2>2 DEF Plain, Loaded, Applied
  <2>3. CASE k \notin NumberKeys
    BY <1>2, <1>3, <2>1, <2>3 DEF Plain, Loaded, Applied
  <2> QED BY <2>2, <2>3
<1>4. \A k \in Keys \ DOMAIN g : Applied(g)[k] = cfg[k]
  BY DEF Applied
<1>5. Restored(m, {}, Applied(g), ms)
  BY <1>1, <1>2, <1>3, <1>4 DEF Restored
<1> QED BY <1>5 DEF m

(* The invariant holds at the start. *)
LEMMA InitInv == Init => Inv
<1> SUFFICES ASSUME Init PROVE Inv
  OBVIOUS
<1>1. CallsOK /\ RowsOK /\ RotationsOK /\ OneRotation /\ NewestKept
  BY ConstantsOK DEF Init, CallsOK, RowsOK, RotationsOK, OneRotation, NewestKept,
       OpenRows, Rotations, Blank
<1>2. Needed \subseteq DOMAIN FirstLines
  BY ConstantsOK DEF Needed
<1>3. Restored(env, {}, cfg, mishaps)
  BY <1>2, LoadedRestored DEF Init
<1>4. OneSave
  BY <1>3 DEF Init, OneSave, Saves
<1> QED BY <1>1, <1>4 DEF Inv

-------------------------------------------------------------------------------
(* Steps that leave the secrets alone.                                     *)

(* Every rotation under way was under way before, as far as the invariant can tell,
   or has just been sent. *)
KeepsRotations ==
    /\ UNCHANGED <<rows, over, newest>>
    /\ mishaps \subseteq mishaps' /\ ("rotate" \in mishaps' => "rotate" \in mishaps)
    /\ posts \in Nat /\ posts' \in Nat /\ posts <= posts'
    /\ \A d \in calls' : IsRotation(d) =>
          \/ d.at = "sent" /\ d.id = posts + 1
          \/ \E c \in calls : /\ IsRotation(c) /\ c.id = d.id /\ c.at = d.at
                              /\ c.first = d.first /\ c.found = d.found /\ c.key = d.key

(* Such a step keeps the part of the invariant about secrets. *)
LEMMA SecretsKept ==
    ASSUME CallsOK, CallsOK', RowsOK, RotationsOK, OneRotation, NewestKept, KeepsRotations
    PROVE  RowsOK' /\ RotationsOK' /\ OneRotation' /\ NewestKept'
<1>1. RowsOK' /\ NewestKept' /\ OpenRows' = OpenRows
  BY DEF RowsOK, NewestKept, OpenRows, KeepsRotations
<1>2. \A d \in Rotations' :
        \E c \in Rotations : /\ IsRotation(c) /\ c.id = d.id /\ c.at = d.at
                             /\ c.first = d.first /\ c.found = d.found /\ c.key = d.key
  <2>1. \A d \in Rotations' : IsRotation(d) /\ d \in calls' /\ d.at # "sent"
    BY DEF CallsOK, WellFormed, IsOver, IsSave, IsRotation, Rotations
  <2> QED BY <2>1 DEF KeepsRotations, Rotations, IsRotation
<1>3. RotationsOK'
  <2>1. ASSUME NEW d \in calls', IsRotation(d)
        PROVE  d.id \notin over' /\ \A r \in rows' : r.until # d.id
    BY <2>1 DEF KeepsRotations, RotationsOK, RowsOK
  <2> QED BY <1>2, <2>1 DEF RotationsOK, KeepsRotations
<1>4. OneRotation'
  BY <1>1, <1>2 DEF OneRotation, KeepsRotations
<1> QED BY <1>1, <1>3, <1>4

(* A call that moves from c to d is no rotation, or one that stays where it is. *)
LEMMA MoveKeepsRotations ==
    ASSUME CallsOK, NEW c \in calls, NEW d, Move(c, d), UNCHANGED <<posts, rows, over, newest>>,
           mishaps \subseteq mishaps', "rotate" \in mishaps' => "rotate" \in mishaps,
           IsRotation(d) => /\ IsRotation(c) /\ c.id = d.id /\ c.at = d.at
                            /\ c.first = d.first /\ c.found = d.found /\ c.key = d.key
    PROVE  KeepsRotations
BY DEF KeepsRotations, CallsOK, Move, InFlight

-------------------------------------------------------------------------------
(* Steps that leave the configuration alone.                               *)

(* The saves that have begun are those that had begun before. *)
KeepsSaves ==
    /\ UNCHANGED <<up, cfg, env, unapplied>>
    /\ mishaps \subseteq mishaps'
    /\ "save" \in mishaps' => "save" \in mishaps
    /\ \A d \in calls' : IsSave(d) /\ d.at # "sent" =>
          \E c \in calls : /\ IsSave(c) /\ c.id = d.id /\ c.at = d.at
                           /\ c.payload = d.payload /\ c.base = d.base
    /\ \A c \in calls : IsSave(c) /\ c.at # "sent" =>
          \E d \in calls' : IsSave(d) /\ d.at # "sent"

(* Such a step keeps the part of the invariant about the configuration. *)
LEMMA ConfigKept ==
    ASSUME CallsOK, CallsOK', OneSave, KeepsSaves
    PROVE  OneSave'
<1>1. \A d \in Saves' : \E c \in Saves : /\ c.id = d.id /\ c.at = d.at
                                         /\ c.payload = d.payload /\ c.base = d.base
  <2>1. \A d \in Saves' : IsSave(d) /\ d \in calls' /\ d.at # "sent"
    BY DEF CallsOK, WellFormed, IsOver, IsSave, IsRotation, Saves
  <2> QED BY <2>1 DEF KeepsSaves, Saves, IsSave
<1>2. Saves' = {} => Saves = {}
  <2>1. \A c \in Saves : IsSave(c) /\ c \in calls /\ c.at # "sent"
    BY DEF CallsOK, WellFormed, IsOver, IsSave, IsRotation, Saves
  <2> QED BY <2>1 DEF KeepsSaves, Saves, IsSave
<1>3. ASSUME "save" \notin mishaps, NEW d \in Saves'
      PROVE  /\ Restored(d.base, {}, cfg, mishaps')
             /\ d.at = "read" => Restored(env, {}, cfg, mishaps')
             /\ d.at = "truncated" => env = Nothing
             /\ d.at = "written" => env = Merged(d)
  <2>1. PICK c \in Saves : /\ c.id = d.id /\ c.at = d.at
                           /\ c.payload = d.payload /\ c.base = d.base
    BY <1>1
  <2>2. Merged(c) = Merged(d)
    BY <2>1 DEF Merged
  <2> QED BY <1>3, <2>1, <2>2, RestoredOn DEF OneSave, KeepsSaves
<1>4. ASSUME "save" \notin mishaps, Saves' = {}
      PROVE  Restored(env, unapplied, cfg, mishaps')
  BY <1>2, <1>4, RestoredOn DEF OneSave, KeepsSaves
<1> QED BY <1>1, <1>2, <1>3, <1>4 DEF OneSave, KeepsSaves

(* A call that moves from c to d is no save, or one that stays where it is. *)
LEMMA MoveKeepsSaves ==
    ASSUME CallsOK, NEW c \in calls, NEW d, Move(c, d), UNCHANGED <<up, cfg, env, unapplied>>,
           mishaps \subseteq mishaps', "save" \in mishaps' => "save" \in mishaps,
           IsSave(d) => /\ IsSave(c) /\ c.id = d.id /\ c.at = d.at
                        /\ c.payload = d.payload /\ c.base = d.base,
           IsSave(c) /\ c.at # "sent" => IsSave(d)
    PROVE  KeepsSaves
BY DEF KeepsSaves, CallsOK, Move, InFlight, IsSave

-------------------------------------------------------------------------------
(* One lemma per action.                                                   *)

(* A step of a page alone keeps the invariant. *)
LEMMA QuietInv == Inv /\ Quiet => Inv'
<1> SUFFICES ASSUME Inv, Quiet PROVE Inv'
  OBVIOUS
<1>1. CallsOK' /\ RowsOK' /\ RotationsOK' /\ OneRotation' /\ NewestKept'
  BY DEF Inv, Quiet, server, CallsOK, RowsOK, RotationsOK, OneRotation, NewestKept,
         OpenRows, Rotations
<1>2. OneSave'
  BY DEF Inv, Quiet, server, OneSave, Saves
<1> QED BY <1>1, <1>2 DEF Inv

(* A window that ends is that of a row, not of a rotation under way. *)
LEMMA WindowEndsInv == Inv /\ WindowEnds => Inv'
<1> SUFFICES ASSUME Inv, WindowEnds PROVE Inv'
  OBVIOUS
<1> USE DEF Inv, WindowEnds, browser
<1>1. PICK r \in ActiveRows : r.until # 0 /\ over' = over \cup {r.until}
  OBVIOUS
<1>2. r \in rows
  BY <1>1 DEF ActiveRows
<1>3. CallsOK' /\ OneRotation' /\ OneSave' /\ NewestKept'
  BY DEF CallsOK, OneRotation, OneSave, NewestKept, OpenRows, Rotations, Saves
<1>4. RowsOK' /\ RotationsOK'
  BY <1>1, <1>2 DEF RowsOK, RotationsOK, OpenRows, Rotations
<1> QED BY <1>3, <1>4

(* What a rotation counts is true when it counts, and it notes an overlap. *)
LEMMA CountActiveInv == ASSUME Inv, NEW c \in calls, CountActive(c) PROVE Inv'
<1> DEFINE d == Counted(c)
<1>1. IsRotation(c) /\ c.id \in 1..posts /\ c.kind = "rotate" /\ c.at = "sent"
  BY DEF Inv, CallsOK, WellFormed, IsOver, IsSave, IsRotation, CountActive
<1>2. /\ IsRotation(d) /\ d.id = c.id /\ d.at = "counted" /\ d.first = (ActiveRows = {})
      /\ d.key = cfg["SECRET_ENCRYPTION_KEY"]
  BY <1>1, CountedRotation
<1>3. /\ Move(c, d) /\ UNCHANGED <<up, cfg, env, unapplied, rows, over, newest, posts>>
      /\ cfg["SECRET_ENCRYPTION_KEY"] \in ValidKeys
      /\ mishaps' = IF Rotations # {} THEN mishaps \cup {"rotate"} ELSE mishaps
  BY DEF CountActive, browser
<1> HIDE DEF d
<1>4. CallsOK'
  BY <1>1, <1>2, <1>3, MoveKeepsCalls DEF Inv, WellFormed
<1>5. Rotations' = Rotations \cup {d}
  BY <1>1, <1>2, <1>3, Moved DEF Rotations
<1>6. RowsOK' /\ NewestKept' /\ OpenRows' = OpenRows
  BY <1>3 DEF Inv, RowsOK, NewestKept, OpenRows
<1>7. OpenRows \subseteq ActiveRows /\ ActiveRows \subseteq rows
  BY DEF OpenRows, ActiveRows, IsActive
<1>8. RotationsOK'
  <2>1. ASSUME NEW e \in calls', IsRotation(e)
        PROVE  e.id \notin over' /\ \A r \in rows' : r.until # e.id
    BY <1>1, <1>2, <1>3, <2>1 DEF Inv, RotationsOK, Move, InFlight
  <2>2. \A e \in Rotations' : e.key \in ValidKeys /\ (~e.first => rows' # {})
    BY <1>2, <1>3, <1>5, <1>7 DEF Inv, RotationsOK
  <2> QED BY <2>1, <2>2 DEF RotationsOK
<1>9. OneRotation'
  BY <1>2, <1>3, <1>5, <1>6, <1>7 DEF Inv, OneRotation
<1>10. KeepsSaves
  BY <1>1, <1>2, <1>3, MoveKeepsSaves DEF Inv, IsRotation, IsSave
<1> QED BY <1>4, <1>6, <1>8, <1>9, <1>10, ConfigKept DEF Inv

(* Without an overlap a rotation is the only one under way. *)
LEMMA OnlyRotation ==
    ASSUME Inv, "rotate" \notin mishaps, NEW c \in Rotations PROVE Rotations = {c}
<1>1. \A e \in Rotations : e.id = c.id /\ e \in calls /\ c \in calls
  BY DEF Inv, OneRotation, Rotations
<1> QED BY <1>1 DEF Inv, CallsOK

(* What a rotation finds is true when it finds it. *)
LEMMA FindOpenInv == ASSUME Inv, NEW c \in calls, FindOpen(c) PROVE Inv'
<1> DEFINE d == Found(c)
<1>1. /\ IsRotation(c) /\ c.id \in 1..posts /\ c.kind = "rotate" /\ c.at = "counted"
      /\ ~c.first /\ c \in Rotations
  BY DEF Inv, CallsOK, WellFormed, IsOver, IsSave, IsRotation, FindOpen, Rotations
<1>2. /\ IsRotation(d) /\ d.id = c.id /\ d.at = "found" /\ d.first = c.first
      /\ d.key = c.key /\ d.found = OpenRows
  BY <1>1, FoundRotation DEF OpenRows
<1>3. Move(c, d) /\ UNCHANGED <<up, cfg, env, unapplied, rows, over, newest, mishaps, posts>>
  BY DEF FindOpen, browser, server
<1> HIDE DEF d
<1>4. CallsOK'
  BY <1>1, <1>2, <1>3, MoveKeepsCalls DEF Inv, WellFormed
<1>5. Rotations' = (Rotations \ {c}) \cup {d}
  BY <1>1, <1>2, <1>3, Moved
<1>6. RowsOK' /\ NewestKept' /\ OpenRows' = OpenRows
  BY <1>3 DEF Inv, RowsOK, NewestKept, OpenRows
<1>7. RotationsOK'
  <2>1. ASSUME NEW e \in calls', IsRotation(e)
        PROVE  e.id \notin over' /\ \A r \in rows' : r.until # e.id
    BY <1>1, <1>2, <1>3, <2>1 DEF Inv, RotationsOK, Move, InFlight
  <2>2. \A e \in Rotations' : e.key \in ValidKeys /\ (~e.first => rows' # {})
    BY <1>1, <1>2, <1>3, <1>5 DEF Inv, RotationsOK
  <2> QED BY <2>1, <2>2 DEF RotationsOK
<1>8. OneRotation'
  <2>1. "rotate" \notin mishaps => Rotations' = {d}
    BY <1>1, <1>5, OnlyRotation
  <2> QED BY <1>1, <1>2, <1>3, <1>6, <2>1 DEF Inv, OneRotation
<1>9. KeepsSaves
  BY <1>1, <1>2, <1>3, MoveKeepsSaves DEF Inv, IsRotation, IsSave
<1> QED BY <1>4, <1>6, <1>7, <1>8, <1>9, ConfigKept DEF Inv

(* A call that is over is neither a rotation nor a save of the invariant. *)
LEMMA EndedIsOver ==
    ASSUME NEW c, NEW at \in {"ok", "failed"}
    PROVE  ~IsRotation(Ended(c, at)) /\ ~IsSave(Ended(c, at))
BY DEF IsRotation, IsSave, Ended

(* A call that ends is no longer under way. *)
LEMMA EndedRotations ==
    ASSUME NEW c, NEW at \in {"ok", "failed"}, End(c, at)
    PROVE  Rotations' = Rotations \ {c} /\ Saves' = Saves \ {c}
<1>1. Ended(c, at).at = at
  BY DEF Ended
<1>2. \A e : e # Ended(c, at) => /\ e \in Rotations' <=> e \in Rotations \ {c}
                                 /\ e \in Saves' <=> e \in Saves \ {c}
  BY DEF End, Move, InFlight, Rotations, Saves
<1>3. /\ Ended(c, at) \notin Rotations /\ Ended(c, at) \notin Saves
      /\ Ended(c, at) \notin Rotations' /\ Ended(c, at) \notin Saves'
  BY <1>1 DEF Rotations, Saves
<1> QED BY <1>2, <1>3

(* The rows after a commit: those found open have got the window of the rotation. *)
LEMMA CommittedRows ==
    ASSUME Inv, NEW c \in calls, CommitRotation(c)
    PROVE  /\ c \in Rotations /\ IsRotation(c) /\ c.id \in 1..posts /\ c.key \in ValidKeys
           /\ \A r \in rows' : /\ r = [secret |-> r.secret, key |-> r.key,
                                       begun |-> r.begun, until |-> r.until]
                               /\ r.key \in ValidKeys
                               /\ \/ r.until = c.id
                                  \/ r = NewRow(c)
                                  \/ r \in rows /\ (~c.first => r \notin c.found)
           /\ NewRow(c) \in rows' /\ NewRow(c).until = 0
           /\ NewRow(c).secret = NewSecret(c) /\ NewRow(c).key = c.key
           /\ \A r \in rows : \E q \in rows' : /\ q.secret = r.secret /\ q.key = r.key
                                               /\ q.until \in {r.until, c.id}
<1>1. /\ c \in Rotations /\ IsRotation(c) /\ c.id \in 1..posts /\ c.key \in ValidKeys
      /\ c.kind = "rotate" /\ (c.at = "found" \/ c.first)
  BY DEF Inv, CallsOK, WellFormed, IsOver, IsSave, IsRotation, CommitRotation, Rotations,
         RotationsOK
<1>2. rows' = Closing(c) \cup {NewRow(c)}
  BY DEF CommitRotation
<1>3. \A r \in rows : r = [secret |-> r.secret, key |-> r.key, begun |-> r.begun,
                           until |-> r.until] /\ r.key \in ValidKeys
  BY DEF Inv, RowsOK
<1>4. NewRow(c) = [secret |-> NewSecret(c), key |-> c.key, begun |-> c.begun, until |-> 0]
  BY DEF NewRow, Row
<1>5. CASE c.first
  <2> DEFINE q == Row(c, c.current, c.id)
  <2>1. q = [secret |-> c.current, key |-> c.key, begun |-> c.begun, until |-> c.id]
    BY DEF Row
  <2>2. rows' = rows \cup {q, NewRow(c)}
    BY <1>2, <1>5 DEF Closing
  <2> HIDE DEF q
  <2> QED BY <1>1, <1>3, <1>4, <1>5, <2>1, <2>2
<1>6. CASE ~c.first
  <2> DEFINE Closed(r) == [r EXCEPT !.until = c.id]
  <2>1. rows' = {IF r \in c.found THEN Closed(r) ELSE r : r \in rows} \cup {NewRow(c)}
    BY <1>2, <1>6 DEF Closing
  <2>2. \A r \in rows : /\ Closed(r) = [secret |-> r.secret, key |-> r.key,
                                        begun |-> r.begun, until |-> c.id]
    BY <1>3
  <2> HIDE DEF Closed
  <2> QED BY <1>1, <1>3, <1>4, <1>6, <2>1, <2>2
<1> QED BY <1>5, <1>6

(* Without an overlap only the new row is open after a commit. *)
LEMMA CommitRotationInv == ASSUME Inv, NEW c \in calls, CommitRotation(c) PROVE Inv'
<1>1. /\ End(c, "ok") /\ UNCHANGED <<up, cfg, env, unapplied, over, mishaps, posts>>
      /\ newest' = [secret |-> NewSecret(c), key |-> c.key]
      /\ c.at = "found" \/ c.first
  BY DEF CommitRotation, browser
<1>2. CallsOK'
  BY <1>1, EndedWellFormed, MoveKeepsCalls DEF Inv, CallsOK, End
<1>3. Rotations' = Rotations \ {c} /\ Saves' = Saves \ {c}
  BY <1>1, EndedRotations
<1>4. RowsOK'
  <2>1. \A r \in rows' : r.until \in 0..posts
    BY CommittedRows DEF Inv, RowsOK, CallsOK
  <2>2. NewRow(c) \in OpenRows'
    BY CommittedRows DEF OpenRows
  <2> QED BY <1>1, <2>1, <2>2, CommittedRows DEF Inv, RowsOK
<1>5. RotationsOK'
  <2>1. ASSUME NEW e \in calls', IsRotation(e)
        PROVE  e.id \notin over' /\ \A r \in rows' : r.until # e.id
    <3>1. e \in calls /\ e # c
      <4>1. e # Ended(c, "ok")
        BY <2>1, EndedIsOver
      <4> QED BY <1>1, <4>1 DEF End, Move, InFlight
    <3>2. e.id # c.id /\ e.id # 0
      BY <3>1 DEF Inv, CallsOK
    <3> QED BY <1>1, <2>1, <3>1, <3>2, CommittedRows DEF Inv, RotationsOK
  <2>2. \A e \in Rotations' : e.key \in ValidKeys /\ (~e.first => rows' # {})
    BY <1>3, CommittedRows DEF Inv, RotationsOK
  <2> QED BY <2>1, <2>2 DEF RotationsOK
<1>6. OneRotation'
  <2> SUFFICES ASSUME "rotate" \notin mishaps
               PROVE  Rotations' = {} /\ \A r, q \in OpenRows' : r = q
    BY <1>1 DEF OneRotation
  <2>1. Rotations' = {}
    BY <1>3, CommittedRows, OnlyRotation
  <2>2. \A r \in OpenRows' : r = NewRow(c)
    <3>1. c.first => OpenRows = {}
      BY CommittedRows DEF Inv, OneRotation
    <3>2. ~c.first => c.found = OpenRows
      BY <1>1, CommittedRows DEF Inv, OneRotation
    <3> QED BY <3>1, <3>2, CommittedRows DEF OpenRows
  <2> QED BY <2>1, <2>2
<1>7. NewestKept'
  BY <1>1, CommittedRows DEF NewestKept, OpenRows
<1>8. OneSave'
  <2>1. Saves' = Saves
    BY <1>3, CommittedRows DEF Saves, IsRotation
  <2> QED BY <1>1, <2>1 DEF Inv, OneSave
<1> QED BY <1>2, <1>4, <1>5, <1>6, <1>7, <1>8 DEF Inv

(* Without an overlap a save is the only one under way. *)
LEMMA OnlySave ==
    ASSUME Inv, "save" \notin mishaps, NEW c \in Saves PROVE Saves = {c}
<1>1. \A e \in Saves : e.id = c.id /\ e \in calls /\ c \in calls
  BY DEF Inv, OneSave, Saves
<1> QED BY <1>1 DEF Inv, CallsOK

(* A save that moves replaces itself among those under way. *)
LEMMA MovedSaves ==
    ASSUME NEW c, NEW d, Move(c, d), IsSave(d), d.at # "sent"
    PROVE  Saves' = (Saves \ {c}) \cup {d}
<1>1. d.kind = "save" /\ d.at \in {"read", "truncated", "written"}
  BY DEF IsSave
<1>2. d \in Saves'
  BY <1>1 DEF Move, InFlight, Saves
<1>3. \A e : e # d => (e \in Saves' <=> e \in Saves \ {c})
  BY DEF Move, InFlight, Saves
<1> QED BY <1>2, <1>3

(* A stage of a save leaves the rotations and their rows as they are. *)
LEMMA SaveStep ==
    ASSUME Inv, NEW c \in calls, NEW d, IsSave(c), IsSave(d), d.id = c.id, Move(c, d),
           UNCHANGED <<rows, over, newest, posts>>,
           mishaps \subseteq mishaps', "rotate" \in mishaps' => "rotate" \in mishaps
    PROVE  CallsOK' /\ RowsOK' /\ RotationsOK' /\ OneRotation' /\ NewestKept'
<1>1. CallsOK'
  BY MoveKeepsCalls DEF Inv, WellFormed
<1>2. ~IsRotation(d)
  BY DEF IsSave, IsRotation
<1>3. KeepsRotations
  BY <1>2, MoveKeepsRotations DEF Inv
<1> QED BY <1>1, <1>3, SecretsKept DEF Inv

(* A save that reads .env alone reads what restores the memory. *)
LEMMA ReadEnvInv == ASSUME Inv, up, NEW c \in calls, ReadEnv(c) PROVE Inv'
<1>1. IsSave(c) /\ c.at = "sent" /\ c \notin Saves
  BY DEF Inv, CallsOK, WellFormed, IsOver, IsSave, IsRotation, ReadEnv, Saves
<1>2. PICK f \in {env, Nothing} :
        /\ Move(c, Reading(c, f))
        /\ mishaps' = mishaps \cup (IF Saves # {} THEN {"save"} ELSE {})
                              \cup (IF f # env THEN {"lost"} ELSE {})
  BY DEF ReadEnv
<1> DEFINE d == Reading(c, f)
<1>3. IsSave(d) /\ d.id = c.id /\ d.at = "read" /\ d.base = f
  BY <1>1, ReadSave
<1>4. /\ Move(c, d) /\ UNCHANGED <<up, cfg, env, unapplied, rows, over, newest, posts>>
      /\ mishaps \subseteq mishaps' /\ ("rotate" \in mishaps' => "rotate" \in mishaps)
      /\ "save" \notin mishaps' => "save" \notin mishaps /\ Saves = {}
      /\ f # env => f = Nothing /\ "lost" \in mishaps'
  BY <1>2 DEF ReadEnv, browser
<1> HIDE DEF d
<1>5. CallsOK' /\ RowsOK' /\ RotationsOK' /\ OneRotation' /\ NewestKept'
  BY <1>1, <1>3, <1>4, SaveStep
<1>6. Saves' = Saves \cup {d}
  BY <1>1, <1>3, <1>4, MovedSaves
<1>7. ASSUME "save" \notin mishaps'
      PROVE  Restored(env, {}, cfg, mishaps') /\ Restored(f, {}, cfg, mishaps')
  <2>1. Restored(env, {}, cfg, mishaps)
    BY <1>4, <1>7 DEF Inv, OneSave
  <2>2. Restored(env, {}, cfg, mishaps')
    BY <1>4, <2>1, RestoredOn
  <2> QED BY <1>4, <2>2, NothingRestored
<1>8. OneSave'
  BY <1>3, <1>4, <1>6, <1>7 DEF Inv, OneSave
<1> QED BY <1>5, <1>8 DEF Inv

(* The next two stages. *)
LEMMA StageOfSave ==
    ASSUME Inv, up, NEW c \in calls, NEW at \in {"truncated", "written"}, To(c, at),
           c.kind = "save", c.at \in {"read", "truncated"},
           UNCHANGED <<up, cfg, unapplied, rows, over, newest, mishaps, posts>>,
           env' = IF at = "written" THEN Merged(c) ELSE Nothing
    PROVE  Inv'
<1> DEFINE d == [c EXCEPT !.at = at]
<1>1. IsSave(c) /\ c \in Saves
  BY DEF Inv, CallsOK, WellFormed, IsOver, IsSave, IsRotation, Saves
<1>2. /\ IsSave(d) /\ d.id = c.id /\ d.at = at
      /\ d.payload = c.payload /\ d.base = c.base
  <2>1. at \in {"read", "truncated", "written"}
    OBVIOUS
  <2> QED BY <1>1, <2>1, MovedSave, Zenon
<1>3. Move(c, d)
  BY DEF To
<1> HIDE DEF d
<1>4. CallsOK' /\ RowsOK' /\ RotationsOK' /\ OneRotation' /\ NewestKept'
  BY <1>1, <1>2, <1>3, SaveStep
<1>5. Saves' = (Saves \ {c}) \cup {d}
  BY <1>2, <1>3, MovedSaves
<1>6. OneSave'
  <2> SUFFICES ASSUME "save" \notin mishaps
               PROVE  /\ Saves' = {d} /\ Restored(d.base, {}, cfg, mishaps)
                      /\ d.at = "truncated" => env' = Nothing
                      /\ d.at = "written" => env' = Merged(d)
    BY <1>2 DEF Inv, OneSave
  <2>1. Saves = {c} /\ Restored(c.base, {}, cfg, mishaps)
    BY <1>1, OnlySave DEF Inv, OneSave
  <2> QED BY <1>2, <1>5, <2>1 DEF Merged
<1> QED BY <1>4, <1>6 DEF Inv

(* A call that ends and is no commit leaves the secrets alone. *)
LEMMA EndStep ==
    ASSUME Inv, NEW c \in calls, NEW at \in {"ok", "failed"}, End(c, at),
           UNCHANGED <<rows, over, newest, posts>>,
           mishaps \subseteq mishaps', "rotate" \in mishaps' => "rotate" \in mishaps
    PROVE  CallsOK' /\ RowsOK' /\ RotationsOK' /\ OneRotation' /\ NewestKept'
<1>1. WellFormed(c)
  BY DEF Inv, CallsOK
<1>2. CallsOK'
  BY <1>1, EndedWellFormed, MoveKeepsCalls DEF Inv, End
<1>3. KeepsRotations
  BY EndedIsOver, MoveKeepsRotations DEF Inv, End
<1> QED BY <1>2, <1>3, SecretsKept DEF Inv

(* The memory takes over what the only save has written. *)
LEMMA ApplyConfigInv == ASSUME Inv, up, NEW c \in calls, ApplyConfig(c) PROVE Inv'
<1>1. /\ End(c, "ok") /\ cfg' = Applied(c.payload) /\ c \in Saves /\ c.at = "written"
      /\ UNCHANGED <<up, env, unapplied, rows, over, newest, mishaps, posts>>
  BY DEF ApplyConfig, browser, Saves
<1>2. CallsOK' /\ RowsOK' /\ RotationsOK' /\ OneRotation' /\ NewestKept'
  BY <1>1, EndStep
<1>3. Saves' = Saves \ {c}
  BY <1>1, EndedRotations
<1>4. OneSave'
  <2> SUFFICES ASSUME "save" \notin mishaps
               PROVE  Saves' = {} /\ Restored(env, {}, cfg', mishaps)
    BY <1>1 DEF Inv, OneSave
  <2>1. Saves = {c} /\ env = Merged(c) /\ Restored(c.base, {}, cfg, mishaps)
    BY <1>1, OnlySave DEF Inv, OneSave
  <2>2. Restored(Merged(c), {}, Applied(c.payload), mishaps)
    BY <2>1, AppliedRestored DEF Merged
  <2> QED BY <1>1, <1>3, <2>1, <2>2
<1> QED BY <1>2, <1>4 DEF Inv

(* A write that fails loses the lines. *)
LEMMA WriteFailsInv == ASSUME Inv, up, NEW c \in calls, WriteFails(c) PROVE Inv'
<1>1. /\ End(c, "failed") /\ mishaps' = mishaps \cup {"lost"}
      /\ c \in Saves /\ c.at = "truncated"
      /\ UNCHANGED <<up, cfg, env, unapplied, rows, over, newest, posts>>
  BY DEF WriteFails, browser, Saves
<1>2. CallsOK' /\ RowsOK' /\ RotationsOK' /\ OneRotation' /\ NewestKept'
  BY <1>1, EndStep
<1>3. Saves' = Saves \ {c}
  BY <1>1, EndedRotations
<1>4. OneSave'
  <2> SUFFICES ASSUME "save" \notin mishaps
               PROVE  Saves' = {} /\ Restored(env, unapplied, cfg, mishaps')
    BY <1>1 DEF Inv, OneSave
  <2>1. Saves = {c} /\ env = Nothing
    BY <1>1, OnlySave DEF Inv, OneSave
  <2> QED BY <1>1, <1>3, <2>1, NothingRestored
<1> QED BY <1>2, <1>4 DEF Inv

(* A call is refused before it has written anything. *)
LEMMA RefuseInv == ASSUME Inv, NEW c \in calls, Refuse(c) PROVE Inv'
<1>1. /\ End(c, "failed")
      /\ UNCHANGED <<up, cfg, env, unapplied, rows, over, newest, mishaps, posts>>
      /\ c \in Saves => c.at = "read"
  BY DEF Refuse, browser, server, Saves
<1>2. CallsOK' /\ RowsOK' /\ RotationsOK' /\ OneRotation' /\ NewestKept'
  BY <1>1, EndStep
<1>3. Saves' = Saves \ {c}
  BY <1>1, EndedRotations
<1>4. OneSave'
  <2>1. "save" \notin mishaps /\ c \in Saves => Restored(env, unapplied, cfg, mishaps)
    <3> SUFFICES ASSUME "save" \notin mishaps, c \in Saves
                 PROVE  Restored(env, unapplied, cfg, mishaps)
      OBVIOUS
    <3>1. up /\ unapplied = {}
      BY DEF Inv, OneSave
    <3> QED BY <1>1, <3>1 DEF Inv, OneSave
  <2>2. "save" \notin mishaps /\ Saves' = {} => Restored(env, unapplied, cfg, mishaps)
    BY <1>3, <2>1 DEF Inv, OneSave
  <2> QED BY <1>1, <1>3, <2>2 DEF Inv, OneSave
<1> QED BY <1>2, <1>4 DEF Inv

(* A crash ends every call; what is down has no save under way. *)
LEMMA CrashInv == Inv /\ Crash => Inv'
<1> SUFFICES ASSUME Inv, Crash PROVE Inv'
  OBVIOUS
<1>1. /\ calls' \subseteq {Ended(c, "failed") : c \in calls}
      /\ up /\ ~up' /\ UNCHANGED <<cfg, env, rows, over, newest, posts>>
      /\ mishaps' = IF \E c \in Saves : c.at = "truncated" THEN mishaps \cup {"lost"}
                    ELSE mishaps
      /\ unapplied' = UNION {DOMAIN c.payload : c \in {s \in Saves : s.at = "written"}}
  BY DEF Crash, InFlight, browser
<1>2. \A c \in calls : WellFormed(Ended(c, "failed")) /\ Ended(c, "failed").id = c.id
  BY EndedWellFormed DEF Inv, CallsOK
<1>3. CallsOK'
  BY <1>1, <1>2 DEF Inv, CallsOK
<1>4. mishaps \subseteq mishaps' /\ \A x : x # "lost" => (x \in mishaps' <=> x \in mishaps)
  BY <1>1
<1>5. KeepsRotations
  BY <1>1, <1>4, EndedIsOver DEF Inv, CallsOK, KeepsRotations
<1>6. Saves' = {}
  BY <1>1 DEF Saves, Ended
<1>7. ASSUME "save" \notin mishaps PROVE Restored(env, unapplied', cfg, mishaps')
  <2>1. CASE Saves = {}
    <3>1. unapplied' = {} /\ unapplied = {} /\ mishaps' = mishaps
      BY <1>1, <2>1 DEF Inv, OneSave
    <3> QED BY <1>7, <2>1, <3>1 DEF Inv, OneSave
  <2>2. ASSUME NEW c \in Saves PROVE Restored(env, unapplied', cfg, mishaps')
    <3>1. Saves = {c} /\ c.at \in {"read", "truncated", "written"}
      BY <1>7, OnlySave DEF Saves
    <3>2. CASE c.at = "read"
      <4>1. unapplied' = {} /\ mishaps' = mishaps
        BY <1>1, <3>1, <3>2
      <4> QED BY <1>7, <3>2, <4>1 DEF Inv, OneSave
    <3>3. CASE c.at = "truncated"
      <4>1. env = Nothing /\ "lost" \in mishaps'
        BY <1>1, <1>7, <3>3 DEF Inv, OneSave
      <4> QED BY <4>1, NothingRestored
    <3>4. CASE c.at = "written"
      <4>1. unapplied' = DOMAIN c.payload /\ mishaps' = mishaps
        BY <1>1, <3>1, <3>4
      <4>2. env = Merged(c) /\ Restored(c.base, {}, cfg, mishaps)
        BY <1>7, <3>4 DEF Inv, OneSave
      <4> QED BY <4>1, <4>2, MergedRestored DEF Merged
    <3> QED BY <3>1, <3>2, <3>3, <3>4
  <2> QED BY <2>1, <2>2
<1>8. OneSave'
  BY <1>1, <1>4, <1>6, <1>7 DEF OneSave
<1> QED BY <1>3, <1>5, <1>8, SecretsKept DEF Inv

(* A start takes .env over as the configuration. *)
LEMMA StartInv == Inv /\ Start => Inv'
<1> SUFFICES ASSUME Inv, Start PROVE Inv'
  OBVIOUS
<1>1. CallsOK' /\ RowsOK' /\ RotationsOK' /\ OneRotation' /\ NewestKept'
  BY DEF Inv, Start, browser, CallsOK, RowsOK, RotationsOK, OneRotation, NewestKept,
         OpenRows, Rotations
<1>2. Needed \subseteq DOMAIN env
  BY TextIs DEF Needed, Start
<1>3. Restored(env, {}, Loaded(env), mishaps)
  BY <1>2, LoadedRestored
<1>4. Saves' = {}
  BY DEF Inv, OneSave, Start, Saves
<1>5. OneSave'
  BY <1>3, <1>4 DEF Start, OneSave
<1> QED BY <1>1, <1>5 DEF Inv

(* A call whose tab has gone is the same call to the server. *)
LEMMA AbandonedKept ==
    ASSUME NEW c, WellFormed(c), NEW tab
    PROVE  LET d == [c EXCEPT !.tab = tab]
           IN  /\ IsRotation(d) => /\ IsRotation(c) /\ c.first = d.first
                                   /\ c.found = d.found /\ c.key = d.key
               /\ IsSave(d) => IsSave(c) /\ c.payload = d.payload /\ c.base = d.base
               /\ IsSave(c) => IsSave(d)
<1> DEFINE d == [c EXCEPT !.tab = tab]
<1>1. /\ WellFormed(d) /\ d.at = c.at /\ d.kind = c.kind
      /\ IsRotation(c) => d.first = c.first /\ d.found = c.found /\ d.key = c.key
      /\ IsSave(c) => IsSave(d) /\ d.payload = c.payload /\ d.base = c.base
  BY AbandonedWellFormed
<1> HIDE DEF d
<1>2. (IsRotation(d) => IsRotation(c)) /\ (IsSave(d) => IsSave(c))
  BY <1>1 DEF WellFormed, IsOver, IsSave, IsRotation
<1>3. /\ IsRotation(d) => /\ IsRotation(c) /\ c.first = d.first
                          /\ c.found = d.found /\ c.key = d.key
      /\ IsSave(d) => IsSave(c) /\ c.payload = d.payload /\ c.base = d.base
      /\ IsSave(c) => IsSave(d)
  BY <1>1, <1>2
<1> QED BY <1>3 DEF d

(* A page that is left drops its calls' tab, nothing else. *)
LEMMA VisitInv == ASSUME Inv, NEW t, NEW page, Visit(t, page) PROVE Inv'
<1> DEFINE Left(c) == [c EXCEPT !.tab = NoTab]
<1>1. /\ calls' = InFlight({IF c.tab = t THEN Left(c) ELSE c : c \in calls})
      /\ UNCHANGED <<up, cfg, env, unapplied, rows, over, newest, mishaps, posts>>
  BY DEF Visit, server
<1>2. \A c \in calls :
        /\ WellFormed(Left(c)) /\ Left(c).id = c.id /\ Left(c).at = c.at
        /\ IsRotation(Left(c)) => /\ IsRotation(c) /\ c.first = Left(c).first
                                  /\ c.found = Left(c).found /\ c.key = Left(c).key
        /\ IsSave(Left(c)) => /\ IsSave(c) /\ c.payload = Left(c).payload
                              /\ c.base = Left(c).base
        /\ IsSave(c) => IsSave(Left(c))
  BY AbandonedWellFormed, AbandonedKept DEF Inv, CallsOK
<1> HIDE DEF Left
<1>3. CallsOK'
  BY <1>1, <1>2 DEF Inv, CallsOK, InFlight
<1>4. KeepsRotations
  BY <1>1, <1>2 DEF Inv, CallsOK, KeepsRotations, InFlight
<1>5. KeepsSaves
  <2>1. \A d \in calls' : IsSave(d) /\ d.at # "sent" =>
          \E c \in calls : /\ IsSave(c) /\ c.id = d.id /\ c.at = d.at
                           /\ c.payload = d.payload /\ c.base = d.base
    BY <1>1, <1>2 DEF InFlight
  <2>2. ASSUME NEW c \in calls, IsSave(c), c.at # "sent"
        PROVE  \E d \in calls' : IsSave(d) /\ d.at # "sent"
    <3> DEFINE d == IF c.tab = t THEN Left(c) ELSE c
    <3>1. d.at = c.at /\ IsSave(d) /\ c.at \notin {"ok", "failed"}
      BY <1>2, <2>2 DEF IsSave
    <3>2. d \in calls'
      BY <1>1, <3>1 DEF InFlight
    <3> QED BY <2>2, <3>1, <3>2
  <2> QED BY <1>1, <2>1, <2>2 DEF KeepsSaves
<1> QED BY <1>3, <1>4, <1>5, SecretsKept, ConfigKept DEF Inv

(* A call just sent. *)
LEMMA SendStep ==
    ASSUME Inv, NEW d, calls' = calls \cup {d}, posts' = posts + 1, d.id = posts + 1,
           d.at = "sent", IsSave(d) \/ IsRotation(d), UNCHANGED server
    PROVE  Inv'
<1>1. CallsOK'
  BY SendKeepsCalls DEF Inv, WellFormed
<1>2. KeepsRotations
  BY <1>1 DEF Inv, CallsOK, KeepsRotations, server
<1>3. KeepsSaves
  BY DEF KeepsSaves, server
<1> QED BY <1>1, <1>2, <1>3, SecretsKept, ConfigKept DEF Inv

(* A save is sent, or the form is closed without one. *)
LEMMA SaveInv == ASSUME Inv, NEW t, handleSaveConfig(t) PROVE Inv'
<1>1. UNCHANGED server
  BY DEF handleSaveConfig
<1>2. CASE UNCHANGED <<calls, posts>>
  BY <1>1, <1>2, QuietInv DEF Quiet
<1>3. ASSUME NEW p, NEW al, posts' = posts + 1,
             calls' = calls \cup
                        {[kind |-> "save", id |-> posts + 1, tab |-> t, at |-> "sent",
                          payload |-> p, base |-> Nothing, allowed |-> al]}
      PROVE  Inv'
  <2> DEFINE d == [kind |-> "save", id |-> posts + 1, tab |-> t, at |-> "sent",
                   payload |-> p, base |-> Nothing, allowed |-> al]
  <2>1. IsSave(d) /\ d.at = "sent" /\ d.id = posts + 1
    BY DEF IsSave
  <2>2. calls' = calls \cup {d}
    BY <1>3
  <2> HIDE DEF d
  <2> QED BY <1>1, <1>3, <2>1, <2>2, SendStep
<1> QED BY <1>2, <1>3 DEF handleSaveConfig

(* A rotation is sent. *)
LEMMA RotateInv == ASSUME Inv, NEW t, handleRotate(t) PROVE Inv'
<1> DEFINE d == [kind |-> "rotate", id |-> posts + 1, tab |-> t, at |-> "sent",
                 gateway |-> NamesGateway(t), begun |-> 0, first |-> FALSE,
                 found |-> {}, key |-> 0, current |-> 0]
<1>1. /\ calls' = calls \cup {d} /\ posts' = posts + 1 /\ UNCHANGED server
  BY DEF handleRotate
<1>2. IsRotation(d) /\ d.at = "sent" /\ d.id = posts + 1
  BY DEF IsRotation
<1> HIDE DEF d
<1> QED BY <1>1, <1>2, SendStep

(* A call that was answered is forgotten. *)
LEMMA AnsweredInv == ASSUME Inv, NEW c \in calls, PostAnswered(c) PROVE Inv'
<1>1. calls' = calls \ {c} /\ c.at \in {"ok", "failed"} /\ UNCHANGED <<server, posts>>
  BY DEF PostAnswered
<1>2. ~IsSave(c)
  BY <1>1 DEF IsSave
<1>3. CallsOK'
  BY <1>1 DEF Inv, CallsOK
<1>4. KeepsRotations
  BY <1>1 DEF Inv, CallsOK, KeepsRotations, server
<1>5. KeepsSaves
  BY <1>1, <1>2 DEF KeepsSaves, server
<1> QED BY <1>3, <1>4, <1>5, SecretsKept, ConfigKept DEF Inv

(* A call whose connection is lost goes on without its tab. *)
LEMMA LostInv == ASSUME Inv, NEW c \in calls, PostLost(c) PROVE Inv'
<1> DEFINE d == [c EXCEPT !.tab = NoTab]
<1>1. Move(c, d) /\ UNCHANGED <<server, posts>>
  BY DEF PostLost
<1>2. WellFormed(c)
  BY DEF Inv, CallsOK
<1>3. /\ WellFormed(d) /\ d.id = c.id /\ d.at = c.at
      /\ IsRotation(d) => /\ IsRotation(c) /\ c.first = d.first
                          /\ c.found = d.found /\ c.key = d.key
      /\ IsSave(d) => IsSave(c) /\ c.payload = d.payload /\ c.base = d.base
      /\ IsSave(c) => IsSave(d)
  BY <1>2, AbandonedWellFormed, AbandonedKept
<1> HIDE DEF d
<1>4. CallsOK'
  BY <1>1, <1>3, MoveKeepsCalls DEF Inv
<1>5. KeepsRotations
  BY <1>1, <1>3, MoveKeepsRotations DEF Inv, server
<1>6. KeepsSaves
  BY <1>1, <1>3, MoveKeepsSaves DEF Inv, server
<1> QED BY <1>4, <1>5, <1>6, SecretsKept, ConfigKept DEF Inv

(* Every step keeps the invariant. *)
LEMMA NextInv == Inv /\ [Next]_vars => Inv'
<1> SUFFICES ASSUME Inv, [Next]_vars PROVE Inv'
  OBVIOUS
<1>1. CASE WindowEnds
  BY <1>1, WindowEndsInv
<1>2. CASE Crash
  BY <1>2, CrashInv
<1>3. CASE Start
  BY <1>3, StartInv
<1>4. ASSUME NEW c \in calls, Serve(c) \/ PostAnswered(c) \/ PostLost(c)
      PROVE  Inv'
  <2>1. CASE up /\ CountActive(c)
    BY <2>1, CountActiveInv
  <2>2. CASE up /\ FindOpen(c)
    BY <2>2, FindOpenInv
  <2>3. CASE up /\ CommitRotation(c)
    BY <2>3, CommitRotationInv
  <2>4. CASE up /\ ReadEnv(c)
    BY <2>4, ReadEnvInv
  <2>5. CASE up /\ Truncate(c)
    <3>1. /\ To(c, "truncated") /\ c.kind = "save" /\ c.at = "read" /\ env' = Nothing
          /\ UNCHANGED <<up, cfg, unapplied, rows, over, newest, mishaps, posts>>
      BY <2>5 DEF Truncate, browser
    <3> QED BY <2>5, <3>1, StageOfSave
  <2>6. CASE up /\ WriteEnv(c)
    <3>1. /\ To(c, "written") /\ c.kind = "save" /\ c.at = "truncated" /\ env' = Merged(c)
          /\ UNCHANGED <<up, cfg, unapplied, rows, over, newest, mishaps, posts>>
      BY <2>6 DEF WriteEnv, browser
    <3> QED BY <2>6, <3>1, StageOfSave
  <2>7. CASE up /\ ApplyConfig(c)
    BY <2>7, ApplyConfigInv
  <2>8. CASE Refuse(c)
    BY <2>8, RefuseInv
  <2>9. CASE PostAnswered(c)
    BY <2>9, AnsweredInv
  <2>10. CASE PostLost(c)
    BY <2>10, LostInv
  <2>11. CASE up /\ WriteFails(c)
    BY <2>11, WriteFailsInv
  <2> QED BY <1>4, <2>1, <2>2, <2>3, <2>4, <2>5, <2>6, <2>7, <2>8, <2>9, <2>10, <2>11
          DEF Serve
<1>5. ASSUME NEW t \in Tabs, NEW page \in Pages, Visit(t, page) PROVE Inv'
  BY <1>5, VisitInv
<1>6. ASSUME NEW t \in Tabs, handleSaveConfig(t) PROVE Inv'
  BY <1>6, SaveInv
<1>7. ASSUME NEW t \in Tabs, handleRotate(t) PROVE Inv'
  BY <1>7, RotateInv
<1>8. ASSUME NEW t \in Tabs,
             \/ ReadConfig(t) \/ ReadStatus(t) \/ LoadDone(t) \/ LoadFailed(t)
             \/ Edit(t) \/ CancelEdit(t) \/ ConfigRefreshed(t) \/ RefreshFailed(t)
             \/ OpenForm(t) \/ CancelForm(t) \/ StatusRefreshed(t) \/ StatusFailed(t)
      PROVE  Inv'
  BY <1>8, QuietSteps, QuietInv
<1>9. CASE UNCHANGED vars
  BY <1>9, QuietInv DEF vars, browser, Quiet
<1> QED BY <1>1, <1>2, <1>3, <1>4, <1>5, <1>6, <1>7, <1>8, <1>9 DEF Next

(* The invariant holds in every reachable state. *)
LEMMA Invariance == Spec => []Inv
BY InitInv, NextInv, PTL DEF Spec

-------------------------------------------------------------------------------
(* The theorems about secrets and restarts.                                *)

(* The secret of the rotation committed last is accepted while the encryption key is
   the one it was stored with: its row is open, and an open row is active. *)
THEOREM NewSecretIsAccepted == Spec => []NewSecretAccepted
<1>1. Inv => NewSecretAccepted
  <2> SUFFICES ASSUME Inv, newest.key \in ValidKeys, newest.key = cfg["SECRET_ENCRYPTION_KEY"]
               PROVE  newest.secret \in Accepted
    BY DEF NewSecretAccepted
  <2>1. PICK r \in OpenRows : r.secret = newest.secret /\ r.key = newest.key
    BY DEF Inv, NewestKept
  <2>2. r \in ActiveRows
    BY DEF OpenRows, ActiveRows, IsActive
  <2>3. newest.secret \in activeSecrets
    BY <2>1, <2>2 DEF activeSecrets
  <2> QED BY <2>3 DEF Accepted
<1> QED BY <1>1, Invariance, PTL

(* But for rotations that overlapped, one secret at most has no end of its window. *)
THEOREM OneOpenSecret == Spec => []AtMostOneOpen
<1>1. Inv => AtMostOneOpen
  <2> SUFFICES ASSUME Inv, "rotate" \notin mishaps PROVE Cardinality(OpenRows) <= 1
    BY DEF AtMostOneOpen, OpenRows
  <2>1. CASE OpenRows = {}
    BY <2>1, FS_EmptySet
  <2>2. CASE OpenRows # {}
    <3>1. PICK r \in OpenRows : TRUE
      BY <2>2
    <3>2. OpenRows = {r}
      BY <3>1 DEF Inv, OneRotation
    <3>3. Cardinality({r}) = 1
      BY FS_Singleton
    <3> QED BY <3>2, <3>3
  <2> QED BY <2>1, <2>2
<1> QED BY <1>1, Invariance, PTL

(* Only a start brings the server up. *)
LEMMA OnlyStart == ASSUME [Next]_vars, ~up, up' PROVE Start
<1>1. ASSUME NEW c \in calls, Serve(c) \/ PostAnswered(c) \/ PostLost(c) PROVE UNCHANGED up
  BY <1>1 DEF Serve, PostAnswered, PostLost, CountActive, FindOpen, CommitRotation, ReadEnv,
              Truncate, WriteEnv, WriteFails, ApplyConfig, Refuse, server
<1>2. ASSUME NEW t \in Tabs,
             \/ \E page \in Pages : Visit(t, page)
             \/ handleSaveConfig(t) \/ handleRotate(t)
      PROVE  UNCHANGED up
  BY <1>2 DEF Visit, handleSaveConfig, handleRotate, server
<1>3. ASSUME NEW t \in Tabs,
             \/ ReadConfig(t) \/ ReadStatus(t) \/ LoadDone(t) \/ LoadFailed(t)
             \/ Edit(t) \/ CancelEdit(t) \/ ConfigRefreshed(t) \/ RefreshFailed(t)
             \/ OpenForm(t) \/ CancelForm(t) \/ StatusRefreshed(t) \/ StatusFailed(t)
      PROVE  UNCHANGED up
  BY <1>3, QuietSteps DEF Quiet, server
<1>4. ~WindowEnds /\ ~Crash /\ ~UNCHANGED vars
  BY DEF WindowEnds, Crash, vars, server
<1> QED BY <1>1, <1>2, <1>3, <1>4 DEF Next

(* A restart brings back the configuration that was in effect when the process crashed,
   but for the variables SavedSurvivesRestart names: what a save has read of .env, and
   .env itself at every stage of a save, restore the memory. *)
THEOREM RestartKeepsConfiguration == Spec => SavedSurvivesRestart
<1> DEFINE Step == ~up /\ up' => \A k \in Keys :
                     \/ cfg'[k] = cfg[k]
                     \/ k \in unapplied \cup DOMAIN Environ
                     \/ k \in DOMAIN env /\ ~Plain(k, env[k])
                     \/ "lost" \in mishaps /\ k \notin DOMAIN env
                     \/ "save" \in mishaps
<1>1. ASSUME Inv, [Next]_vars PROVE Step
  <2> SUFFICES ASSUME ~up, up', "save" \notin mishaps,
                      NEW k \in Keys, k \notin unapplied
               PROVE  \/ cfg'[k] = cfg[k]
                      \/ k \in DOMAIN Environ
                      \/ k \in DOMAIN env /\ ~Plain(k, env[k])
                      \/ "lost" \in mishaps /\ k \notin DOMAIN env
    OBVIOUS
  <2>1. cfg' = Loaded(env)
    BY <1>1, OnlyStart DEF Start
  <2>2. Restored(env, unapplied, cfg, mishaps)
    BY <1>1 DEF Inv, OneSave
  <2> QED BY <2>1, <2>2 DEF Restored
<1>2. Inv /\ [Next]_vars => [Step]_vars
  BY <1>1
<1> QED BY <1>2, Invariance, PTL DEF Spec, SavedSurvivesRestart

(* No save takes away a line that a start needs, unless lines were lost or saves
   overlapped, and but for the moment in which it has emptied the file. *)
THEOREM RestartIsPossible == Spec => []RestartPossible
<1>1. ASSUME Inv PROVE RestartPossible
  <2> SUFFICES ASSUME "save" \notin mishaps, "lost" \notin mishaps,
                      \A c \in Saves : c.at # "truncated", NEW k \in Required
               PROVE  Text(env, k) # Blank \/ (k \in DOMAIN env /\ ~Plain(k, env[k]))
    BY DEF RestartPossible
  <2>1. Needed \subseteq DOMAIN env
    <3>1. CASE Saves = {}
      BY <1>1, <3>1 DEF Inv, OneSave, Restored
    <3>2. ASSUME NEW c \in Saves, c.at = "read" PROVE Needed \subseteq DOMAIN env
      BY <1>1, <3>2 DEF Inv, OneSave, Restored
    <3>3. ASSUME NEW c \in Saves, c.at = "written" PROVE Needed \subseteq DOMAIN env
      <4>1. env = Merged(c) /\ Needed \subseteq DOMAIN c.base
        BY <1>1, <3>3 DEF Inv, OneSave, Restored
      <4> QED BY <4>1 DEF Merged, Overlay
    <3> QED BY <3>1, <3>2, <3>3 DEF Saves
  <2>2. CASE k \in DOMAIN Environ
    BY <2>2, TextIs, ConstantsOK DEF Blank
  <2>3. CASE k \notin DOMAIN Environ
    <3>1. k \in DOMAIN env /\ Text(env, k) = Stripped[env[k]]
      BY <2>1, <2>3, TextIs DEF Needed
    <3>2. k \notin NumberKeys
      BY ConstantsOK
    <3> QED BY <3>1, <3>2 DEF Plain
  <2> QED BY <2>2, <2>3
<1> QED BY <1>1, Invariance, PTL

(* No step of the secrets. *)
LEMMA SameAccepted ==
    ASSUME UNCHANGED <<cfg, rows, over>>
    PROVE  Accepted' = Accepted /\ activeSecrets' = activeSecrets
BY DEF Accepted, activeSecrets, ActiveRows, IsActive

(* A commit keeps every secret it could decrypt, and the configured one. *)
LEMMA CommitAccepts ==
    ASSUME Inv, NEW c \in calls, CommitRotation(c),
           c.first => c.current = cfg["WEBHOOK_SECRET"],
           \A r \in ActiveRows : r.key = cfg["SECRET_ENCRYPTION_KEY"]
    PROVE  Accepted \subseteq Accepted'
<1>1. UNCHANGED <<cfg, over>> /\ c.id \notin over
  BY CommittedRows DEF CommitRotation, Inv, RotationsOK
<1>2. activeSecrets \subseteq activeSecrets'
  <2> SUFFICES ASSUME NEW r \in ActiveRows, r.key = cfg["SECRET_ENCRYPTION_KEY"],
                      r.key \in ValidKeys
               PROVE  r.secret \in activeSecrets'
    BY DEF activeSecrets
  <2>1. PICK q \in rows' : /\ q.secret = r.secret /\ q.key = r.key
                           /\ q.until \in {r.until, c.id}
    BY CommittedRows DEF ActiveRows
  <2>2. q \in ActiveRows'
    BY <1>1, <2>1 DEF ActiveRows, IsActive
  <2> QED BY <1>1, <2>1, <2>2 DEF activeSecrets
<1>3. CASE activeSecrets # {}
  BY <1>2, <1>3 DEF Accepted
<1>4. CASE activeSecrets = {}
  <2>1. \A r \in ActiveRows : FALSE
    BY <1>4 DEF activeSecrets, ActiveRows, Inv, RowsOK
  <2>2. c.first
    BY <2>1, CommittedRows DEF Inv, RotationsOK, RowsOK, OpenRows, ActiveRows, IsActive
  <2>3. Accepted = {c.current}
    BY <1>4, <2>2 DEF Accepted
  <2>4. CASE c.key = cfg["SECRET_ENCRYPTION_KEY"]
    <3>1. PICK q \in rows' : q.until = c.id /\ q.key = c.key /\ q.secret = c.current
      <4>1. Row(c, c.current, c.id) \in rows'
        BY <2>2 DEF CommitRotation, Closing
      <4> QED BY <4>1 DEF Row
    <3>2. q \in ActiveRows'
      BY <1>1, <3>1 DEF ActiveRows, IsActive
    <3>3. c.key \in ValidKeys
      BY CommittedRows
    <3>4. c.current \in activeSecrets'
      BY <1>1, <2>4, <3>1, <3>2, <3>3 DEF activeSecrets
    <3> QED BY <2>3, <3>4 DEF Accepted
  <2>5. CASE c.key # cfg["SECRET_ENCRYPTION_KEY"]
    <3>1. \A q \in ActiveRows' : q.key # cfg["SECRET_ENCRYPTION_KEY"]
      <4>1. rows' = rows \cup {Row(c, c.current, c.id), NewRow(c)}
        BY <2>2 DEF CommitRotation, Closing
      <4>2. NewRow(c).key = c.key /\ Row(c, c.current, c.id).key = c.key
        BY DEF NewRow, Row
      <4>3. \A q \in ActiveRows' : q \in rows => q \in ActiveRows
        BY <1>1 DEF ActiveRows, IsActive
      <4> QED BY <2>1, <2>5, <4>1, <4>2, <4>3 DEF ActiveRows
    <3>2. activeSecrets' = {}
      BY <1>1, <3>1 DEF activeSecrets
    <3> QED BY <1>1, <1>4, <3>2 DEF Accepted
  <2> QED BY <2>4, <2>5
<1> QED BY <1>3, <1>4

(* A secret is refused from one step to the next only because its own window ends, or
   because what decrypts it, or the configured secret itself, was changed. *)
THEOREM RefusedOnlyWhenWindowEnds == Spec => AcceptedUntilWindowEnds
<1> DEFINE Ending == {r.secret : r \in {q \in rows : q.until \in over' \ over}}
           Step == \/ Accepted \subseteq Accepted' \cup Ending
                   \/ /\ cfg' # cfg
                      /\ \/ activeSecrets = {}
                         \/ cfg'["SECRET_ENCRYPTION_KEY"] # cfg["SECRET_ENCRYPTION_KEY"]
                   \/ /\ rows' # rows
                      /\ \/ \E c \in Rotations : c.first /\ c.current # cfg["WEBHOOK_SECRET"]
                         \/ \E r \in ActiveRows : r.key # cfg["SECRET_ENCRYPTION_KEY"]
<1>1. ASSUME Inv, [Next]_vars PROVE Step
  <2>1. CASE UNCHANGED <<cfg, rows, over>>
    BY <2>1, SameAccepted
  <2>2. ASSUME UNCHANGED <<rows, over>> PROVE Step
    <3> SUFFICES ASSUME cfg'["SECRET_ENCRYPTION_KEY"] = cfg["SECRET_ENCRYPTION_KEY"],
                        activeSecrets # {}, cfg' # cfg
                 PROVE  Accepted \subseteq Accepted'
      BY <2>1, <2>2
    <3>1. activeSecrets' = activeSecrets
      BY <2>2 DEF activeSecrets, ActiveRows, IsActive
    <3> QED BY <3>1 DEF Accepted
  <2>3. CASE WindowEnds
    <3>1. UNCHANGED <<cfg, rows>> /\ over \subseteq over'
      BY <2>3 DEF WindowEnds
    <3>2. activeSecrets' \subseteq activeSecrets
      BY <3>1 DEF activeSecrets, ActiveRows, IsActive
    <3>3. activeSecrets \subseteq activeSecrets' \cup Ending
      BY <3>1 DEF activeSecrets, ActiveRows, IsActive
    <3>4. Accepted \subseteq Accepted' \cup Ending
      BY <3>1, <3>2, <3>3 DEF Accepted
    <3> QED BY <3>4
  <2>4. ASSUME NEW c \in calls, CommitRotation(c) PROVE Step
    <3>1. NewRow(c) \in rows' /\ NewRow(c).until = 0 /\ c \in Rotations
      BY <1>1, <2>4, CommittedRows
    <3>2. (c.first => c.current = cfg["WEBHOOK_SECRET"]) /\
          (\A r \in ActiveRows : r.key = cfg["SECRET_ENCRYPTION_KEY"])
            => Accepted \subseteq Accepted'
      BY <1>1, <2>4, CommitAccepts
    <3>3. rows' = rows => UNCHANGED <<cfg, rows, over>>
      BY <2>4 DEF CommitRotation
    <3> QED BY <2>1, <3>1, <3>2, <3>3
  <2>5. ASSUME NEW c \in calls, Serve(c) \/ PostAnswered(c) \/ PostLost(c) PROVE Step
    <3>1. CommitRotation(c) \/ UNCHANGED <<rows, over>>
      BY <2>5 DEF Serve, PostAnswered, PostLost, CountActive, FindOpen, ReadEnv, Truncate,
                  WriteEnv, WriteFails, ApplyConfig, Refuse, server
    <3> QED BY <2>2, <2>4, <3>1
  <2>6. CASE Crash \/ Start
    BY <2>2, <2>6 DEF Crash, Start
  <2>7. ASSUME NEW t \in Tabs,
               \/ \E page \in Pages : Visit(t, page)
               \/ handleSaveConfig(t) \/ handleRotate(t)
        PROVE  Step
    BY <2>2, <2>7 DEF Visit, handleSaveConfig, handleRotate, server
  <2>8. ASSUME NEW t \in Tabs,
               \/ ReadConfig(t) \/ ReadStatus(t) \/ LoadDone(t) \/ LoadFailed(t)
               \/ Edit(t) \/ CancelEdit(t) \/ ConfigRefreshed(t) \/ RefreshFailed(t)
               \/ OpenForm(t) \/ CancelForm(t) \/ StatusRefreshed(t) \/ StatusFailed(t)
        PROVE  Step
    BY <2>2, <2>8, QuietSteps DEF Quiet, server
  <2>9. CASE UNCHANGED vars
    BY <2>2, <2>9 DEF vars, server
  <2> QED BY <1>1, <2>3, <2>5, <2>6, <2>7, <2>8, <2>9 DEF Next
<1>2. Inv /\ [Next]_vars => [Step]_vars
  BY <1>1
<1> QED BY <1>2, Invariance, PTL DEF Spec, AcceptedUntilWindowEnds
-------------------------------------------------------------------------------
(* What the server and its calls hold.                                     *)

(* A configuration has a value for every variable; .env, what a save has read of it
   and what it is about to write may have lost some. *)
Held       == [Keys -> Values]
Written(f) == f = [k \in DOMAIN f |-> f[k]] /\ DOMAIN f \subseteq LineKeys
              /\ \A k \in DOMAIN f : f[k] \in Values

(* What a call carries, when "begun" transactions have begun. *)
CallTyped(c, begun) ==
    /\ c.tab \in TabOrNone
    /\ IsSave(c) => Written(c.payload) /\ Written(c.base)
                    /\ DOMAIN c.payload \subseteq c.allowed
    /\ IsRotation(c) => /\ c.begun \in 0..begun /\ c.key \in Values /\ c.current \in Values
                        /\ c.at # "sent" => c.begun # 0

ServerTyped ==
    /\ up \in BOOLEAN /\ cfg \in Held /\ Written(env)
    /\ begins \in Nat /\ posts \in 0..MaxPosts
    /\ mishaps \subseteq {"rotate", "save", "lost"} /\ unapplied \subseteq LineKeys
    /\ over \subseteq 1..MaxPosts
    /\ \A r \in rows : r.begun \in Nat \ {0} /\ r.secret \in -1..9 + posts
    /\ \A c \in calls : CallTyped(c, begins)

(* The secrets of rotations: each is in one row, none in the row of another window, and
   only a secret that was configured is stored without one. *)
SecretsApart ==
    /\ \A r \in rows : r.until = 0 => r.secret > 9
    /\ \A r, q \in rows : r.secret > 9 /\ r.secret = q.secret => r = q
    /\ \A c \in calls : IsRotation(c) => \A r \in rows : r.secret # NewSecret(c)

ServerInv == ServerTyped /\ SecretsApart

(* What is loaded is a configuration. *)
LEMMA LoadedHeld == ASSUME NEW f, Written(f) PROVE Loaded(f) \in Held
<1>1. ASSUME NEW k \in Keys PROVE Text(f, k) \in Values
  BY TextIs, ConstantsOK DEF Written, Values, Blank
<1>2. ASSUME NEW k \in Keys PROVE Loaded(f)[k] \in Values
  <2>1. Loaded(f)[k] = IF k \in NumberKeys
                       THEN IF Text(f, k) \in DOMAIN Number THEN Number[Text(f, k)]
                            ELSE Default[k]
                       ELSE IF Text(f, k) # Blank THEN Text(f, k) ELSE Default[k]
    BY DEF Loaded
  <2>2. \A n \in DOMAIN Number : Number[n] \in Values
    BY ConstantsOK DEF Values
  <2>3. Default[k] \in Values
    BY ConstantsOK
  <2> QED BY <1>1, <2>1, <2>2, <2>3
<1>3. Loaded(f) = [k \in Keys |-> Loaded(f)[k]]
  BY DEF Loaded
<1> QED BY <1>2, <1>3 DEF Held

(* They hold at the start. *)
LEMMA InitServer == Init => ServerInv
<1> SUFFICES ASSUME Init PROVE ServerInv
  OBVIOUS
<1>1. cfg \in Held /\ Written(env)
  BY ConstantsOK, LoadedHeld DEF Init, Written
<1>2. MaxPosts \in Nat
  BY ConstantsOK
<1> QED BY <1>1, <1>2 DEF Init, ServerInv, ServerTyped, SecretsApart

(* Lines replaced by others. *)
LEMMA MergedWritten ==
    ASSUME NEW f, NEW g, Written(f), Written(g)
    PROVE  Written(Overlay(f, g))
BY DEF Written, Overlay

(* A configuration some of whose values are replaced. *)
LEMMA AppliedHeld ==
    ASSUME NEW f, cfg \in Held, Written(f)
    PROVE  Applied(f) \in Held
<1>1. \A n \in DOMAIN Number : Number[n] \in Values
  BY ConstantsOK DEF Values
<1>2. \A k \in Keys : Applied(f)[k] \in Values
  BY <1>1 DEF Written, Held, Applied
<1>3. Applied(f) = [k \in Keys |-> Applied(f)[k]]
  BY DEF Applied
<1> QED BY <1>2, <1>3 DEF Held

(* Every call is a call there was, or is one just sent. *)
CallsFrom ==
    /\ posts' \in 0..MaxPosts /\ posts <= posts'
    /\ \A d \in calls' : /\ CallTyped(d, begins')
                         /\ IsRotation(d) => \/ d.id = posts + 1
                                             \/ \E c \in calls : IsRotation(c) /\ c.id = d.id

(* Such a step keeps the secrets apart while the rows stay. *)
LEMMA RowsStay ==
    ASSUME CallsOK, ServerInv, CallsFrom, UNCHANGED rows,
           up' \in BOOLEAN, cfg' \in Held, Written(env'), begins' \in Nat,
           mishaps' \subseteq {"rotate", "save", "lost"}, unapplied' \subseteq LineKeys,
           over' \subseteq 1..MaxPosts
    PROVE  ServerInv'
<1>1. ServerTyped'
  <2>1. \A r \in rows' : r.begun \in Nat \ {0} /\ r.secret \in -1..9 + posts'
    BY DEF ServerInv, ServerTyped, CallsFrom, CallsOK
  <2> QED BY <2>1 DEF ServerTyped, CallsFrom
<1>2. SecretsApart'
  <2>1. ASSUME NEW d \in calls', IsRotation(d), NEW r \in rows'
        PROVE  r.secret # 9 + d.id
    BY <2>1 DEF ServerInv, ServerTyped, SecretsApart, CallsFrom, NewSecret, CallsOK
  <2> QED BY <2>1 DEF ServerInv, SecretsApart, NewSecret
<1> QED BY <1>1, <1>2 DEF ServerInv

(* A call that moves: what has to be known of its next stage. *)
LEMMA MovedFrom ==
    ASSUME CallsOK, ServerInv, NEW c \in calls, NEW d, Move(c, d), UNCHANGED posts,
           begins' \in Nat, begins <= begins', CallTyped(d, begins'),
           IsRotation(d) => IsRotation(c) /\ c.id = d.id
    PROVE  CallsFrom
<1>1. ASSUME NEW e \in calls PROVE CallTyped(e, begins')
  BY DEF ServerInv, ServerTyped, CallTyped
<1> QED BY <1>1 DEF CallsFrom, Move, InFlight, ServerInv, ServerTyped

(* Windows end. *)
LEMMA WindowEndsServer == Inv /\ ServerInv /\ WindowEnds => ServerInv'
<1> SUFFICES ASSUME Inv, ServerInv, WindowEnds PROVE ServerInv'
  OBVIOUS
<1>1. over' \subseteq 1..MaxPosts
  <2>1. \A r \in rows : r.until # 0 => r.until \in 1..MaxPosts
    BY ConstantsOK DEF Inv, RowsOK, ServerInv, ServerTyped
  <2> QED BY <2>1 DEF WindowEnds, ActiveRows, ServerInv, ServerTyped
<1>2. CallsFrom
  BY DEF CallsFrom, ServerInv, ServerTyped, WindowEnds, browser
<1> QED BY <1>1, <1>2, RowsStay DEF WindowEnds, Inv, ServerInv, ServerTyped, browser

(* A rotation reads what it goes by. *)
LEMMA CountServer ==
    ASSUME Inv, ServerInv, NEW c \in calls, CountActive(c) PROVE ServerInv'
<1> DEFINE d == Counted(c)
<1>1. Move(c, d) /\ begins' = begins + 1 /\ UNCHANGED <<up, cfg, env, unapplied, rows, over, posts>>
      /\ mishaps' \subseteq mishaps \cup {"rotate"}
  BY DEF CountActive, browser
<1>2. IsRotation(c)
  BY DEF CountActive, Inv, CallsOK, WellFormed, IsOver, IsSave
<1>3. /\ IsRotation(d) /\ d.id = c.id /\ d.tab = c.tab /\ d.begun = begins + 1
      /\ d.key = cfg["SECRET_ENCRYPTION_KEY"] /\ d.current = cfg["WEBHOOK_SECRET"]
  BY <1>2, CountedRotation DEF Counted, IsRotation
<1>4. d.key \in Values /\ d.current \in Values
  BY <1>3 DEF ServerInv, ServerTyped, Held, Keys, SecretKeys
<1>5. CallTyped(d, begins') /\ begins' \in Nat /\ begins <= begins'
  BY <1>1, <1>3, <1>4 DEF CallTyped, IsSave, IsRotation, ServerInv, ServerTyped
<1> HIDE DEF d
<1>6. CallsFrom
  BY <1>1, <1>2, <1>3, <1>5, MovedFrom DEF Inv
<1> QED BY <1>1, <1>5, <1>6, RowsStay DEF Inv, ServerInv, ServerTyped


(* A rotation finds the open rows. *)
LEMMA FindOpenServer ==
    ASSUME Inv, ServerInv, NEW c \in calls, FindOpen(c) PROVE ServerInv'
<1> DEFINE d == Found(c)
<1>1. Move(c, d) /\ c.at = "counted" /\ UNCHANGED <<server, posts>>
  BY DEF FindOpen, browser
<1>2. IsRotation(c)
  BY DEF FindOpen, Inv, CallsOK, WellFormed, IsOver, IsSave
<1>3. /\ IsRotation(d) /\ d.id = c.id /\ d.tab = c.tab /\ d.begun = c.begun
      /\ d.key = c.key /\ d.current = c.current
  BY <1>2, FoundRotation DEF Found, IsRotation
<1>4. CallTyped(d, begins')
  BY <1>1, <1>2, <1>3 DEF CallTyped, IsSave, IsRotation, ServerInv, ServerTyped, server
<1> HIDE DEF d
<1>5. CallsFrom
  BY <1>1, <1>2, <1>3, <1>4, MovedFrom DEF Inv, ServerInv, ServerTyped, server
<1> QED BY <1>1, <1>5, RowsStay DEF Inv, ServerInv, ServerTyped, server

(* The rows after a commit: those before, some with a window, and the new one, and for a
   first rotation the one of the configured secret. *)
LEMMA RowsCommitted ==
    ASSUME Inv, ServerInv, NEW c \in calls, CommitRotation(c)
    PROVE  /\ IsRotation(c) /\ c.id \in 1..posts /\ c.begun \in Nat \ {0}
           /\ c.current \in Values
           /\ \A r \in rows' :
                \/ /\ r.secret = NewSecret(c) /\ r.until = 0 /\ r = NewRow(c)
                   /\ r.begun = c.begun
                \/ r.secret \in Values /\ r.until = c.id /\ r.begun = c.begun
                \/ \E q \in rows : /\ r.secret = q.secret /\ r.begun = q.begun
                                   /\ r.until \in {q.until, c.id}
           /\ \A r, q \in rows' : r.secret > 9 /\ r.secret = q.secret => r = q
<1>1. /\ IsRotation(c) /\ c.id \in 1..posts /\ c.kind = "rotate"
      /\ c.at \in {"counted", "found"}
  BY CommittedRows DEF CommitRotation
<1>2. c.begun \in Nat \ {0} /\ c.current \in Values
  <2>1. CallTyped(c, begins) /\ begins \in Nat
    BY DEF ServerInv, ServerTyped
  <2> QED BY <1>1, <2>1 DEF CallTyped
<1>3. NewRow(c) = [secret |-> NewSecret(c), key |-> c.key, begun |-> c.begun, until |-> 0]
  BY DEF NewRow, Row
<1>4. \A r \in rows : r.secret \in Int /\ r.secret # NewSecret(c)
  BY <1>1 DEF ServerInv, ServerTyped, SecretsApart
<1>5. NewSecret(c) > 9
  BY <1>1 DEF NewSecret
<1>6. \A r, q \in rows : r.secret > 9 /\ r.secret = q.secret => r = q
  BY DEF ServerInv, SecretsApart
<1>7. CASE c.first
  <2> DEFINE p == Row(c, c.current, c.id)
  <2>1. p = [secret |-> c.current, key |-> c.key, begun |-> c.begun, until |-> c.id]
    BY DEF Row
  <2>2. rows' = rows \cup {p, NewRow(c)}
    BY <1>7 DEF CommitRotation, Closing
  <2> HIDE DEF p
  <2>3. p.secret \in Values /\ p.until = c.id /\ p.begun = c.begun
    BY <1>2, <2>1
  <2> QED BY <1>1, <1>2, <1>3, <1>4, <1>5, <1>6, <2>2, <2>3 DEF Values
<1>8. CASE ~c.first
  <2> DEFINE Closed(r) == IF r \in c.found THEN [r EXCEPT !.until = c.id] ELSE r
  <2>1. rows' = {Closed(r) : r \in rows} \cup {NewRow(c)}
    BY <1>8 DEF CommitRotation, Closing
  <2>2. \A r \in rows : /\ Closed(r).secret = r.secret /\ Closed(r).begun = r.begun
                        /\ Closed(r).until \in {r.until, c.id}
    BY DEF Inv, RowsOK
  <2> HIDE DEF Closed
  <2> QED BY <1>1, <1>2, <1>3, <1>4, <1>5, <1>6, <2>1, <2>2
<1> QED BY <1>7, <1>8

(* A commit: the rotation is over, and its secret is in one row. *)
LEMMA CommitServer ==
    ASSUME Inv, ServerInv, NEW c \in calls, CommitRotation(c) PROVE ServerInv'
<1> DEFINE d == Ended(c, "ok")
<1>1. Move(c, d) /\ UNCHANGED <<up, cfg, env, unapplied, over, begins, mishaps, posts>>
  BY DEF CommitRotation, End, browser
<1>2. IsOver(d) /\ d.tab = c.tab
  BY RowsCommitted DEF Ended, IsOver, IsRotation
<1>3. CallTyped(d, begins')
  BY <1>1, <1>2 DEF CallTyped, IsSave, IsRotation, IsOver, ServerInv, ServerTyped
<1> HIDE DEF d
<1>4. \A e \in calls' : /\ CallTyped(e, begins')
                        /\ IsRotation(e) => e \in calls /\ e.id # c.id
  BY <1>1, <1>2, <1>3 DEF Move, InFlight, IsOver, IsRotation, Inv, CallsOK, ServerInv,
                          ServerTyped
<1>5. ServerTyped'
  <2>1. \A r \in rows' : r.begun \in Nat \ {0} /\ r.secret \in -1..9 + posts
    BY RowsCommitted DEF ServerInv, ServerTyped, NewSecret, Inv, CallsOK, Values
  <2> QED BY <1>1, <1>4, <2>1 DEF ServerInv, ServerTyped
<1>6. SecretsApart'
  <2>1. \A r \in rows' : r.until = 0 => r.secret > 9
    BY RowsCommitted DEF NewSecret, ServerInv, SecretsApart
  <2>2. ASSUME NEW e \in calls', IsRotation(e), NEW r \in rows'
        PROVE  r.secret # NewSecret(e)
    <3>1. e \in calls /\ e.id # c.id /\ e.id \in 1..posts
      BY <1>4, <2>2 DEF Inv, CallsOK
    <3>2. \A q \in rows : q.secret # NewSecret(e)
      BY <2>2, <3>1 DEF ServerInv, SecretsApart
    <3>3. NewSecret(e) > 9 /\ NewSecret(e) # NewSecret(c)
      BY <3>1, RowsCommitted DEF NewSecret
    <3> QED BY <3>2, <3>3, RowsCommitted DEF Values
  <2>3. \A e \in calls' : NewSecret(e)' = NewSecret(e)
    BY DEF NewSecret
  <2> QED BY <2>1, <2>2, <2>3, RowsCommitted DEF SecretsApart
<1> QED BY <1>5, <1>6 DEF ServerInv


(* A save moves to its next stage. *)
LEMMA SaveStageServer ==
    ASSUME Inv, ServerInv, NEW c \in calls, NEW d, Move(c, d), c.kind = "save",
           IsSave(c) => /\ IsSave(d) /\ d.tab = c.tab /\ d.payload = c.payload
                        /\ d.allowed = c.allowed /\ Written(d.base),
           c.at \notin {"ok", "failed"},
           UNCHANGED <<up, cfg, unapplied, rows, over, begins, posts>>, Written(env'),
           mishaps' \subseteq {"rotate", "save", "lost"}
    PROVE  ServerInv'
<1>1. IsSave(c)
  BY DEF Inv, CallsOK, WellFormed, IsOver, IsRotation
<1>2. CallTyped(d, begins') /\ ~IsRotation(d)
  BY <1>1 DEF ServerInv, ServerTyped, CallTyped, IsSave, IsRotation
<1>3. CallsFrom
  BY <1>2, MovedFrom DEF Inv, ServerInv, ServerTyped
<1> QED BY <1>3, RowsStay DEF Inv, ServerInv, ServerTyped

(* A save reads .env. *)
LEMMA ReadEnvServer ==
    ASSUME Inv, ServerInv, NEW c \in calls, ReadEnv(c) PROVE ServerInv'
<1>1. PICK f \in {env, Nothing} : Move(c, Reading(c, f))
  BY DEF ReadEnv
<1> DEFINE d == Reading(c, f)
<1>2. /\ Move(c, d) /\ c.kind = "save" /\ c.at = "sent"
      /\ UNCHANGED <<up, cfg, env, unapplied, rows, over, begins, posts>>
      /\ mishaps' \subseteq mishaps \cup {"save", "lost"}
  BY <1>1 DEF ReadEnv, browser
<1>3. Written(env) /\ Written(f)
  BY DEF ServerInv, ServerTyped, Written, Nothing
<1>4. IsSave(c) => /\ IsSave(d) /\ d.tab = c.tab /\ d.payload = c.payload
                   /\ d.allowed = c.allowed /\ Written(d.base)
  BY <1>3, ReadSave
<1> HIDE DEF d
<1>5. mishaps' \subseteq {"rotate", "save", "lost"} /\ Written(env')
  BY <1>2, <1>3 DEF ServerInv, ServerTyped
<1> QED BY <1>2, <1>4, <1>5, SaveStageServer

(* A save empties the file or writes it: what it writes are lines. *)
LEMMA WriteServer ==
    ASSUME Inv, ServerInv, NEW c \in calls, Truncate(c) \/ WriteEnv(c) PROVE ServerInv'
<1>1. PICK at \in {"truncated", "written"} :
        /\ To(c, at) /\ c.kind = "save" /\ c.at \notin {"ok", "failed"}
        /\ UNCHANGED <<up, cfg, unapplied, rows, over, begins, mishaps, posts>>
        /\ env' \in {Nothing, Merged(c)}
  BY DEF Truncate, WriteEnv, browser
<1> DEFINE d == [c EXCEPT !.at = at]
<1>2. Move(c, d)
  BY <1>1 DEF To
<1>3. IsSave(c) /\ Written(c.base) /\ Written(c.payload)
  BY <1>1 DEF Inv, CallsOK, WellFormed, IsOver, IsRotation, ServerInv, ServerTyped, CallTyped
<1>4. /\ IsSave(d) /\ d.tab = c.tab /\ d.payload = c.payload
      /\ d.allowed = c.allowed /\ Written(d.base)
  <2>1. IsSave(d) /\ d.payload = c.payload /\ d.base = c.base
    BY <1>3, MovedSave
  <2>2. d.tab = c.tab /\ d.allowed = c.allowed
    BY <1>3 DEF IsSave
  <2> QED BY <1>3, <2>1, <2>2
<1> HIDE DEF d
<1>5. Written(env')
  <2>1. Written(Nothing)
    BY DEF Written, Nothing
  <2> QED BY <1>1, <1>3, <2>1, MergedWritten DEF Merged
<1>6. mishaps' \subseteq {"rotate", "save", "lost"}
  BY <1>1 DEF ServerInv, ServerTyped
<1> QED BY <1>1, <1>2, <1>4, <1>5, <1>6, SaveStageServer

(* A call that ends leaves its number, its kind and its tab. *)
LEMMA EndServer ==
    ASSUME Inv, ServerInv, NEW c \in calls, NEW at \in {"ok", "failed"}, End(c, at),
           UNCHANGED <<up, env, unapplied, rows, over, begins, posts>>, cfg' \in Held,
           mishaps' \subseteq mishaps \cup {"lost"}
    PROVE  ServerInv'
<1> DEFINE d == Ended(c, at)
<1>1. Move(c, d)
  BY DEF End
<1>2. d.tab = c.tab /\ ~IsSave(d) /\ ~IsRotation(d)
  BY DEF Ended, IsSave, IsRotation
<1>3. CallTyped(d, begins')
  BY <1>2 DEF CallTyped, ServerInv, ServerTyped
<1> HIDE DEF d
<1>4. CallsFrom
  BY <1>1, <1>2, <1>3, MovedFrom DEF Inv, ServerInv, ServerTyped
<1> QED BY <1>4, RowsStay DEF Inv, ServerInv, ServerTyped

(* A save is over, or any call is refused. *)
LEMMA OverServer ==
    ASSUME Inv, ServerInv, NEW c \in calls, ApplyConfig(c) \/ WriteFails(c) \/ Refuse(c)
    PROVE  ServerInv'
<1>1. CASE ApplyConfig(c)
  <2>1. Written(c.payload)
    BY <1>1 DEF ApplyConfig, Inv, CallsOK, WellFormed, IsOver, IsRotation, ServerInv,
                ServerTyped, CallTyped
  <2>2. Applied(c.payload) \in Held
    BY <2>1, AppliedHeld DEF ServerInv, ServerTyped
  <2> QED BY <1>1, <2>2, EndServer DEF ApplyConfig, browser
<1>2. CASE Refuse(c)
  BY <1>2, EndServer DEF Refuse, browser, server, ServerInv, ServerTyped
<1>3. CASE WriteFails(c)
  BY <1>3, EndServer DEF WriteFails, browser, ServerInv, ServerTyped
<1> QED BY <1>1, <1>2, <1>3

(* A crash ends every call. *)
LEMMA CrashServer == Inv /\ ServerInv /\ Crash => ServerInv'
<1> SUFFICES ASSUME Inv, ServerInv, Crash PROVE ServerInv'
  OBVIOUS
<1>1. ASSUME NEW c \in calls
      PROVE  CallTyped(Ended(c, "failed"), begins) /\ ~IsRotation(Ended(c, "failed"))
  BY DEF CallTyped, Ended, IsSave, IsRotation, ServerInv, ServerTyped
<1>2. /\ UNCHANGED <<cfg, env, rows, over, begins, posts>> /\ up' = FALSE
      /\ \A d \in calls' : \E c \in calls : d = Ended(c, "failed")
      /\ mishaps' \subseteq mishaps \cup {"lost"}
  BY DEF Crash, InFlight, browser
<1>3. unapplied' \subseteq LineKeys
  <2> DEFINE met == {s \in Saves : s.at = "written"}
  <2>1. unapplied' = UNION {DOMAIN c.payload : c \in met}
    BY DEF Crash
  <2>2. \A c \in met : DOMAIN c.payload \subseteq LineKeys
    <3> SUFFICES ASSUME NEW c \in met PROVE DOMAIN c.payload \subseteq LineKeys
      OBVIOUS
    <3>1. c \in calls /\ c.kind = "save" /\ c.at = "written"
      BY DEF Saves
    <3>2. IsSave(c)
      BY <3>1 DEF Inv, CallsOK, WellFormed, IsOver, IsRotation
    <3> QED BY <3>1, <3>2 DEF ServerInv, ServerTyped, CallTyped, Written
  <2> HIDE DEF met
  <2> QED BY <2>1, <2>2
<1>4. CallsFrom
  BY <1>1, <1>2 DEF CallsFrom, ServerInv, ServerTyped
<1>5. /\ up' \in BOOLEAN /\ cfg' \in Held /\ Written(env') /\ begins' \in Nat
      /\ mishaps' \subseteq {"rotate", "save", "lost"} /\ over' \subseteq 1..MaxPosts
  BY <1>2 DEF ServerInv, ServerTyped
<1>6. UNCHANGED rows /\ CallsOK
  BY <1>2 DEF Inv
<1> QED BY <1>3, <1>4, <1>5, <1>6, RowsStay

(* .env is loaded. *)
LEMMA StartServer == Inv /\ ServerInv /\ Start => ServerInv'
<1> SUFFICES ASSUME Inv, ServerInv, Start PROVE ServerInv'
  OBVIOUS
<1>1. cfg' \in Held
  BY LoadedHeld DEF Start, ServerInv, ServerTyped
<1>2. CallsFrom
  BY DEF CallsFrom, ServerInv, ServerTyped, Start, browser
<1> QED BY <1>1, <1>2, RowsStay DEF Inv, ServerInv, ServerTyped, Start, browser

(* Without its tab a call carries what it carried. *)
LEMMA AbandonedTyped ==
    ASSUME NEW c, WellFormed(c), CallTyped(c, begins)
    PROVE  LET d == [c EXCEPT !.tab = NoTab]
           IN  CallTyped(d, begins) /\ (IsRotation(d) => IsRotation(c) /\ d.id = c.id)
<1> DEFINE d == [c EXCEPT !.tab = NoTab]
<1>1. d.tab \in TabOrNone
  BY DEF TabOrNone, WellFormed, IsOver, IsSave, IsRotation
<1>2. CASE IsOver(c)
  <2>1. ~IsSave(d) /\ ~IsRotation(d)
    BY <1>2 DEF IsOver, IsSave, IsRotation
  <2> QED BY <1>1, <2>1 DEF CallTyped
<1>3. CASE IsSave(c)
  <2>1. d.payload = c.payload /\ d.base = c.base /\ d.allowed = c.allowed /\ ~IsRotation(d)
    BY <1>3 DEF IsSave, IsRotation
  <2> QED BY <1>1, <1>3, <2>1 DEF CallTyped
<1>4. CASE IsRotation(c)
  <2>1. /\ d.begun = c.begun /\ d.key = c.key /\ d.current = c.current /\ d.at = c.at
        /\ d.id = c.id /\ ~IsSave(d)
    BY <1>4 DEF IsSave, IsRotation
  <2> QED BY <1>1, <1>4, <2>1 DEF CallTyped
<1> QED BY <1>2, <1>3, <1>4 DEF WellFormed

(* A page is left, an answer arrives or a connection is lost: the calls go on. *)
LEMMA LeaveServer ==
    ASSUME Inv, ServerInv, UNCHANGED <<server, posts>>,
           \A d \in calls' : d \in calls \/ \E c \in calls : d = [c EXCEPT !.tab = NoTab]
    PROVE  ServerInv'
<1>1. ASSUME NEW d \in calls'
      PROVE  /\ CallTyped(d, begins)
             /\ IsRotation(d) => \E c \in calls : IsRotation(c) /\ c.id = d.id
  <2>1. CASE d \in calls
    BY <2>1 DEF ServerInv, ServerTyped
  <2>2. ASSUME NEW c \in calls, d = [c EXCEPT !.tab = NoTab]
        PROVE  CallTyped(d, begins) /\ (IsRotation(d) => IsRotation(c) /\ c.id = d.id)
    BY <2>2, AbandonedTyped DEF Inv, CallsOK, ServerInv, ServerTyped
  <2> QED BY <2>1, <2>2
<1>2. CallsFrom
  BY <1>1 DEF CallsFrom, ServerInv, ServerTyped, server
<1> QED BY <1>2, RowsStay DEF Inv, ServerInv, ServerTyped, server

(* A call is sent. *)
LEMMA SendServer ==
    ASSUME Inv, ServerInv, NEW d, calls' = calls \cup {d}, posts < MaxPosts,
           posts' = posts + 1, CallTyped(d, begins), d.id = posts + 1, UNCHANGED server
    PROVE  ServerInv'
<1>1. CallsFrom
  BY ConstantsOK DEF CallsFrom, ServerInv, ServerTyped, server
<1> QED BY <1>1, RowsStay DEF Inv, ServerInv, ServerTyped, server


-------------------------------------------------------------------------------
(* What the pages hold.                                                    *)

(* What is shown, and what the inputs hold: a secret is shown as blank, and an input for
   it may stay so. *)
Shows  == {f \in [Keys -> Values] : \A k \in Keys \ PlainKeys : f[k] = Blank}
Inputs == [Keys -> Values]

(* A rotation is active only while two secrets are accepted, or a row is skipped. *)
ReadStates == {s \in Status : s.active => s.both}

View == [page : Pages, loading : BOOLEAN, config : Shows \cup {Nothing}, status : ReadStates,
         configRead : {None, Asked} \cup {Got(f) : f \in Shows},
         statusRead : {None, Asked} \cup {Got(s) : s \in ReadStates},
         editing : BOOLEAN, edited : Inputs \cup {Nothing}, saving : BOOLEAN,
         form : BOOLEAN, rotating : BOOLEAN, touched : SUBSET Keys, crossed : BOOLEAN]

(* Nothing is edited or sent by a page that loads, and an input that was not typed over
   holds what is shown, unless Edit was pressed while that was read again. *)
PageInv(v) ==
    /\ v \in View
    /\ v.loading => ~v.editing /\ ~v.saving /\ ~v.rotating /\ ~v.form
    /\ v.configRead # None => v.loading \/ v.saving
    /\ v.statusRead # None => v.loading \/ v.rotating
    /\ v.saving => v.config \in Shows
    /\ v.editing => DOMAIN v.edited = DOMAIN v.config
    /\ v.editing /\ ~v.crossed =>
          /\ v.configRead = None
          /\ \A k \in DOMAIN v.config \ v.touched : v.edited[k] = v.config[k]

(* A page waits for the answer to its call and has not begun to read again. *)
Awaited(c, v) ==
    /\ c.kind = "save"   => v.saving /\ v.configRead = None
    /\ c.kind = "rotate" => v.rotating /\ v.statusRead = None

PagesInv ==
    /\ view = [t \in Tabs |-> view[t]]
    /\ \A t \in Tabs : PageInv(view[t])
    /\ \A c \in calls : c.tab \in Tabs => Awaited(c, view[c.tab])
    /\ \A c, d \in calls : c.tab \in Tabs /\ c.tab = d.tab /\ c.kind = d.kind => c = d

(* What is shown without an answer is nothing. *)
LEMMA NothingTyped ==
    /\ Nothing \in Shows \cup {Nothing} /\ Nothing \in Inputs \cup {Nothing}
    /\ DOMAIN Nothing = {} /\ NoStatus \in ReadStates
BY DEF Nothing, NoStatus, ReadStates, Status

(* The states of a read are apart. *)
LEMMA ReadsApart ==
    /\ None # Asked /\ None.sort = "none" /\ Asked.sort = "asked"
    /\ \A x : Got(x).sort = "got" /\ Got(x).value = x /\ Got(x) # None /\ Got(x) # Asked
<1>1. None.sort = "none" /\ Asked.sort = "asked"
  BY DEF None, Asked
<1>2. ASSUME NEW x PROVE Got(x).sort = "got" /\ Got(x).value = x
  BY DEF Got
<1> QED BY <1>1, <1>2

(* A page just mounted. *)
LEMMA MountedOK == ASSUME NEW page \in Pages PROVE PageInv(Mounted(page))
<1> DEFINE v == Mounted(page)
<1>1. /\ v = [page |-> page, loading |-> TRUE, config |-> Nothing, status |-> NoStatus,
              configRead |-> Asked, statusRead |-> Asked, editing |-> FALSE,
              edited |-> Nothing, saving |-> FALSE, form |-> FALSE, rotating |-> FALSE,
              touched |-> {}, crossed |-> FALSE]
  BY DEF Mounted
<1> HIDE DEF v
<1>2. v \in View
  BY <1>1, NothingTyped DEF View
<1>3. v.loading /\ ~v.editing /\ ~v.saving /\ ~v.rotating /\ ~v.form
  BY <1>1
<1> QED BY <1>2, <1>3 DEF PageInv, v

(* Every page is one just mounted at the start. *)
LEMMA InitPages == Init => PagesInv
<1> SUFFICES ASSUME Init PROVE PagesInv
  OBVIOUS
<1>1. \A t \in Tabs : view[t] = Mounted(Landing[t]) /\ Landing[t] \in Pages
  BY ConstantsOK DEF Init
<1>2. view = [t \in Tabs |-> view[t]] /\ calls = {}
  BY <1>1 DEF Init
<1> QED BY <1>1, <1>2, MountedOK DEF PagesInv

(* A page changes, and still waits for its calls. *)
LEMMA PageStep ==
    ASSUME PagesInv, NEW t \in Tabs, NEW w, view' = [view EXCEPT ![t] = w], PageInv(w),
           UNCHANGED calls, \A c \in calls : c.tab = t => Awaited(c, w)
    PROVE  PagesInv'
<1>1. \A u \in Tabs : view'[u] = IF u = t THEN w ELSE view[u]
  BY DEF PagesInv
<1>2. view' = [u \in Tabs |-> view'[u]]
  BY DEF PagesInv
<1>3. \A u \in Tabs : PageInv(view[u])'
  BY <1>1 DEF PagesInv, PageInv
<1>4. \A c \in calls : c.tab \in Tabs => Awaited(c, view'[c.tab])
  BY <1>1 DEF PagesInv
<1> QED BY <1>2, <1>3, <1>4 DEF PagesInv, Awaited

(* What is shown of a configuration. *)
LEMMA ShownTyped == ASSUME NEW f \in Held PROVE Shown(f) \in Shows
BY DEF Held, Shown, Shows, Values, Blank

(* The configuration is read. *)
LEMMA ReadConfigPages ==
    ASSUME ServerInv, PagesInv, NEW t \in Tabs, ReadConfig(t) PROVE PagesInv'
<1> DEFINE v == view[t]
           w == [v EXCEPT !.configRead = Got(Shown(cfg))]
<1>1. /\ view' = [view EXCEPT ![t] = w] /\ v.configRead = Asked /\ UNCHANGED calls
      /\ PageInv(v)
  BY DEF ReadConfig, PagesInv
<1>2. Shown(cfg) \in Shows
  BY ShownTyped DEF ServerInv, ServerTyped
<1>3. \A c \in calls : c.tab = t => Awaited(c, v)
  BY DEF PagesInv
<1> HIDE DEF v
<1>4. w \in View /\ w = [v EXCEPT !.configRead = Got(Shown(cfg))]
  BY <1>1, <1>2 DEF PageInv, View
<1>5. /\ w.page = v.page /\ w.loading = v.loading /\ w.config = v.config
      /\ w.status = v.status /\ w.configRead = Got(Shown(cfg))
      /\ w.statusRead = v.statusRead /\ w.editing = v.editing /\ w.edited = v.edited
      /\ w.saving = v.saving /\ w.form = v.form /\ w.rotating = v.rotating
      /\ w.touched = v.touched /\ w.crossed = v.crossed
  BY <1>1 DEF PageInv, View
<1> HIDE DEF w
<1>6. PageInv(w)
  BY <1>1, <1>4, <1>5, ReadsApart DEF PageInv
<1>7. \A c \in calls : c.tab = t => Awaited(c, w)
  BY <1>1, <1>3, <1>5, ReadsApart DEF Awaited
<1> QED BY <1>1, <1>6, <1>7, PageStep


(* Both answers are there. *)
LEMMA LoadDonePages ==
    ASSUME PagesInv, NEW t \in Tabs, LoadDone(t) PROVE PagesInv'
<1> DEFINE v == view[t]
           w == [v EXCEPT !.loading = FALSE, !.config = v.configRead.value,
                           !.status = v.statusRead.value, !.configRead = None,
                           !.statusRead = None]
<1>1. /\ view' = [view EXCEPT ![t] = w] /\ UNCHANGED calls /\ PageInv(v)
      /\ v.loading /\ v.configRead.sort = "got" /\ v.statusRead.sort = "got"
  BY DEF LoadDone, PagesInv
<1>2. \A c \in calls : c.tab = t => Awaited(c, v)
  BY DEF PagesInv
<1>3. v.configRead.value \in Shows /\ v.statusRead.value \in ReadStates
  <2>1. v.configRead \in {Got(f) : f \in Shows} /\ v.statusRead \in {Got(s) : s \in ReadStates}
    BY <1>1, ReadsApart DEF PageInv, View
  <2> QED BY <2>1, ReadsApart
<1> HIDE DEF v
<1>4. /\ w \in View
      /\ w.page = v.page /\ w.loading = FALSE /\ w.config = v.configRead.value
      /\ w.status = v.statusRead.value /\ w.configRead = None /\ w.statusRead = None
      /\ w.editing = v.editing /\ w.edited = v.edited /\ w.saving = v.saving
      /\ w.form = v.form /\ w.rotating = v.rotating /\ w.touched = v.touched
      /\ w.crossed = v.crossed
  BY <1>1, <1>3 DEF PageInv, View
<1> HIDE DEF w
<1>5. PageInv(w)
  BY <1>1, <1>4, ReadsApart DEF PageInv
<1>6. \A c \in calls : c.tab = t => Awaited(c, w)
  BY <1>1, <1>2, <1>4, ReadsApart DEF Awaited, PageInv
<1> QED BY <1>1, <1>5, <1>6, PageStep

(* One of them is not. *)
LEMMA LoadFailedPages ==
    ASSUME PagesInv, NEW t \in Tabs, LoadFailed(t) PROVE PagesInv'
<1> DEFINE v == view[t]
           w == [v EXCEPT !.loading = FALSE, !.configRead = None, !.statusRead = None]
<1>1. /\ view' = [view EXCEPT ![t] = w] /\ UNCHANGED calls /\ PageInv(v)
      /\ v.loading
  BY DEF LoadFailed, PagesInv
<1>2. \A c \in calls : c.tab = t => Awaited(c, v)
  BY DEF PagesInv
<1> HIDE DEF v
<1>4. /\ w \in View
      /\ w.page = v.page /\ w.loading = FALSE /\ w.config = v.config /\ w.status = v.status
      /\ w.configRead = None /\ w.statusRead = None /\ w.editing = v.editing
      /\ w.edited = v.edited /\ w.saving = v.saving /\ w.form = v.form
      /\ w.rotating = v.rotating /\ w.touched = v.touched /\ w.crossed = v.crossed
  BY <1>1 DEF PageInv, View
<1> HIDE DEF w
<1>5. PageInv(w)
  BY <1>1, <1>4, ReadsApart DEF PageInv
<1>6. \A c \in calls : c.tab = t => Awaited(c, w)
  BY <1>1, <1>2, <1>4, ReadsApart DEF Awaited, PageInv
<1> QED BY <1>1, <1>5, <1>6, PageStep

(* The inputs start with what is shown. *)
LEMMA EditPages ==
    ASSUME PagesInv, NEW t \in Tabs, Edit(t) PROVE PagesInv'
<1> DEFINE v == view[t]
           w == [v EXCEPT !.editing = TRUE, !.edited = v.config, !.crossed = v.configRead # None]
<1>1. /\ view' = [view EXCEPT ![t] = w] /\ UNCHANGED calls /\ PageInv(v)
      /\ ~v.loading /\ ~v.editing
  BY DEF Edit, PagesInv
<1>2. \A c \in calls : c.tab = t => Awaited(c, v)
  BY DEF PagesInv
<1>3. v.config \in Inputs \cup {Nothing} /\ (v.configRead # None) \in BOOLEAN
  <2>1. Shows \subseteq Inputs
    BY ConstantsOK DEF Shows, Inputs, Keys
  <2> QED BY <1>1, <2>1 DEF PageInv, View
<1> HIDE DEF v
<1>4. /\ w \in View
      /\ w.page = v.page /\ w.loading = v.loading /\ w.config = v.config
      /\ w.status = v.status /\ w.configRead = v.configRead /\ w.statusRead = v.statusRead
      /\ w.editing = TRUE /\ w.edited = v.config /\ w.saving = v.saving /\ w.form = v.form
      /\ w.rotating = v.rotating /\ w.touched = v.touched /\ w.crossed = (v.configRead # None)
  BY <1>1, <1>3 DEF PageInv, View
<1> HIDE DEF w
<1>5. PageInv(w)
  BY <1>1, <1>4, ReadsApart DEF PageInv
<1>6. \A c \in calls : c.tab = t => Awaited(c, w)
  BY <1>1, <1>2, <1>4, ReadsApart DEF Awaited, PageInv
<1> QED BY <1>1, <1>5, <1>6, PageStep

(* The configuration has been read again. *)
LEMMA ConfigRefreshedPages ==
    ASSUME PagesInv, NEW t \in Tabs, ConfigRefreshed(t) PROVE PagesInv'
<1> DEFINE v == view[t]
           w == [v EXCEPT !.saving = FALSE, !.configRead = None, !.config = v.configRead.value]
<1>1. /\ view' = [view EXCEPT ![t] = w] /\ UNCHANGED calls /\ PageInv(v)
      /\ v.saving /\ v.configRead.sort = "got"
  BY DEF ConfigRefreshed, PagesInv
<1>2. \A c \in calls : c.tab = t => Awaited(c, v)
  BY DEF PagesInv
<1>3. v.configRead \in {Got(f) : f \in Shows} /\ v.configRead.value \in Shows
  BY <1>1, ReadsApart DEF PageInv, View
<1>7. DOMAIN v.config = DOMAIN v.configRead.value
  BY <1>1, <1>3 DEF PageInv, Shows
<1> HIDE DEF v
<1>4. /\ w \in View
      /\ w.page = v.page /\ w.loading = v.loading /\ w.config = v.configRead.value
      /\ w.status = v.status /\ w.configRead = None /\ w.statusRead = v.statusRead
      /\ w.editing = v.editing /\ w.edited = v.edited /\ w.saving = FALSE /\ w.form = v.form
      /\ w.rotating = v.rotating /\ w.touched = v.touched /\ w.crossed = v.crossed
  BY <1>1, <1>3 DEF PageInv, View
<1> HIDE DEF w
<1>5. PageInv(w)
  BY <1>1, <1>4, <1>7, ReadsApart DEF PageInv
<1>6. \A c \in calls : c.tab = t => Awaited(c, w)
  BY <1>1, <1>2, <1>4, ReadsApart DEF Awaited, PageInv
<1> QED BY <1>1, <1>5, <1>6, PageStep

(* It cannot be read. *)
LEMMA RefreshFailedPages ==
    ASSUME PagesInv, NEW t \in Tabs, RefreshFailed(t) PROVE PagesInv'
<1> DEFINE v == view[t]
           w == [v EXCEPT !.saving = FALSE, !.configRead = None]
<1>1. /\ view' = [view EXCEPT ![t] = w] /\ UNCHANGED calls /\ PageInv(v)
      /\ v.saving /\ v.configRead # None
  BY DEF RefreshFailed, PagesInv
<1>2. \A c \in calls : c.tab = t => Awaited(c, v)
  BY DEF PagesInv
<1> HIDE DEF v
<1>4. /\ w \in View
      /\ w.page = v.page /\ w.loading = v.loading /\ w.config = v.config
      /\ w.status = v.status /\ w.configRead = None /\ w.statusRead = v.statusRead
      /\ w.editing = v.editing /\ w.edited = v.edited /\ w.saving = FALSE /\ w.form = v.form
      /\ w.rotating = v.rotating /\ w.touched = v.touched /\ w.crossed = v.crossed
  BY <1>1 DEF PageInv, View
<1> HIDE DEF w
<1>5. PageInv(w)
  BY <1>1, <1>4, ReadsApart DEF PageInv
<1>6. \A c \in calls : c.tab = t => Awaited(c, w)
  BY <1>1, <1>2, <1>4, ReadsApart DEF Awaited, PageInv
<1> QED BY <1>1, <1>5, <1>6, PageStep

(* The form is opened. *)
LEMMA OpenFormPages ==
    ASSUME PagesInv, NEW t \in Tabs, OpenForm(t) PROVE PagesInv'
<1> DEFINE v == view[t]
           w == [v EXCEPT !.form = TRUE]
<1>1. /\ view' = [view EXCEPT ![t] = w] /\ UNCHANGED calls /\ PageInv(v)
      /\ ~v.loading
  BY DEF OpenForm, PagesInv
<1>2. \A c \in calls : c.tab = t => Awaited(c, v)
  BY DEF PagesInv
<1> HIDE DEF v
<1>4. /\ w \in View
      /\ w.page = v.page /\ w.loading = v.loading /\ w.config = v.config
      /\ w.status = v.status /\ w.configRead = v.configRead /\ w.statusRead = v.statusRead
      /\ w.editing = v.editing /\ w.edited = v.edited /\ w.saving = v.saving
      /\ w.form = TRUE /\ w.rotating = v.rotating /\ w.touched = v.touched
      /\ w.crossed = v.crossed
  BY <1>1 DEF PageInv, View
<1> HIDE DEF w
<1>5. PageInv(w)
  BY <1>1, <1>4, ReadsApart DEF PageInv
<1>6. \A c \in calls : c.tab = t => Awaited(c, w)
  BY <1>1, <1>2, <1>4, ReadsApart DEF Awaited, PageInv
<1> QED BY <1>1, <1>5, <1>6, PageStep

(* The form is closed. *)
LEMMA CancelFormPages ==
    ASSUME PagesInv, NEW t \in Tabs, CancelForm(t) PROVE PagesInv'
<1> DEFINE v == view[t]
           w == [v EXCEPT !.form = FALSE]
<1>1. /\ view' = [view EXCEPT ![t] = w] /\ UNCHANGED calls /\ PageInv(v)
      /\ v.form
  BY DEF CancelForm, PagesInv
<1>2. \A c \in calls : c.tab = t => Awaited(c, v)
  BY DEF PagesInv
<1> HIDE DEF v
<1>4. /\ w \in View
      /\ w.page = v.page /\ w.loading = v.loading /\ w.config = v.config
      /\ w.status = v.status /\ w.configRead = v.configRead /\ w.statusRead = v.statusRead
      /\ w.editing = v.editing /\ w.edited = v.edited /\ w.saving = v.saving
      /\ w.form = FALSE /\ w.rotating = v.rotating /\ w.touched = v.touched
      /\ w.crossed = v.crossed
  BY <1>1 DEF PageInv, View
<1> HIDE DEF w
<1>5. PageInv(w)
  BY <1>1, <1>4, ReadsApart DEF PageInv
<1>6. \A c \in calls : c.tab = t => Awaited(c, w)
  BY <1>1, <1>2, <1>4, ReadsApart DEF Awaited, PageInv
<1> QED BY <1>1, <1>5, <1>6, PageStep

(* The status has been read again. *)
LEMMA StatusRefreshedPages ==
    ASSUME PagesInv, NEW t \in Tabs, StatusRefreshed(t) PROVE PagesInv'
<1> DEFINE v == view[t]
           w == [v EXCEPT !.rotating = FALSE, !.statusRead = None, !.status = v.statusRead.value]
<1>1. /\ view' = [view EXCEPT ![t] = w] /\ UNCHANGED calls /\ PageInv(v)
      /\ v.rotating /\ v.statusRead.sort = "got"
  BY DEF StatusRefreshed, PagesInv
<1>2. \A c \in calls : c.tab = t => Awaited(c, v)
  BY DEF PagesInv
<1>3. v.statusRead \in {Got(s) : s \in ReadStates} /\ v.statusRead.value \in ReadStates
  BY <1>1, ReadsApart DEF PageInv, View
<1> HIDE DEF v
<1>4. /\ w \in View
      /\ w.page = v.page /\ w.loading = v.loading /\ w.config = v.config
      /\ w.status = v.statusRead.value /\ w.configRead = v.configRead /\ w.statusRead = None
      /\ w.editing = v.editing /\ w.edited = v.edited /\ w.saving = v.saving
      /\ w.form = v.form /\ w.rotating = FALSE /\ w.touched = v.touched
      /\ w.crossed = v.crossed
  BY <1>1, <1>3 DEF PageInv, View
<1> HIDE DEF w
<1>5. PageInv(w)
  BY <1>1, <1>4, ReadsApart DEF PageInv
<1>6. \A c \in calls : c.tab = t => Awaited(c, w)
  BY <1>1, <1>2, <1>4, ReadsApart DEF Awaited, PageInv
<1> QED BY <1>1, <1>5, <1>6, PageStep

(* It cannot be read. *)
LEMMA StatusFailedPages ==
    ASSUME PagesInv, NEW t \in Tabs, StatusFailed(t) PROVE PagesInv'
<1> DEFINE v == view[t]
           w == [v EXCEPT !.rotating = FALSE, !.statusRead = None]
<1>1. /\ view' = [view EXCEPT ![t] = w] /\ UNCHANGED calls /\ PageInv(v)
      /\ v.rotating /\ v.statusRead # None
  BY DEF StatusFailed, PagesInv
<1>2. \A c \in calls : c.tab = t => Awaited(c, v)
  BY DEF PagesInv
<1> HIDE DEF v
<1>4. /\ w \in View
      /\ w.page = v.page /\ w.loading = v.loading /\ w.config = v.config
      /\ w.status = v.status /\ w.configRead = v.configRead /\ w.statusRead = None
      /\ w.editing = v.editing /\ w.edited = v.edited /\ w.saving = v.saving
      /\ w.form = v.form /\ w.rotating = FALSE /\ w.touched = v.touched
      /\ w.crossed = v.crossed
  BY <1>1 DEF PageInv, View
<1> HIDE DEF w
<1>5. PageInv(w)
  BY <1>1, <1>4, ReadsApart DEF PageInv
<1>6. \A c \in calls : c.tab = t => Awaited(c, w)
  BY <1>1, <1>2, <1>4, ReadsApart DEF Awaited, PageInv
<1> QED BY <1>1, <1>5, <1>6, PageStep


(* The inputs are put away. *)
LEMMA EditedTyped ==
    ASSUME NEW v \in View
    PROVE  LET w == Edited(v)
           IN  /\ w \in View /\ ~w.editing /\ w.loading = v.loading /\ w.config = v.config
               /\ w.status = v.status /\ w.configRead = v.configRead
               /\ w.statusRead = v.statusRead /\ w.saving = v.saving /\ w.form = v.form
               /\ w.rotating = v.rotating
<1> DEFINE w == Edited(v)
<1>1. w = [v EXCEPT !.editing = FALSE, !.edited = Nothing, !.touched = {}, !.crossed = FALSE]
  BY DEF Edited
<1> HIDE DEF w
<1>2. /\ w \in View /\ w.editing = FALSE /\ w.loading = v.loading /\ w.config = v.config
      /\ w.status = v.status /\ w.configRead = v.configRead
      /\ w.statusRead = v.statusRead /\ w.saving = v.saving /\ w.form = v.form
      /\ w.rotating = v.rotating
  BY <1>1 DEF View
<1> QED BY <1>2 DEF w

(* That breaks nothing. *)
LEMMA EditedOK ==
    ASSUME NEW v, PageInv(v)
    PROVE  PageInv(Edited(v)) /\ \A c : Awaited(c, v) => Awaited(c, Edited(v))
<1>1. v \in View
  BY DEF PageInv
<1> QED BY <1>1, EditedTyped DEF PageInv, Awaited

(* Editing is given up. *)
LEMMA CancelEditPages == ASSUME PagesInv, NEW t \in Tabs, CancelEdit(t) PROVE PagesInv'
<1>1. view' = [view EXCEPT ![t] = Edited(view[t])] /\ UNCHANGED calls
  BY DEF CancelEdit
<1>2. PageInv(view[t]) /\ \A c \in calls : c.tab = t => Awaited(c, view[t])
  BY DEF PagesInv
<1> QED BY <1>1, <1>2, EditedOK, PageStep

(* The rotation that is read as active has an open row beside it: both secrets are
   accepted, unless one of the active rows is skipped. *)
LEMMA ActiveIsTrue ==
    ASSUME Inv, ServerInv, NEW r \in rows, WindowRuns(r),
           \A q \in ActiveRows : q.key = cfg["SECRET_ENCRYPTION_KEY"]
    PROVE  \E q, o \in Accepted : q # o
<1>1. PICK q \in rows : q.until = 0
  BY DEF Inv, RowsOK, OpenRows
<1>2. r \in ActiveRows /\ q \in ActiveRows /\ q # r
  BY <1>1 DEF ActiveRows, IsActive, WindowRuns
<1>3. r.secret # q.secret
  BY <1>1, <1>2 DEF ServerInv, SecretsApart
<1>4. r.key \in ValidKeys /\ q.key \in ValidKeys
  BY <1>1 DEF Inv, RowsOK
<1>5. r.secret \in activeSecrets /\ q.secret \in activeSecrets
  BY <1>2, <1>4 DEF activeSecrets
<1> QED BY <1>3, <1>5 DEF Accepted

(* The status is read. *)
LEMMA ReadStatusPages ==
    ASSUME Inv, ServerInv, PagesInv, NEW t \in Tabs, ReadStatus(t) PROVE PagesInv'
<1>1. PICK st \in IF rows = {} THEN {NoStatus} ELSE
                  {[active |-> WindowRuns(r),
                    both |-> \/ \E q \in ActiveRows : q.key # cfg["SECRET_ENCRYPTION_KEY"]
                             \/ \E q, o \in Accepted : q # o]
                     : r \in {q \in rows : \A o \in rows : o.begun <= q.begun}} :
             view' = [view EXCEPT ![t].statusRead = Got(st)]
  BY DEF ReadStatus
<1>2. st \in ReadStates
  <2>1. CASE rows = {}
    BY <1>1, <2>1, NothingTyped
  <2>2. CASE rows # {}
    <3> DEFINE Both == \/ \E q \in ActiveRows : q.key # cfg["SECRET_ENCRYPTION_KEY"]
                       \/ \E q, o \in Accepted : q # o
    <3>1. PICK r \in rows : st = [active |-> WindowRuns(r), both |-> Both]
      BY <1>1, <2>2
    <3>2. WindowRuns(r) => Both
      BY ActiveIsTrue
    <3>3. WindowRuns(r) \in BOOLEAN /\ Both \in BOOLEAN
      BY DEF WindowRuns
    <3> HIDE DEF Both
    <3> QED BY <3>1, <3>2, <3>3 DEF ReadStates, Status
  <2> QED BY <2>1, <2>2
<1> DEFINE v == view[t]
           w == [v EXCEPT !.statusRead = Got(st)]
<1>3. /\ view' = [view EXCEPT ![t] = w] /\ v.statusRead = Asked /\ UNCHANGED calls
      /\ PageInv(v)
  BY <1>1 DEF ReadStatus, PagesInv
<1>4. \A c \in calls : c.tab = t => Awaited(c, v)
  BY DEF PagesInv
<1> HIDE DEF v
<1>5. /\ w \in View
      /\ w.page = v.page /\ w.loading = v.loading /\ w.config = v.config
      /\ w.status = v.status /\ w.configRead = v.configRead
      /\ w.statusRead = Got(st) /\ w.editing = v.editing /\ w.edited = v.edited
      /\ w.saving = v.saving /\ w.form = v.form /\ w.rotating = v.rotating
      /\ w.touched = v.touched /\ w.crossed = v.crossed
  BY <1>2, <1>3 DEF PageInv, View
<1> HIDE DEF w
<1>6. PageInv(w)
  BY <1>3, <1>5, ReadsApart DEF PageInv
<1>7. \A c \in calls : c.tab = t => Awaited(c, w)
  BY <1>3, <1>4, <1>5, ReadsApart DEF Awaited
<1> QED BY <1>3, <1>6, <1>7, PageStep

-------------------------------------------------------------------------------
(* Pages and calls.                                                        *)

(* Every call is one there was, at another stage or without its tab. *)
SameCalls ==
    /\ CallsOK /\ CallsOK'
    /\ \A d \in calls' : \E c \in calls : /\ d.id = c.id /\ d.kind = c.kind
                                          /\ d.tab \in {c.tab, NoTab}

(* Then a tab still waits for one call of each kind. *)
LEMMA StillOne ==
    ASSUME PagesInv, SameCalls
    PROVE  \A d, e \in calls' : d.tab \in Tabs /\ d.tab = e.tab /\ d.kind = e.kind => d = e
<1> SUFFICES ASSUME NEW d \in calls', NEW e \in calls', d.tab \in Tabs, d.tab = e.tab,
                    d.kind = e.kind
             PROVE  d = e
  OBVIOUS
<1>1. NoTab \notin Tabs
  BY ConstantsOK
<1>2. PICK c \in calls : d.id = c.id /\ d.kind = c.kind /\ d.tab \in {c.tab, NoTab}
  BY DEF SameCalls
<1>3. PICK b \in calls : e.id = b.id /\ e.kind = b.kind /\ e.tab \in {b.tab, NoTab}
  BY DEF SameCalls
<1>4. c = b
  BY <1>1, <1>2, <1>3 DEF PagesInv
<1> QED BY <1>2, <1>3, <1>4 DEF SameCalls, CallsOK

(* The calls move, the pages do not. *)
LEMMA CallsMove == PagesInv /\ SameCalls /\ UNCHANGED view => PagesInv'
<1> SUFFICES ASSUME PagesInv, SameCalls, UNCHANGED view PROVE PagesInv'
  OBVIOUS
<1>1. NoTab \notin Tabs
  BY ConstantsOK
<1>2. \A d \in calls' : d.tab \in Tabs => Awaited(d, view[d.tab])
  BY <1>1 DEF PagesInv, SameCalls, Awaited
<1> QED BY <1>2, StillOne DEF PagesInv, Awaited

(* A page and its calls change. *)
LEMMA PageAndCalls ==
    ASSUME PagesInv, SameCalls, NEW t \in Tabs, NEW w, view' = [view EXCEPT ![t] = w],
           PageInv(w), \A d \in calls' : d.tab = t => Awaited(d, w)
    PROVE  PagesInv'
<1>1. \A u \in Tabs : view'[u] = IF u = t THEN w ELSE view[u]
  BY DEF PagesInv
<1>2. view' = [u \in Tabs |-> view'[u]]
  BY DEF PagesInv
<1>3. \A u \in Tabs : PageInv(view[u])'
  BY <1>1 DEF PagesInv, PageInv
<1>4. \A d \in calls' : d.tab \in Tabs => Awaited(d, view'[d.tab])
  <2> SUFFICES ASSUME NEW d \in calls', d.tab \in Tabs, d.tab # t
               PROVE  Awaited(d, view[d.tab])
    BY <1>1
  <2>1. PICK c \in calls : d.kind = c.kind /\ d.tab \in {c.tab, NoTab}
    BY DEF SameCalls
  <2>2. c.tab = d.tab
    BY <2>1, ConstantsOK
  <2> QED BY <2>1, <2>2 DEF PagesInv, Awaited
<1> QED BY <1>2, <1>3, <1>4, StillOne DEF PagesInv, Awaited

(* A page, now w, sends a call of a kind it waits for none of. *)
Sends(t, w, d) ==
    /\ view' = [view EXCEPT ![t] = w] /\ PageInv(w)
    /\ calls' = calls \cup {d} /\ d.tab = t /\ Awaited(d, w)
    /\ \A c \in calls : c.tab = t => Awaited(c, w) /\ c.kind # d.kind

(* Then it waits for one of each kind at most. *)
LEMMA PageSends ==
    ASSUME PagesInv, NEW t \in Tabs, NEW w, NEW d, Sends(t, w, d)
    PROVE  PagesInv'
<1>0. /\ view' = [view EXCEPT ![t] = w] /\ PageInv(w)
      /\ calls' = calls \cup {d} /\ d.tab = t /\ Awaited(d, w)
      /\ \A c \in calls : c.tab = t => Awaited(c, w) /\ c.kind # d.kind
  BY DEF Sends
<1>1. \A u \in Tabs : view'[u] = IF u = t THEN w ELSE view[u]
  BY <1>0 DEF PagesInv
<1>2. view' = [u \in Tabs |-> view'[u]]
  BY <1>0 DEF PagesInv
<1>3. \A u \in Tabs : PageInv(view[u])'
  BY <1>0, <1>1 DEF PagesInv, PageInv
<1>4. \A c \in calls' : c.tab \in Tabs => Awaited(c, view'[c.tab])
  BY <1>0, <1>1 DEF PagesInv
<1>5. \A c, b \in calls' : c.tab \in Tabs /\ c.tab = b.tab /\ c.kind = b.kind => c = b
  BY <1>0 DEF PagesInv
<1> QED BY <1>2, <1>3, <1>4, <1>5 DEF PagesInv, Awaited

(* The server moves a call, or crashes. *)
LEMMA ServerPages ==
    ASSUME Inv, CallsOK', PagesInv,
           Crash \/ \E c \in calls : Serve(c)
    PROVE  PagesInv'
<1>1. UNCHANGED view
  BY DEF Crash, Serve, CountActive, FindOpen, CommitRotation, ReadEnv, Truncate, WriteEnv,
         WriteFails, ApplyConfig, Refuse, browser
<1>2. CallsOK
  BY DEF Inv
<1>3. ASSUME NEW c \in calls, NEW at
      PROVE  Ended(c, at).id = c.id /\ Ended(c, at).kind = c.kind /\ Ended(c, at).tab = c.tab
  BY DEF Ended
<1>4. CASE Crash
  <2>1. \A d \in calls' : \E c \in calls : d = Ended(c, "failed")
    BY <1>4 DEF Crash, InFlight
  <2>2. SameCalls
    BY <1>2, <1>3, <2>1 DEF SameCalls
  <2> QED BY <1>1, <2>2, CallsMove
<1>5. ASSUME NEW c \in calls, Serve(c) PROVE PagesInv'
  <2>1. WellFormed(c)
    BY DEF Inv, CallsOK
  <2>2. PICK d : Move(c, d) /\ d.id = c.id /\ d.kind = c.kind /\ d.tab = c.tab
    <3>1. ASSUME CountActive(c) PROVE \E d : Move(c, d) /\ d.id = c.id /\ d.kind = c.kind
                                             /\ d.tab = c.tab
      <4>1. IsRotation(c)
        BY <2>1, <3>1 DEF CountActive, WellFormed, IsOver, IsSave
      <4>2. Counted(c).id = c.id /\ Counted(c).kind = c.kind /\ Counted(c).tab = c.tab
        BY <4>1 DEF Counted, IsRotation
      <4> QED BY <3>1, <4>2 DEF CountActive
    <3>2. ASSUME FindOpen(c) PROVE \E d : Move(c, d) /\ d.id = c.id /\ d.kind = c.kind
                                          /\ d.tab = c.tab
      <4>1. IsRotation(c)
        BY <2>1, <3>2 DEF FindOpen, WellFormed, IsOver, IsSave
      <4>2. Found(c).id = c.id /\ Found(c).kind = c.kind /\ Found(c).tab = c.tab
        BY <4>1 DEF Found, IsRotation
      <4> QED BY <3>2, <4>2 DEF FindOpen
    <3>3. ASSUME ReadEnv(c) PROVE \E d : Move(c, d) /\ d.id = c.id /\ d.kind = c.kind
                                         /\ d.tab = c.tab
      <4>1. IsSave(c)
        BY <2>1, <3>3 DEF ReadEnv, WellFormed, IsOver, IsRotation
      <4>2. PICK f : Move(c, Reading(c, f))
        BY <3>3 DEF ReadEnv
      <4>3. LET d == Reading(c, f) IN d.id = c.id /\ d.kind = c.kind /\ d.tab = c.tab
        BY <4>1, ReadSave DEF IsSave
      <4> QED BY <4>2, <4>3
    <3>4. ASSUME Truncate(c) \/ WriteEnv(c)
          PROVE  \E d : Move(c, d) /\ d.id = c.id /\ d.kind = c.kind /\ d.tab = c.tab
      <4>1. IsSave(c)
        BY <2>1, <3>4 DEF Truncate, WriteEnv, WellFormed, IsOver, IsRotation
      <4>2. PICK at : To(c, at)
        BY <3>4 DEF Truncate, WriteEnv
      <4>3. /\ [c EXCEPT !.at = at].id = c.id /\ [c EXCEPT !.at = at].kind = c.kind
            /\ [c EXCEPT !.at = at].tab = c.tab
        BY <4>1 DEF IsSave
      <4> QED BY <4>2, <4>3 DEF To
    <3>5. ASSUME CommitRotation(c) \/ ApplyConfig(c) \/ WriteFails(c) \/ Refuse(c)
          PROVE  \E d : Move(c, d) /\ d.id = c.id /\ d.kind = c.kind /\ d.tab = c.tab
      <4>1. PICK at : End(c, at)
        BY <3>5 DEF CommitRotation, ApplyConfig, WriteFails, Refuse
      <4> QED BY <1>3, <4>1 DEF End
    <3> QED BY <1>5, <3>1, <3>2, <3>3, <3>4, <3>5 DEF Serve
  <2>3. SameCalls
    BY <1>2, <2>2 DEF SameCalls, Move, InFlight
  <2> QED BY <1>1, <2>3, CallsMove
<1> QED BY <1>4, <1>5


(* A page is left: its calls go on without it. *)
LEMMA VisitPages ==
    ASSUME Inv, CallsOK', PagesInv, NEW t \in Tabs, NEW page \in Pages, Visit(t, page)
    PROVE  PagesInv'
<1> DEFINE Left(c) == IF c.tab = t THEN [c EXCEPT !.tab = NoTab] ELSE c
<1>1. /\ view' = [view EXCEPT ![t] = Mounted(page)]
      /\ calls' = InFlight({Left(c) : c \in calls})
  BY DEF Visit
<1>2. \A c \in calls : /\ Left(c).id = c.id /\ Left(c).kind = c.kind
                       /\ Left(c).tab \in {c.tab, NoTab} /\ Left(c).tab # t
  <2> SUFFICES ASSUME NEW c \in calls
               PROVE  /\ Left(c).id = c.id /\ Left(c).kind = c.kind
                      /\ Left(c).tab \in {c.tab, NoTab} /\ Left(c).tab # t
    OBVIOUS
  <2>1. WellFormed(c) /\ NoTab # t
    BY ConstantsOK DEF Inv, CallsOK
  <2>2. /\ [c EXCEPT !.tab = NoTab].id = c.id /\ [c EXCEPT !.tab = NoTab].kind = c.kind
        /\ [c EXCEPT !.tab = NoTab].tab = NoTab
    BY <2>1 DEF WellFormed, IsOver, IsSave, IsRotation
  <2> QED BY <2>1, <2>2
<1> HIDE DEF Left
<1>3. SameCalls /\ \A d \in calls' : d.tab # t
  BY <1>1, <1>2 DEF SameCalls, InFlight, Inv
<1> QED BY <1>1, <1>3, MountedOK, PageAndCalls

(* What the page makes of an answer or of its loss. *)
LEMMA ToldPages ==
    ASSUME Inv, PagesInv, SameCalls, NEW c \in calls, c.tab \in Tabs, NEW ok \in BOOLEAN,
           Told(c, ok), \A d \in calls' : d.tab = c.tab => d \in calls /\ d # c
    PROVE  PagesInv'
<1> DEFINE t == c.tab
           v == view[t]
<1>1. PageInv(v) /\ Awaited(c, v)
  BY DEF PagesInv
<1>2. \A d \in calls' : d.tab = t => d.kind # c.kind /\ Awaited(d, v)
  BY DEF PagesInv
<1>3. c.kind \in {"save", "rotate"}
  BY DEF Inv, CallsOK, WellFormed, IsOver, IsSave, IsRotation
<1>4. CASE c.kind = "save" /\ ok
  <2> DEFINE e == Edited(v)
             w == [e EXCEPT !.configRead = Asked]
  <2>1. view' = [view EXCEPT ![t] = w]
    BY <1>4 DEF Told, SaveAnswered
  <2>2. /\ e \in View /\ ~e.editing /\ e.loading = v.loading /\ e.config = v.config
        /\ e.statusRead = v.statusRead /\ e.saving = v.saving /\ e.form = v.form
        /\ e.rotating = v.rotating
    BY <1>1, EditedTyped DEF PageInv
  <2> HIDE DEF e, v
  <2>3. /\ w \in View /\ ~w.editing /\ w.loading = v.loading /\ w.config = v.config
        /\ w.statusRead = v.statusRead /\ w.saving = v.saving /\ w.form = v.form
        /\ w.rotating = v.rotating
    BY <2>2 DEF View
  <2> HIDE DEF w
  <2>4. PageInv(w)
    BY <1>1, <1>4, <2>3 DEF PageInv, Awaited
  <2>5. \A d \in calls' : d.tab = t => Awaited(d, w)
    BY <1>2, <1>4, <2>3 DEF Awaited
  <2> QED BY <2>1, <2>4, <2>5, PageAndCalls
<1>5. CASE c.kind = "save" /\ ~ok
  <2> DEFINE w == [v EXCEPT !.saving = FALSE]
  <2>1. view' = [view EXCEPT ![t] = w]
    BY <1>5 DEF Told, SaveAnswered
  <2> HIDE DEF v
  <2>2. /\ w \in View /\ w.saving = FALSE
        /\ w.page = v.page /\ w.loading = v.loading /\ w.config = v.config
        /\ w.status = v.status /\ w.configRead = v.configRead
        /\ w.statusRead = v.statusRead /\ w.editing = v.editing /\ w.edited = v.edited
        /\ w.form = v.form /\ w.rotating = v.rotating
        /\ w.touched = v.touched /\ w.crossed = v.crossed
    BY <1>1 DEF PageInv, View
  <2> HIDE DEF w
  <2>3. PageInv(w)
    BY <1>1, <1>5, <2>2 DEF PageInv, Awaited
  <2>4. \A d \in calls' : d.tab = t => Awaited(d, w)
    BY <1>2, <1>5, <2>2 DEF Awaited
  <2> QED BY <2>1, <2>3, <2>4, PageAndCalls
<1>6. CASE c.kind = "rotate" /\ ok
  <2> DEFINE w == [v EXCEPT !.form = FALSE, !.statusRead = Asked]
  <2>1. view' = [view EXCEPT ![t] = w]
    BY <1>6 DEF Told, RotateAnswered, PagesInv
  <2> HIDE DEF v
  <2>2. /\ w \in View /\ w.saving = v.saving
        /\ w.page = v.page /\ w.loading = v.loading /\ w.config = v.config
        /\ w.status = v.status /\ w.configRead = v.configRead
        /\ w.statusRead = Asked /\ w.editing = v.editing /\ w.edited = v.edited
        /\ w.form = FALSE /\ w.rotating = v.rotating
        /\ w.touched = v.touched /\ w.crossed = v.crossed
    BY <1>1 DEF PageInv, View
  <2> HIDE DEF w
  <2>3. PageInv(w)
    BY <1>1, <1>6, <2>2 DEF PageInv, Awaited
  <2>4. \A d \in calls' : d.tab = t => Awaited(d, w)
    BY <1>2, <1>6, <2>2 DEF Awaited
  <2> QED BY <2>1, <2>3, <2>4, PageAndCalls
<1>7. CASE c.kind = "rotate" /\ ~ok
  <2> DEFINE w == [v EXCEPT !.rotating = FALSE]
  <2>1. view' = [view EXCEPT ![t] = w]
    BY <1>7 DEF Told, RotateAnswered
  <2> HIDE DEF v
  <2>2. /\ w \in View /\ w.saving = v.saving
        /\ w.page = v.page /\ w.loading = v.loading /\ w.config = v.config
        /\ w.status = v.status /\ w.configRead = v.configRead
        /\ w.statusRead = v.statusRead /\ w.editing = v.editing /\ w.edited = v.edited
        /\ w.form = v.form /\ w.rotating = FALSE
        /\ w.touched = v.touched /\ w.crossed = v.crossed
    BY <1>1 DEF PageInv, View
  <2> HIDE DEF w
  <2>3. PageInv(w)
    BY <1>1, <1>7, <2>2 DEF PageInv, Awaited
  <2>4. \A d \in calls' : d.tab = t => Awaited(d, w)
    BY <1>2, <1>7, <2>2 DEF Awaited
  <2> QED BY <2>1, <2>3, <2>4, PageAndCalls
<1> QED BY <1>3, <1>4, <1>5, <1>6, <1>7

(* A POST is answered, or its connection is lost. *)
LEMMA AnswerPages ==
    ASSUME Inv, CallsOK', ServerInv, PagesInv, NEW c \in calls, PostAnswered(c) \/ PostLost(c)
    PROVE  PagesInv' /\ ServerInv'
<1>1. c.tab \in Tabs /\ NoTab \notin Tabs
  BY ConstantsOK DEF PostAnswered, PostLost, ServerInv, ServerTyped, CallTyped, TabOrNone
<1> DEFINE d == [c EXCEPT !.tab = NoTab]
<1>2. d.id = c.id /\ d.kind = c.kind /\ d.tab = NoTab
  BY DEF Inv, CallsOK, WellFormed, IsOver, IsSave, IsRotation
<1>3. calls' = calls \ {c} \/ Move(c, d)
  BY DEF PostAnswered, PostLost
<1>4. \A e \in calls' : e = d \/ (e \in calls /\ e # c)
  BY <1>3 DEF Move, InFlight
<1>5. ServerInv'
  BY <1>4, LeaveServer DEF PostAnswered, PostLost
<1> HIDE DEF d
<1>6. SameCalls /\ \A e \in calls' : e.tab = c.tab => e \in calls /\ e # c
  BY <1>1, <1>2, <1>4 DEF SameCalls, Inv
<1>7. PICK ok \in BOOLEAN : Told(c, ok)
  BY DEF PostAnswered, PostLost
<1> QED BY <1>1, <1>5, <1>6, <1>7, ToldPages

(* A rotation is sent. *)
LEMMA RotatePages ==
    ASSUME Inv, ServerInv, PagesInv, NEW t \in Tabs, handleRotate(t)
    PROVE  PagesInv' /\ ServerInv'
<1> DEFINE v == view[t]
           w == [v EXCEPT !.rotating = TRUE]
           d == [kind |-> "rotate", id |-> posts + 1, tab |-> t, at |-> "sent",
                 gateway |-> NamesGateway(t), begun |-> 0, first |-> FALSE,
                 found |-> {}, key |-> 0, current |-> 0]
<1>1. /\ view' = [view EXCEPT ![t] = w] /\ calls' = calls \cup {d} /\ v.form /\ ~v.rotating
      /\ posts < MaxPosts /\ posts' = posts + 1 /\ UNCHANGED server
  BY DEF handleRotate
<1>2. PageInv(v) /\ \A c \in calls : c.tab = t => Awaited(c, v)
  BY DEF PagesInv
<1>3. /\ d.kind = "rotate" /\ d.id = posts + 1 /\ d.tab = t /\ ~IsSave(d)
      /\ d.begun = 0 /\ d.key = 0 /\ d.current = 0 /\ d.at = "sent"
  BY DEF IsSave
<1>4. CallTyped(d, begins)
  BY <1>3 DEF CallTyped, TabOrNone, ServerInv, ServerTyped, Values
<1> HIDE DEF d
<1>5. ServerInv'
  BY <1>1, <1>3, <1>4, SendServer
<1> HIDE DEF v
<1>6. /\ w \in View /\ w.saving = v.saving
      /\ w.page = v.page /\ w.loading = v.loading /\ w.config = v.config
      /\ w.status = v.status /\ w.configRead = v.configRead
      /\ w.statusRead = v.statusRead /\ w.editing = v.editing /\ w.edited = v.edited
      /\ w.form = v.form /\ w.rotating = TRUE
      /\ w.touched = v.touched /\ w.crossed = v.crossed
  BY <1>2 DEF PageInv, View
<1> HIDE DEF w
<1>7. ~v.loading /\ v.statusRead = None
  BY <1>1, <1>2 DEF PageInv
<1>8. PageInv(w)
  BY <1>2, <1>6, <1>7 DEF PageInv
<1>9. Awaited(d, w) /\ \A c \in calls : c.tab = t => Awaited(c, w) /\ c.kind # d.kind
  BY <1>1, <1>2, <1>3, <1>6, <1>7 DEF Awaited
<1>10. Sends(t, w, d)
  BY <1>1, <1>3, <1>8, <1>9 DEF Sends
<1>11. PagesInv'
  BY <1>10, PageSends
<1> QED BY <1>5, <1>11


(* What a save sends are lines, of variables that were typed over unless what is shown
   was read again meanwhile. *)
LEMMA PayloadTyped ==
    ASSUME NEW v, PageInv(v), v.editing, NEW ks, ks \subseteq DOMAIN v.config,
           NEW typed \in [ks -> Values], Payload(Overlay(typed, v.edited), v.config) # Nothing
    PROVE  LET edited  == Overlay(typed, v.edited)
               payload == Payload(edited, v.config)
               touched == v.touched \cup DOMAIN typed
           IN  /\ v.config \in Shows /\ edited \in Inputs /\ touched \in SUBSET Keys
               /\ Written(payload)
               /\ DOMAIN payload \subseteq IF v.crossed THEN Keys ELSE touched
               /\ ~v.crossed => \A k \in DOMAIN v.config \ touched : edited[k] = v.config[k]
<1> DEFINE edited  == Overlay(typed, v.edited)
           payload == Payload(edited, v.config)
           touched == v.touched \cup DOMAIN typed
<1>1. v \in View /\ DOMAIN v.edited = DOMAIN v.config
  BY DEF PageInv
<1>2. v.config \in Shows \cup {Nothing} /\ v.edited \in Inputs \cup {Nothing}
      /\ v.touched \subseteq Keys
  BY <1>1 DEF View
<1>3. v.config \in Shows
  <2> SUFFICES ASSUME v.config = Nothing PROVE FALSE
    BY <1>2
  <2>1. DOMAIN v.config = {}
    BY NothingTyped
  <2>2. payload = Nothing
    BY <2>1 DEF Payload, Nothing
  <2> QED BY <2>2
<1>4. v.config \in [Keys -> Values] /\ DOMAIN v.config = Keys
  BY <1>3 DEF Shows
<1>5. v.edited \in Inputs
  <2>1. Keys # {}
    BY DEF Keys, SecretKeys
  <2> QED BY <1>1, <1>2, <1>4, <2>1, NothingTyped
<1>6. edited = [k \in Keys |-> IF k \in ks THEN typed[k] ELSE v.edited[k]]
  BY <1>1, <1>4 DEF Overlay
<1>7. edited \in Inputs
  BY <1>5, <1>6 DEF Inputs
<1>8. touched \in SUBSET Keys
  BY <1>2, <1>4
<1>9. payload = [k \in {q \in Keys : edited[q] # v.config[q]} |-> edited[k]]
  BY <1>4 DEF Payload
<1>10. \A k \in Keys : k \notin touched /\ ~v.crossed => edited[k] = v.config[k]
  BY <1>4, <1>6 DEF PageInv
<1> HIDE DEF edited, payload, touched
<1>12. Written(payload)
  <2>1. Keys \subseteq LineKeys
    BY DEF LineKeys
  <2> QED BY <1>7, <1>9, <2>1 DEF Written, Inputs
<1>13. DOMAIN payload \subseteq IF v.crossed THEN Keys ELSE touched
  BY <1>9, <1>10
<1> QED BY <1>3, <1>4, <1>7, <1>8, <1>10, <1>12, <1>13 DEF edited, payload, touched

(* A save is sent, or there is nothing to send. *)
LEMMA SavePages ==
    ASSUME Inv, ServerInv, PagesInv, NEW t \in Tabs, handleSaveConfig(t)
    PROVE  PagesInv' /\ ServerInv'
<1> DEFINE v == view[t]
           Inputted(typed) == Overlay(typed, v.edited)
           Sent(typed)     == Payload(Inputted(typed), v.config)
           Touched(typed)  == v.touched \cup DOMAIN typed
           New(typed)      == [v EXCEPT !.saving = TRUE, !.edited = Inputted(typed),
                                        !.touched = Touched(typed)]
           Call(typed)     == [kind |-> "save", id |-> posts + 1, tab |-> t, at |-> "sent",
                               payload |-> Sent(typed), base |-> Nothing,
                               allowed |-> IF v.crossed THEN Keys ELSE Touched(typed)]
<1>1. /\ PageInv(v) /\ v.editing /\ ~v.saving /\ UNCHANGED server
      /\ \A c \in calls : c.tab = t => Awaited(c, v)
  BY DEF handleSaveConfig, PagesInv
<1>2. PICK typed \in Typings(t) :
        \/ /\ DOMAIN Sent(typed) = {} /\ view' = [view EXCEPT ![t] = Edited(view[t])]
           /\ UNCHANGED <<calls, posts>>
        \/ /\ DOMAIN Sent(typed) # {} /\ posts < MaxPosts /\ posts' = posts + 1
           /\ view' = [view EXCEPT ![t] = New(typed)]
           /\ calls' = calls \cup {Call(typed)}
  BY DEF handleSaveConfig, PagesInv
<1>3. CASE UNCHANGED <<calls, posts>> /\ view' = [view EXCEPT ![t] = Edited(view[t])]
  <2>1. PagesInv'
    BY <1>1, <1>3, EditedOK, PageStep
  <2>2. ServerInv'
    BY <1>1, <1>3, LeaveServer
  <2> QED BY <2>1, <2>2
<1>4. CASE /\ DOMAIN Sent(typed) # {} /\ posts < MaxPosts /\ posts' = posts + 1
           /\ view' = [view EXCEPT ![t] = New(typed)]
           /\ calls' = calls \cup {Call(typed)}
  <2> DEFINE edited  == Inputted(typed)
             payload == Sent(typed)
             touched == Touched(typed)
             w       == New(typed)
             d       == Call(typed)
  <2>1. PICK ks : ks \subseteq DOMAIN v.config /\ typed \in [ks -> Values]
    BY DEF Typings
  <2>2. payload # Nothing
    BY <1>4, NothingTyped
  <2>3. /\ v.config \in Shows /\ edited \in Inputs /\ touched \in SUBSET Keys
        /\ Written(payload) /\ DOMAIN payload \subseteq IF v.crossed THEN Keys ELSE touched
        /\ ~v.crossed => \A k \in DOMAIN v.config \ touched : edited[k] = v.config[k]
    BY <1>1, <2>1, <2>2, PayloadTyped
  <2>4. Written(Nothing)
    BY DEF Written, Nothing
  <2>5. w = [v EXCEPT !.saving = TRUE, !.edited = edited, !.touched = touched]
    OBVIOUS
  <2>6. d = [kind |-> "save", id |-> posts + 1, tab |-> t, at |-> "sent",
             payload |-> payload, base |-> Nothing,
             allowed |-> IF v.crossed THEN Keys ELSE touched]
    OBVIOUS
  <2>7. /\ view' = [view EXCEPT ![t] = w] /\ calls' = calls \cup {d}
        /\ posts < MaxPosts /\ posts' = posts + 1
    BY <1>4
  <2> HIDE DEF edited, payload, touched, w, d, v, Inputted, Sent, Touched, New, Call
  <2>8. /\ d.kind = "save" /\ d.tab = t /\ d.id = posts + 1 /\ ~IsRotation(d)
        /\ d.payload = payload /\ d.base = Nothing
        /\ d.allowed = IF v.crossed THEN Keys ELSE touched
    BY <2>6 DEF IsRotation
  <2>9. CallTyped(d, begins)
    BY <2>3, <2>4, <2>8 DEF CallTyped, TabOrNone
  <2>10. ServerInv'
    BY <1>1, <2>7, <2>8, <2>9, SendServer
  <2>11. /\ w \in View /\ w.saving = TRUE
         /\ w.page = v.page /\ w.loading = v.loading /\ w.config = v.config
         /\ w.status = v.status /\ w.configRead = v.configRead
         /\ w.statusRead = v.statusRead /\ w.editing = v.editing /\ w.edited = edited
         /\ w.form = v.form /\ w.rotating = v.rotating
         /\ w.touched = touched /\ w.crossed = v.crossed
    BY <1>1, <2>3, <2>5 DEF PageInv, View
  <2>12. ~v.loading /\ v.configRead = None
    BY <1>1 DEF PageInv
  <2>13. DOMAIN edited = DOMAIN v.config
    BY <2>3 DEF Inputs, Shows
  <2>14. PageInv(w)
    BY <1>1, <2>3, <2>11, <2>12, <2>13 DEF PageInv
  <2>15. Awaited(d, w) /\ \A c \in calls : c.tab = t => Awaited(c, w) /\ c.kind # d.kind
    BY <1>1, <2>8, <2>11, <2>12 DEF Awaited
  <2>16. Sends(t, w, d)
    BY <2>7, <2>8, <2>14, <2>15 DEF Sends
  <2>17. PagesInv'
    BY <2>16, PageSends
  <2> QED BY <2>10, <2>17
<1> QED BY <1>2, <1>3, <1>4


-------------------------------------------------------------------------------
(* The theorems about pages, secrets and types.                            *)

(* What the pages show follows from what the server holds. *)
ConfigInv == Inv /\ ServerInv /\ PagesInv

(* It holds at the start. *)
LEMMA InitConfig == Init => ConfigInv
BY InitInv, InitServer, InitPages DEF ConfigInv

(* Every step keeps it. *)
LEMMA NextConfig == ConfigInv /\ [Next]_vars => ConfigInv'
<1> SUFFICES ASSUME Inv, ServerInv, PagesInv, [Next]_vars PROVE ServerInv' /\ PagesInv'
  BY NextInv DEF ConfigInv
<1>0. CallsOK' /\ CallsOK
  BY NextInv DEF Inv
<1>1. CASE WindowEnds \/ Start
  <2>1. UNCHANGED <<calls, view>>
    BY <1>1 DEF WindowEnds, Start, browser
  <2>2. PagesInv'
    BY <2>1 DEF PagesInv, Awaited
  <2> QED BY <1>1, <2>2, WindowEndsServer, StartServer
<1>2. CASE Crash
  BY <1>0, <1>2, CrashServer, ServerPages
<1>3. ASSUME NEW c \in calls, Serve(c) PROVE ServerInv' /\ PagesInv'
  <2>1. ServerInv'
    BY <1>3, CountServer, FindOpenServer, CommitServer, ReadEnvServer, WriteServer, OverServer
       DEF Serve
  <2> QED BY <1>0, <1>3, <2>1, ServerPages
<1>4. ASSUME NEW c \in calls, PostAnswered(c) \/ PostLost(c) PROVE ServerInv' /\ PagesInv'
  BY <1>0, <1>4, AnswerPages
<1>5. ASSUME NEW t \in Tabs, NEW page \in Pages, Visit(t, page) PROVE ServerInv' /\ PagesInv'
  <2>1. \A d \in calls' : d \in calls \/ \E c \in calls : d = [c EXCEPT !.tab = NoTab]
    BY <1>5 DEF Visit, InFlight
  <2>2. ServerInv'
    BY <1>5, <2>1, LeaveServer DEF Visit
  <2> QED BY <1>0, <1>5, <2>2, VisitPages
<1>6. ASSUME NEW t \in Tabs, handleSaveConfig(t) \/ handleRotate(t)
      PROVE  ServerInv' /\ PagesInv'
  BY <1>6, SavePages, RotatePages
<1>7. ASSUME NEW t \in Tabs,
             \/ ReadConfig(t) \/ ReadStatus(t) \/ LoadDone(t) \/ LoadFailed(t)
             \/ Edit(t) \/ CancelEdit(t) \/ ConfigRefreshed(t) \/ RefreshFailed(t)
             \/ OpenForm(t) \/ CancelForm(t) \/ StatusRefreshed(t) \/ StatusFailed(t)
      PROVE  ServerInv' /\ PagesInv'
  <2>1. ServerInv'
    BY <1>7, QuietSteps, LeaveServer DEF Quiet
  <2>2. PagesInv'
    BY <1>7, ReadConfigPages, ReadStatusPages, LoadDonePages, LoadFailedPages, EditPages,
       CancelEditPages, ConfigRefreshedPages, RefreshFailedPages, OpenFormPages,
       CancelFormPages, StatusRefreshedPages, StatusFailedPages
  <2> QED BY <2>1, <2>2
<1>8. CASE UNCHANGED vars
  <2>1. UNCHANGED <<server, calls, posts, view>>
    BY <1>8 DEF vars, browser
  <2>2. PagesInv'
    BY <2>1 DEF PagesInv, Awaited
  <2> QED BY <2>1, <2>2, LeaveServer
<1> QED BY <1>1, <1>2, <1>3, <1>4, <1>5, <1>6, <1>7, <1>8 DEF Next

(* It holds in every reachable state. *)
LEMMA ConfigHolds == Spec => []ConfigInv
BY InitConfig, NextConfig, PTL DEF Spec

(* The types: in particular, a read in flight belongs to a load, a save or a rotation of
   its page. *)
THEOREM ConfigTyped == Spec => []TypeOK
<1>1. ConfigInv /\ troubles \in Nat => TypeOK
  <2> SUFFICES ASSUME ConfigInv, troubles \in Nat PROVE TypeOK
    OBVIOUS
  <2>1. /\ up \in BOOLEAN /\ over \subseteq 1..MaxPosts
        /\ mishaps \subseteq {"rotate", "save", "lost"} /\ unapplied \subseteq LineKeys
        /\ {begins, posts, troubles} \subseteq Nat
    BY ConstantsOK DEF ConfigInv, ServerInv, ServerTyped
  <2>2. ASSUME NEW f, Written(f) PROVE Lines(f)
    BY <2>2 DEF Written, Lines, Values
  <2>3. cfg \in [Keys -> Values] /\ Lines(env)
    BY <2>2 DEF ConfigInv, ServerInv, ServerTyped, Held, Values
  <2>4. rows \subseteq SomeRow
    <3> SUFFICES ASSUME NEW r \in rows PROVE r \in SomeRow
      OBVIOUS
    <3>1. /\ r = [secret |-> r.secret, key |-> r.key, begun |-> r.begun, until |-> r.until]
          /\ r.secret \in Secrets /\ r.key \in Values /\ r.begun \in Nat \ {0}
          /\ r.until \in 0..MaxPosts
      BY ConstantsOK DEF ConfigInv, Inv, RowsOK, ServerInv, ServerTyped, Secrets, Values
    <3> QED BY <3>1 DEF SomeRow
  <2>5. ASSUME NEW c \in calls PROVE CallOK(c)
    <3>1. WellFormed(c) /\ c.id \in 1..posts /\ CallTyped(c, begins)
      BY DEF ConfigInv, Inv, CallsOK, ServerInv, ServerTyped
    <3>2. c.tab \in TabOrNone
      BY <3>1 DEF CallTyped
    <3>3. CASE IsOver(c)
      BY <3>1, <3>2, <3>3 DEF IsOver, CallOK, Stages
    <3>4. CASE IsSave(c)
      <4>1. c.kind = "save" /\ c.at \in Stages /\ c.at \notin {"ok", "failed"}
        BY <3>4 DEF IsSave, Stages
      <4>2. Lines(c.payload) /\ Lines(c.base)
        BY <2>2, <3>1, <3>4 DEF CallTyped
      <4> QED BY <3>1, <3>2, <4>1, <4>2 DEF CallOK
    <3>5. CASE IsRotation(c)
      <4>1. c.kind = "rotate" /\ c.at \in Stages /\ c.at \notin {"ok", "failed"}
        BY <3>5 DEF IsRotation, Stages
      <4>2. c.begun <= begins /\ {c.key, c.current} \subseteq Values
        BY <3>1, <3>5 DEF CallTyped, Values
      <4> QED BY <3>1, <3>2, <4>1, <4>2 DEF CallOK
    <3> QED BY <3>1, <3>3, <3>4, <3>5 DEF WellFormed
  <2>6. ASSUME NEW t \in Tabs PROVE ViewOK(view[t])
    <3> DEFINE v == view[t]
    <3>1. PageInv(v) /\ v \in View
      BY DEF ConfigInv, PagesInv, PageInv
    <3>2. Lines(Nothing) /\ \A f \in Shows \cup Inputs : Lines(f)
      BY DEF Lines, Nothing, Shows, Inputs, LineKeys
    <3> HIDE DEF v
    <3>3. v.page \in Pages /\ Lines(v.config) /\ Lines(v.edited) /\ v.status \in Status
      BY <3>1, <3>2 DEF View, ReadStates
    <3>4. /\ v.configRead.sort \in {"none", "asked", "got"}
          /\ v.statusRead.sort \in {"none", "asked", "got"}
      BY <3>1, ReadsApart DEF View
    <3>5. /\ {v.loading, v.editing, v.saving, v.form, v.rotating, v.crossed} \subseteq BOOLEAN
          /\ v.touched \subseteq Keys
      BY <3>1 DEF View
    <3>6. /\ v.configRead # None => v.loading \/ v.saving
          /\ v.statusRead # None => v.loading \/ v.rotating
      BY <3>1 DEF PageInv
    <3>7. ViewOK(v)
      BY <3>3, <3>4, <3>5, <3>6 DEF ViewOK
    <3> QED BY <3>7 DEF v
  <2> QED BY <2>1, <2>3, <2>4, <2>5, <2>6 DEF TypeOK
<1>2. Init => troubles \in Nat
  BY DEF Init
<1>3. ConfigInv /\ troubles \in Nat /\ [Next]_vars => (troubles \in Nat)'
  <2> SUFFICES ASSUME troubles \in Nat, [Next]_vars PROVE troubles' \in Nat
    OBVIOUS
  <2>1. troubles' = troubles \/ troubles' = troubles + 1
    <3>1. CASE UNCHANGED vars \/ WindowEnds \/ Crash \/ Start
      BY <3>1 DEF vars, Trouble, WindowEnds, Crash, Start
    <3>2. ASSUME NEW c \in calls, Serve(c) PROVE troubles' = troubles
      BY <3>2 DEF Serve, CountActive, FindOpen, CommitRotation, ReadEnv, Truncate, WriteEnv,
                  WriteFails, ApplyConfig, Refuse
    <3>3. ASSUME NEW c \in calls, PostAnswered(c) \/ PostLost(c)
          PROVE  troubles' = troubles \/ troubles' = troubles + 1
      BY <3>3 DEF PostAnswered, PostLost, Trouble
    <3>4. ASSUME NEW t \in Tabs, NEW page \in Pages, Visit(t, page)
          PROVE  troubles' = troubles + 1
      BY <3>4 DEF Visit, Trouble
    <3>5. ASSUME NEW t \in Tabs,
                 \/ ReadConfig(t) \/ ReadStatus(t) \/ LoadDone(t) \/ LoadFailed(t)
                 \/ Edit(t) \/ CancelEdit(t) \/ handleSaveConfig(t)
          PROVE  troubles' = troubles
      BY <3>5 DEF ReadConfig, ReadStatus, LoadDone, LoadFailed, Edit, CancelEdit,
                  handleSaveConfig
    <3>6. ASSUME NEW t \in Tabs,
                 \/ ConfigRefreshed(t) \/ RefreshFailed(t)
                 \/ OpenForm(t) \/ CancelForm(t) \/ handleRotate(t)
                 \/ StatusRefreshed(t) \/ StatusFailed(t)
          PROVE  troubles' = troubles
      BY <3>6 DEF ConfigRefreshed, RefreshFailed, OpenForm, CancelForm, handleRotate,
                  StatusRefreshed, StatusFailed
    <3> QED BY <3>1, <3>2, <3>3, <3>4, <3>5, <3>6 DEF Next
  <2> QED BY <2>1
<1> QED BY <1>1, <1>2, <1>3, ConfigHolds, PTL DEF Spec

(* "Both secrets are accepted" was true when it was read: a row whose window runs has an
   open row beside it, and no two rows hold the same secret of a rotation. *)
THEOREM BannerIsTrue == Spec => []ActiveShownIsTrue
<1>1. ConfigInv => ActiveShownIsTrue
  <2> SUFFICES ASSUME ConfigInv, NEW t \in Tabs, view[t].status.active
               PROVE  view[t].status.both
    BY DEF ActiveShownIsTrue, BannerShown
  <2>1. view[t].status \in ReadStates
    BY DEF ConfigInv, PagesInv, PageInv, View
  <2> QED BY <2>1 DEF ReadStates
<1> QED BY <1>1, ConfigHolds, PTL

(* A save sends what was typed over and nothing that another tab has saved: what is not
   typed over equals what is shown, as long as that was not read again meanwhile. *)
THEOREM SavesAreEdits == Spec => []SaveWritesOnlyEdits
<1>1. ConfigInv => SaveWritesOnlyEdits
  <2> SUFFICES ASSUME ConfigInv, NEW c \in calls, c.kind = "save",
                      c.at \notin {"ok", "failed"}
               PROVE  DOMAIN c.payload \subseteq c.allowed
    BY DEF SaveWritesOnlyEdits
  <2>1. WellFormed(c) /\ CallTyped(c, begins)
    BY DEF ConfigInv, Inv, CallsOK, ServerInv, ServerTyped
  <2>2. IsSave(c)
    BY <2>1 DEF WellFormed, IsOver, IsRotation
  <2> QED BY <2>1, <2>2 DEF CallTyped
<1> QED BY <1>1, ConfigHolds, PTL
===============================================================================
