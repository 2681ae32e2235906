------------------------------ MODULE ConfigPage ------------------------------
(***************************************************************************)
(* Configuration and webhook secrets: the dashboard's Config page and the  *)
(* rotation form of its Health page, over the admin API that rewrites .env *)
(* and gateway_secrets, and the secrets the webhook handler then accepts.  *)
(*                                                                         *)
(* A POST is a record with a stage; the server serves it statement by      *)
(* statement, and goes on when the tab has given up on it.  Nothing locks  *)
(* .env, the configuration in memory or, between statements, the rows.     *)
(* The process may crash and start again from .env, which a start reads    *)
(* otherwise than a save: a save keeps the text typed, a start strips it,  *)
(* and puts a default for what is blank or no number.  Messages of success *)
(* and of failure guard nothing and are left out.                          *)
(***************************************************************************)
EXTENDS Integers, FiniteSets

CONSTANTS
    PlainKeys,    \* the variables that are shown and edited as text
    NumberKeys,   \* those of them that hold a number
    Texts,        \* variable -> the texts typed for it
    Stripped,     \* text -> what is left of it without spaces and quotes around it
    Number,       \* text -> the number it stands for, where it stands for one
    Default,      \* variable -> its value when it is blank or, for a number, no number
    ValidKeys,    \* the values of SECRET_ENCRYPTION_KEY that ParseKey takes
    Environ,      \* variable -> its value in the environment the process is started in
    FirstLines,   \* variable -> its text in .env at the start
    Tabs,         \* browser tabs
    Landing,      \* the page each tab is opened on
    MaxTyped,     \* bound: variables typed over between two saves
    MaxPosts,     \* bound: rotations and saves sent
    MaxTroubles,  \* bound: pages left, crashes and connections lost, together
    NoTab

Blank      == -1   \* '': what a secret is shown as, and an input left empty
Values     == -1..9
SecretKeys == {"WEBHOOK_SECRET", "SECRET_ENCRYPTION_KEY"}
Keys       == PlainKeys \cup SecretKeys
Pages      == {"config", "health"}

(* A server does not start without them; no page edits the second. *)
Required == {"WEBHOOK_SECRET", "DATABASE_URL"}
LineKeys == Keys \cup Required

ASSUME ConstantsOK ==
    /\ IsFiniteSet(Keys) /\ PlainKeys \cap (SecretKeys \cup Required) = {}
    /\ NumberKeys \subseteq PlainKeys
    /\ DOMAIN Texts = Keys /\ \A k \in Keys : Texts[k] \subseteq Values
    /\ Stripped \in [Values -> Values] /\ Stripped[Blank] = Blank
    /\ DOMAIN Number \subseteq 0..9 /\ \A n \in DOMAIN Number : Number[n] \in 0..9
    /\ Default \in [Keys -> Values]
    /\ ValidKeys \subseteq 0..9
    /\ DOMAIN Environ \subseteq LineKeys /\ \A k \in DOMAIN Environ : Environ[k] \in 0..9
    /\ FirstLines = [k \in DOMAIN FirstLines |-> FirstLines[k]]
    /\ DOMAIN FirstLines \subseteq LineKeys
    /\ \A k \in DOMAIN FirstLines : FirstLines[k] \in Values
    /\ \A k \in Required \ DOMAIN Environ :
         k \in DOMAIN FirstLines /\ Stripped[FirstLines[k]] # Blank
    /\ Landing \in [Tabs -> Pages] /\ NoTab \notin Tabs
    /\ {MaxTyped, MaxPosts, MaxTroubles} \subseteq Nat

VARIABLES
    up,      \* the server runs
    cfg,     \* h.cfg: variable -> value
    env,     \* .env: variable -> text, of the lines it holds
    rows,    \* gateway_secrets of the gateway
    over,    \* the rotations whose window has ended
    begins,  \* transactions begun so far; orders created_at
    calls,   \* the POSTs in flight
    posts,   \* POSTs sent so far; numbers them
    troubles, \* pages left, crashes and connections lost so far
    view,    \* per tab: the page mounted and its state
    newest,  \* history: the secret of the rotation committed last, and its key
    mishaps, \* history: "rotate" and "save", when such calls met another of their kind,
             \* and "lost", when a save failed to read or to write .env
    unapplied \* history: the variables that a crash caught written to .env but not in h.cfg

server  == <<up, cfg, env, rows, over, begins, newest, mishaps, unapplied>>
browser == <<posts, view>>
vars    == <<server, troubles, calls, browser>>

Shown(c) == [k \in Keys |-> IF k \in PlainKeys THEN c[k] ELSE Blank]
Nothing  == [k \in {} |-> Blank]

(* The values of f, and those of g for what f does not have.  TLC's @@ does the same,
   but no prover knows it. *)
Overlay(f, g) ==
    [k \in DOMAIN f \cup DOMAIN g |-> IF k \in DOMAIN f THEN f[k] ELSE g[k]]

None   == [sort |-> "none"]
Asked  == [sort |-> "asked"]
Got(v) == [sort |-> "got", value |-> v]

NoStatus == [active |-> FALSE, both |-> FALSE]

(* A page just mounted: both reads are sent. *)
Mounted(page) ==
    [page |-> page, loading |-> TRUE, config |-> Nothing, status |-> NoStatus,
     configRead |-> Asked, statusRead |-> Asked,
     editing |-> FALSE, edited |-> Nothing, saving |-> FALSE,
     form |-> FALSE, rotating |-> FALSE,
     touched |-> {}, crossed |-> FALSE]

(* A call whose tab has gone is forgotten when it is over. *)
InFlight(cs) == {c \in cs : c.tab # NoTab \/ c.at \notin {"ok", "failed"}}

Move(c, d) == calls' = InFlight((calls \ {c}) \cup {d})
To(c, at)  == Move(c, [c EXCEPT !.at = at])

(* Of a call that is over its outcome remains. *)
Ended(c, at) == [kind |-> c.kind, id |-> c.id, tab |-> c.tab, at |-> at]
End(c, at)   == Move(c, Ended(c, at))

Trouble == troubles < MaxTroubles /\ troubles' = troubles + 1

-------------------------------------------------------------------------------
(* Which secrets a webhook may be signed with.                             *)

(* rotation_window_end IS NULL OR rotation_window_end > now(). *)
IsActive(r) == r.until = 0 \/ r.until \notin over

ActiveRows == {r \in rows : IsActive(r)}

(* A row that was encrypted under another key is skipped. *)
activeSecrets ==
    {r.secret : r \in {q \in ActiveRows : q.key = cfg["SECRET_ENCRYPTION_KEY"]
                                          /\ q.key \in ValidKeys}}

(* verify: without such a row the configured secret counts. *)
Accepted == IF activeSecrets = {} THEN {cfg["WEBHOOK_SECRET"]} ELSE activeSecrets

WindowEnds ==
    /\ \E r \in ActiveRows : r.until # 0 /\ over' = over \cup {r.until}
    /\ UNCHANGED <<up, cfg, env, rows, begins, newest, mishaps, unapplied, troubles, calls,
                   browser>>

-------------------------------------------------------------------------------
(* POST /config/rotate-secret: one transaction, READ COMMITTED.            *)

(* Secrets typed into a form are new: they are numbered after the configured ones. *)
NewSecret(c) == 9 + c.id

Rotations == {c \in calls : c.kind = "rotate" /\ c.at \in {"counted", "found"}}

(* A rotation that has read the key and the configured secret, and whether a row is
   active. *)
Counted(c) ==
    [c EXCEPT !.at = "counted", !.begun = begins + 1, !.first = ActiveRows = {},
              !.key = cfg["SECRET_ENCRYPTION_KEY"], !.current = cfg["WEBHOOK_SECRET"]]

(* The body and the key are checked, the configured secret is read, the
   transaction begins and counts the active rows. *)
CountActive(c) ==
    /\ c.kind = "rotate" /\ c.at = "sent"
    /\ c.gateway /\ cfg["SECRET_ENCRYPTION_KEY"] \in ValidKeys
    /\ begins' = begins + 1
    /\ mishaps' = IF Rotations # {} THEN mishaps \cup {"rotate"} ELSE mishaps
    /\ Move(c, Counted(c))
    /\ UNCHANGED <<up, cfg, env, rows, over, newest, unapplied, troubles, browser>>

Found(c) == [c EXCEPT !.at = "found", !.found = {r \in rows : r.until = 0}]

(* The rows the UPDATE finds open.  It waits for another UPDATE of the same row
   and then skips it: see Closing. *)
FindOpen(c) ==
    /\ c.kind = "rotate" /\ c.at = "counted" /\ ~c.first
    /\ Move(c, Found(c))
    /\ UNCHANGED <<server, troubles, browser>>

Row(c, secret, until) ==
    [secret |-> secret, key |-> c.key, begun |-> c.begun, until |-> until]

(* Wrong: the open rows are left open. *)
NoneClosed(c) == rows

(* Wrong: the first rotation does not store the configured secret. *)
CurrentForgotten(c) ==
    {IF r \in c.found THEN [r EXCEPT !.until = c.id] ELSE r : r \in rows}

(* The rows but for the new one: with none active before, the configured secret
   gets the row whose window ends. *)
Closing(c) ==
    IF c.first THEN rows \cup {Row(c, c.current, c.id)}
    ELSE {IF r \in c.found THEN [r EXCEPT !.until = c.id] ELSE r : r \in rows}

(* Wrong: the new row is inserted before the UPDATE, which finds it, too. *)
NewRowClosing(c) == Row(c, NewSecret(c), IF c.first THEN 0 ELSE c.id)

NewRow(c) == Row(c, NewSecret(c), 0)

CommitRotation(c) ==
    /\ c.kind = "rotate" /\ (c.at = "found" \/ (c.at = "counted" /\ c.first))
    /\ rows' = Closing(c) \cup {NewRow(c)}
    /\ newest' = [secret |-> NewSecret(c), key |-> c.key]
    /\ End(c, "ok")
    /\ UNCHANGED <<up, cfg, env, over, begins, mishaps, unapplied, troubles,
                   browser>>

-------------------------------------------------------------------------------
(* POST /config.                                                           *)

Saves == {c \in calls : c.kind = "save" /\ c.at \in {"read", "truncated", "written"}}

(* A bound: one read or write of .env fails, and none after the last trouble, which no
   other restart follows. *)
FileMayFail == "lost" \notin mishaps /\ troubles < MaxTroubles

Reading(c, f) == [c EXCEPT !.at = "read", !.base = f]

(* Other saves may be anywhere between their own reading and answering.  A read that
   fails is taken for an empty file. *)
ReadEnv(c) ==
    /\ c.kind = "save" /\ c.at = "sent"
    /\ \E f \in {env} \cup (IF FileMayFail THEN {Nothing} ELSE {}) :
         /\ mishaps' = mishaps \cup (IF Saves # {} THEN {"save"} ELSE {})
                               \cup (IF f # env THEN {"lost"} ELSE {})
         /\ Move(c, Reading(c, f))
    /\ UNCHANGED <<up, cfg, env, rows, over, begins, newest, unapplied, troubles, browser>>

(* os.WriteFile truncates, then writes. *)
Truncate(c) ==
    /\ c.kind = "save" /\ c.at = "read"
    /\ env' = Nothing
    /\ To(c, "truncated")
    /\ UNCHANGED <<up, cfg, rows, over, begins, newest, mishaps, unapplied, troubles,
                   browser>>

(* Wrong: lines for keys that .env holds already are not replaced. *)
MergedKeepsOld(c) == Overlay(c.base, c.payload)

(* Wrong: the lines that are not replaced are not kept. *)
MergedForgets(c) == c.payload

(* Lines with a key of the request are replaced, the other keys appended. *)
Merged(c) == Overlay(c.payload, c.base)

WriteEnv(c) ==
    /\ c.kind = "save" /\ c.at = "truncated"
    /\ env' = Merged(c)
    /\ To(c, "written")
    /\ UNCHANGED <<up, cfg, rows, over, begins, newest, mishaps, unapplied, troubles,
                   browser>>

(* The file stays empty. *)
WriteFails(c) ==
    /\ c.kind = "save" /\ c.at = "truncated" /\ FileMayFail
    /\ mishaps' = mishaps \cup {"lost"}
    /\ End(c, "failed")
    /\ UNCHANGED <<up, cfg, env, rows, over, begins, newest, unapplied, troubles, browser>>

(* Texts are taken as they are, numbers if they are numbers. *)
Applied(payload) ==
    [k \in Keys |->
       IF k \notin DOMAIN payload THEN cfg[k]
       ELSE IF k \notin NumberKeys THEN payload[k]
       ELSE IF payload[k] \in DOMAIN Number THEN Number[payload[k]] ELSE cfg[k]]

ApplyConfig(c) ==
    /\ c.kind = "save" /\ c.at = "written"
    /\ cfg' = Applied(c.payload)
    /\ End(c, "ok")
    /\ UNCHANGED <<up, env, rows, over, begins, newest, mishaps, unapplied, troubles,
                   browser>>

(* A check, a statement or the commit fails: the transaction is rolled back; of a
   save nothing was written yet. *)
Refuse(c) ==
    /\ c.at \in IF c.kind = "rotate" THEN {"sent", "counted", "found"} ELSE {"sent", "read"}
    /\ End(c, "failed")
    /\ UNCHANGED <<server, troubles, browser>>

Serve(c) ==
    \/ /\ up
       /\ \/ CountActive(c) \/ FindOpen(c) \/ CommitRotation(c)
          \/ ReadEnv(c) \/ Truncate(c) \/ WriteEnv(c) \/ WriteFails(c) \/ ApplyConfig(c)
    \/ Refuse(c)

-------------------------------------------------------------------------------
(* Crash and restart.                                                      *)

(* The calls in flight end without an answer; h.cfg is remembered here for what the next
   start is compared with. *)
Crash ==
    /\ up /\ Trouble
    /\ up' = FALSE
    /\ calls' = InFlight({Ended(c, "failed") : c \in calls})
    /\ mishaps' = IF \E c \in Saves : c.at = "truncated" THEN mishaps \cup {"lost"}
                  ELSE mishaps
    /\ unapplied' = UNION {DOMAIN c.payload : c \in {s \in Saves : s.at = "written"}}
    /\ UNCHANGED <<cfg, env, rows, over, begins, newest, browser>>

(* What a process started on the lines f has in its environment: loadDotEnv adds to it
   and replaces nothing. *)
Environment(f) == Overlay(Environ, [k \in DOMAIN f |-> Stripped[f[k]]])

Text(f, k) == IF k \in DOMAIN Environment(f) THEN Environment(f)[k] ELSE Blank

Loaded(f) ==
    [k \in Keys |->
       LET text == Text(f, k)
       IN  IF k \in NumberKeys
           THEN IF text \in DOMAIN Number THEN Number[text] ELSE Default[k]
           ELSE IF text # Blank THEN text ELSE Default[k]]

(* Load refuses to start without the required variables. *)
Start ==
    /\ ~up /\ \A k \in Required : Text(env, k) # Blank
    /\ up' = TRUE /\ cfg' = Loaded(env) /\ unapplied' = {}
    /\ UNCHANGED <<env, rows, over, begins, newest, mishaps, troubles, calls, browser>>

-------------------------------------------------------------------------------
(* GET /config and GET /config/rotation-status.                            *)

ReadConfig(t) ==
    /\ up /\ view[t].configRead = Asked
    /\ view' = [view EXCEPT ![t].configRead = Got(Shown(cfg))]
    /\ UNCHANGED <<server, troubles, calls, posts>>

(* Wrong: any row with a window counts as a rotation under way. *)
WindowSet(r) == r.until # 0

(* is_active of the row read. *)
WindowRuns(r) == r.until # 0 /\ r.until \notin over

(* ORDER BY created_at DESC LIMIT 1: the two rows of a first rotation are of the
   same instant, and either may be the one.  "both" is history. *)
ReadStatus(t) ==
    /\ up /\ view[t].statusRead = Asked
    /\ \E st \in IF rows = {} THEN {NoStatus} ELSE
                  {[active |-> WindowRuns(r),
                    both |-> \/ \E q \in ActiveRows : q.key # cfg["SECRET_ENCRYPTION_KEY"]
                             \/ \E q, o \in Accepted : q # o]
                     : r \in {q \in rows : \A o \in rows : o.begun <= q.begun}} :
         view' = [view EXCEPT ![t].statusRead = Got(st)]
    /\ UNCHANGED <<server, troubles, calls, posts>>

-------------------------------------------------------------------------------
(* Mounting and loading a page.                                            *)

(* The answers still to come to the page that is left are dropped; its POSTs go on. *)
Visit(t, page) ==
    /\ Trouble
    /\ view' = [view EXCEPT ![t] = Mounted(page)]
    /\ calls' = InFlight({IF c.tab = t THEN [c EXCEPT !.tab = NoTab] ELSE c : c \in calls})
    /\ UNCHANGED <<server, posts>>

LoadDone(t) ==
    /\ view[t].loading
    /\ view[t].configRead.sort = "got" /\ view[t].statusRead.sort = "got"
    /\ view' = [view EXCEPT ![t].loading = FALSE,
                            ![t].config = view[t].configRead.value,
                            ![t].status = view[t].statusRead.value,
                            ![t].configRead = None, ![t].statusRead = None]
    /\ UNCHANGED <<server, troubles, calls, posts>>

(* Without an answer the page is shown with an empty configuration. *)
LoadFailed(t) ==
    /\ view[t].loading
    /\ view' = [view EXCEPT ![t].loading = FALSE,
                            ![t].configRead = None, ![t].statusRead = None]
    /\ UNCHANGED <<server, troubles, calls, posts>>

-------------------------------------------------------------------------------
(* Editing and saving the configuration.                                   *)

(* Every input starts with what is shown.  "crossed" is history: what is shown is
   being read again. *)
Edit(t) ==
    /\ posts < MaxPosts
    /\ view[t].page = "config" /\ ~view[t].loading /\ ~view[t].editing
    /\ view' = [view EXCEPT ![t].editing = TRUE, ![t].edited = view[t].config,
                            ![t].crossed = view[t].configRead # None]
    /\ UNCHANGED <<server, troubles, calls, posts>>

(* The values typed are not read again: Edit sets all of them. *)
Edited(v) ==
    [v EXCEPT !.editing = FALSE, !.edited = Nothing, !.touched = {}, !.crossed = FALSE]

(* It may be pressed while a save is under way, which goes on. *)
CancelEdit(t) ==
    /\ view[t].editing
    /\ view' = [view EXCEPT ![t] = Edited(@)]
    /\ UNCHANGED <<server, troubles, calls, posts>>

(* Wrong: the values of all text inputs are sent. *)
EveryText(edited, config) ==
    [k \in {q \in DOMAIN config : edited[q] # Blank} |-> edited[k]]

(* The inputs that differ from what is shown; a secret is shown as blank. *)
Payload(edited, config) ==
    [k \in {q \in DOMAIN config : edited[q] # config[q]} |-> edited[k]]

(* What the operator types over before a save. *)
Typings(t) ==
    UNION {[ks -> Values] : ks \in {s \in SUBSET DOMAIN view[t].config :
                                    Cardinality(s) <= MaxTyped}}

(* Without a difference nothing is sent. *)
handleSaveConfig(t) ==
    /\ view[t].editing /\ ~view[t].saving
    /\ \E typed \in Typings(t) :
         LET edited  == Overlay(typed, view[t].edited)
             payload == Payload(edited, view[t].config)
             touched == view[t].touched \cup DOMAIN typed
         IN /\ \A k \in DOMAIN typed : typed[k] \in Texts[k]
            /\ IF DOMAIN payload = {}
               THEN /\ view' = [view EXCEPT ![t] = Edited(@)]
                    /\ UNCHANGED <<calls, posts>>
               ELSE /\ posts < MaxPosts /\ posts' = posts + 1
                    /\ view' = [view EXCEPT ![t].saving = TRUE, ![t].edited = edited,
                                            ![t].touched = touched]
                    /\ calls' = calls \cup
                         {[kind |-> "save", id |-> posts + 1, tab |-> t, at |-> "sent",
                           payload |-> payload, base |-> Nothing,
                           allowed |-> IF view[t].crossed THEN Keys ELSE touched]}
    /\ UNCHANGED <<server, troubles>>

(* After a success the configuration is read again before the save is over. *)
SaveAnswered(t, ok) ==
    view' = IF ok
            THEN [view EXCEPT ![t] = [Edited(@) EXCEPT !.configRead = Asked]]
            ELSE [view EXCEPT ![t].saving = FALSE]

ConfigRefreshed(t) ==
    /\ view[t].saving /\ view[t].configRead.sort = "got"
    /\ view' = [view EXCEPT ![t].saving = FALSE, ![t].configRead = None,
                            ![t].config = view[t].configRead.value]
    /\ UNCHANGED <<server, troubles, calls, posts>>

(* Wrong: the save is over before the configuration has been read again. *)
RefreshKeepsRead(t) ==
    /\ view[t].saving /\ view[t].configRead # None
    /\ view' = [view EXCEPT ![t].saving = FALSE]
    /\ UNCHANGED <<server, troubles, calls, posts>>

(* What is shown stays as it was before the save. *)
RefreshFailed(t) ==
    /\ view[t].saving /\ view[t].configRead # None
    /\ view' = [view EXCEPT ![t].saving = FALSE, ![t].configRead = None]
    /\ UNCHANGED <<server, troubles, calls, posts>>

-------------------------------------------------------------------------------
(* Rotating the secret.                                                    *)

(* "ROTATION ACTIVE": the banner takes the place of the button and of the form. *)
BannerShown(t) == ~view[t].loading /\ view[t].status.active

(* Health's form names none, and is refused for it. *)
NamesGateway(t) == view[t].page = "config"

OpenForm(t) ==
    /\ posts < MaxPosts
    /\ ~view[t].loading /\ ~BannerShown(t) /\ ~view[t].form
    /\ view' = [view EXCEPT ![t].form = TRUE]
    /\ UNCHANGED <<server, troubles, calls, posts>>

CancelForm(t) ==
    /\ view[t].form /\ ~BannerShown(t)
    /\ view' = [view EXCEPT ![t].form = FALSE]
    /\ UNCHANGED <<server, troubles, calls, posts>>

(* A blank secret is refused by the page itself, without a request. *)
handleRotate(t) ==
    /\ view[t].form /\ ~BannerShown(t) /\ ~view[t].rotating
    /\ posts < MaxPosts /\ posts' = posts + 1
    /\ view' = [view EXCEPT ![t].rotating = TRUE]
    /\ calls' = calls \cup
         {[kind |-> "rotate", id |-> posts + 1, tab |-> t, at |-> "sent",
           gateway |-> NamesGateway(t), begun |-> 0, first |-> FALSE,
           found |-> {}, key |-> 0, current |-> 0]}
    /\ UNCHANGED <<server, troubles>>

(* After a success the status is read again before the rotation is over. *)
RotateAnswered(t, ok) ==
    view' = IF ok
            THEN [view EXCEPT ![t].form = FALSE, ![t].statusRead = Asked]
            ELSE [view EXCEPT ![t].rotating = FALSE]

StatusRefreshed(t) ==
    /\ view[t].rotating /\ view[t].statusRead.sort = "got"
    /\ view' = [view EXCEPT ![t].rotating = FALSE, ![t].statusRead = None,
                            ![t].status = view[t].statusRead.value]
    /\ UNCHANGED <<server, troubles, calls, posts>>

StatusFailed(t) ==
    /\ view[t].rotating /\ view[t].statusRead # None
    /\ view' = [view EXCEPT ![t].rotating = FALSE, ![t].statusRead = None]
    /\ UNCHANGED <<server, troubles, calls, posts>>

-------------------------------------------------------------------------------
(* The end of a POST.                                                      *)

Told(c, ok) ==
    IF c.kind = "save" THEN SaveAnswered(c.tab, ok) ELSE RotateAnswered(c.tab, ok)

PostAnswered(c) ==
    /\ c.tab # NoTab /\ c.at \in {"ok", "failed"}
    /\ calls' = calls \ {c}
    /\ Told(c, c.at = "ok")
    /\ UNCHANGED <<server, troubles, posts>>

(* The connection is lost: the tab shows an error, the server may go on. *)
PostLost(c) ==
    /\ c.tab # NoTab
    /\ Trouble
    /\ Move(c, [c EXCEPT !.tab = NoTab])
    /\ Told(c, FALSE)
    /\ UNCHANGED <<server, posts>>

-------------------------------------------------------------------------------

Init ==
    /\ up = TRUE /\ env = FirstLines /\ cfg = Loaded(FirstLines)
    /\ rows = {} /\ over = {} /\ begins = 0
    /\ calls = {} /\ posts = 0 /\ troubles = 0
    /\ view = [t \in Tabs |-> Mounted(Landing[t])]
    /\ newest = [secret |-> Blank, key |-> Blank] /\ mishaps = {} /\ unapplied = {}

Next ==
    \/ WindowEnds \/ Crash \/ Start
    \/ \E c \in calls : Serve(c) \/ PostAnswered(c) \/ PostLost(c)
    \/ \E t \in Tabs :
         \/ \E page \in Pages : Visit(t, page)
         \/ ReadConfig(t) \/ ReadStatus(t) \/ LoadDone(t) \/ LoadFailed(t)
         \/ Edit(t) \/ CancelEdit(t) \/ handleSaveConfig(t)
         \/ ConfigRefreshed(t) \/ RefreshFailed(t)
         \/ OpenForm(t) \/ CancelForm(t) \/ handleRotate(t)
         \/ StatusRefreshed(t) \/ StatusFailed(t)

Spec == Init /\ [][Next]_vars

-------------------------------------------------------------------------------
(* Properties.                                                             *)

Lines(f)  == DOMAIN f \subseteq LineKeys /\ \A k \in DOMAIN f : f[k] \in Values
Status    == [active : BOOLEAN, both : BOOLEAN]
TabOrNone == Tabs \cup {NoTab}
Secrets   == Values \cup 0..(9 + MaxPosts)
SomeRow   == [secret : Secrets, key : Values, begun : Nat \ {0}, until : 0..MaxPosts]

Stages == {"sent", "counted", "found", "read", "truncated", "written", "ok", "failed"}

CallOK(c) ==
    /\ c.kind \in {"save", "rotate"} /\ c.id \in 1..posts /\ c.tab \in TabOrNone
    /\ c.at \in Stages
    /\ c.at \notin {"ok", "failed"} =>
         IF c.kind = "save" THEN Lines(c.payload) /\ Lines(c.base)
         ELSE c.begun <= begins /\ {c.key, c.current} \subseteq Values

ViewOK(v) ==
    /\ v.page \in Pages /\ Lines(v.config) /\ Lines(v.edited)
    /\ v.status \in Status
    /\ v.configRead.sort \in {"none", "asked", "got"}
    /\ v.statusRead.sort \in {"none", "asked", "got"}
    /\ {v.loading, v.editing, v.saving, v.form, v.rotating, v.crossed} \subseteq BOOLEAN
    /\ v.touched \subseteq Keys
    /\ v.configRead # None => v.loading \/ v.saving
    /\ v.statusRead # None => v.loading \/ v.rotating

(* Every variable has its type, and a read in flight belongs to a load, a save or a
   rotation of its page. *)
TypeOK ==
    /\ up \in BOOLEAN /\ cfg \in [Keys -> Values] /\ Lines(env)
    /\ rows \subseteq SomeRow /\ over \subseteq 1..MaxPosts
    /\ {begins, posts, troubles} \subseteq Nat
    /\ \A c \in calls : CallOK(c)
    /\ \A t \in Tabs : ViewOK(view[t])
    /\ mishaps \subseteq {"rotate", "save", "lost"} /\ unapplied \subseteq LineKeys

(* The gateway may go on signing with any secret it could use: a secret is refused
   from one step to the next only because its own window has ended, or because the
   encryption key or, before the first rotation, the secret itself was changed.  A
   commit refuses one only if WEBHOOK_SECRET was saved while the first rotation ran,
   or if the rows it found were not decryptable any more. *)
AcceptedUntilWindowEnds ==
    [][\/ Accepted \subseteq
            Accepted' \cup {r.secret : r \in {q \in rows : q.until \in over' \ over}}
       \/ /\ cfg' # cfg
          /\ \/ activeSecrets = {}
             \/ cfg'["SECRET_ENCRYPTION_KEY"] # cfg["SECRET_ENCRYPTION_KEY"]
       \/ /\ rows' # rows
          /\ \/ \E c \in Rotations : c.first /\ c.current # cfg["WEBHOOK_SECRET"]
             \/ \E r \in ActiveRows : r.key # cfg["SECRET_ENCRYPTION_KEY"]]_vars

(* The secret of the rotation that was committed last is accepted for as long as the
   key it was encrypted with is the configured one: no window that ends, no later
   save of the secret and no rotation that overlapped takes it away. *)
NewSecretAccepted ==
    newest.key \in ValidKeys /\ newest.key = cfg["SECRET_ENCRYPTION_KEY"]
      => newest.secret \in Accepted

(* Secrets do not pile up: but for rotations that overlapped, one row at most has no
   end of its window. *)
AtMostOneOpen ==
    "rotate" \notin mishaps => Cardinality({r \in rows : r.until = 0}) <= 1

(* "Both old and new keys are being accepted" was true when the status was read,
   unless the encryption key was no longer the one an active row was stored with: such
   a row is skipped. *)
ActiveShownIsTrue ==
    \A t \in Tabs : BannerShown(t) => view[t].status.both

(* A save sends only what was typed over since Edit was pressed, and so never sets
   back what another tab or an earlier save has set.  It does when Edit was pressed
   while the page was still reading the configuration again after a save. *)
SaveWritesOnlyEdits ==
    \A c \in calls :
      c.kind = "save" /\ c.at \notin {"ok", "failed"} => DOMAIN c.payload \subseteq c.allowed

(* A text that a start takes for what a save has put into memory. *)
Plain(k, text) ==
    /\ Stripped[text] = text
    /\ IF k \in NumberKeys THEN text \in DOMAIN Number ELSE text # Blank

(* A restart brings back the configuration that was in effect, whenever the process
   crashed: of the save it met, all or nothing.  It does not bring back what the
   environment of the process sets otherwise, what was typed blank, in quotes or as no
   number, the lines lost when .env could not be read or written, and what saves that
   overlapped have done. *)
SavedSurvivesRestart ==
    [][~up /\ up' => \A k \in Keys :
         \/ cfg'[k] = cfg[k]
         \/ k \in unapplied \cup DOMAIN Environ
         \/ k \in DOMAIN env /\ ~Plain(k, env[k])
         \/ "lost" \in mishaps /\ k \notin DOMAIN env
         \/ "save" \in mishaps]_vars

(* The server can be started again at any time but while a save has emptied .env: no
   save takes away a required line, unless it could not read or write the file, met
   another save, or was given a text that comes to nothing. *)
RestartPossible ==
    mishaps \cap {"save", "lost"} = {} /\ (\A c \in Saves : c.at # "truncated") =>
      \A k \in Required :
        Text(env, k) # Blank \/ (k \in DOMAIN env /\ ~Plain(k, env[k]))
===============================================================================
