---------------------------- MODULE ConfigStore -----------------------------
(***************************************************************************)
(* The files of the user's settings: the configuration, the draft, the     *)
(* source profiles and the backups, with the commands that read and write  *)
(* them (config.save, draft.*, source_profiles.*, archive.import, WebDAV   *)
(* backup), the source statuses a probe notes in the configuration and the *)
(* scheduler's "recent run" profile.                                       *)
(*                                                                         *)
(* Every file is replaced atomically.  configMu orders the writes of the   *)
(* configuration; only a probe's statuses are also read under it.  The     *)
(* profile commands write two files and put the first one back when the    *)
(* second fails; an import restores both.  Any write may fail.             *)
(*                                                                         *)
(* A configuration is what the user set (the number of the edit), the      *)
(* sources, the statuses and saved_at, which has a resolution of two       *)
(* ticks.  Reading two files at the start of a command is one step.        *)
(***************************************************************************)
EXTENDS Naturals, Sequences, SequencesExt, Filtering

CONSTANTS
    Callers,    \* pages that issue commands
    Probe,      \* the probe that notes source statuses
    Srcs,       \* lists of sources
    NoSrc,      \* the empty list
    Default,    \* DefaultSourceProfileID
    Recent,     \* RecentRunSourceProfileID
    Ids,        \* identifiers a page may choose or the service may draw
    None,       \* no file, no id, nobody
    MaxEdits,   \* bound: config.save and draft.save calls
    MaxOps      \* bound: commands of any other kind

NamesAssumption ==
    /\ Default # Recent /\ {Default, Recent} \cap Ids = {}
    /\ None \notin Ids \cup {Default, Recent} \cup Callers \cup {Probe}
BoundsAssumption == {MaxEdits, MaxOps} \subseteq Nat

VARIABLES
    cfg,        \* the configuration file
    draft,      \* the draft file
    bak,        \* the configuration's .v1.bak
    profiles,   \* source-profiles.json
    backup,     \* the pre-import archive
    lock,       \* who holds configMu
    page,       \* the configuration each page shows
    op,         \* the command each caller has under way
    tick,       \* the clock
    edits, ops, \* counters of the bounds
    before,     \* history variable: the files when the command began
    spoilt,     \* history variable: a rollback failed, or was
                \* made while another held configMu
    met         \* history variable: whose command met another's

counters == <<edits, ops>>
ghosts == <<before, spoilt, met>>
vars == <<cfg, draft, bak, profiles, backup, lock, page, op, tick, counters,
          ghosts>>

Actors == Callers \cup {Probe}
AnySrc == Srcs \cup {NoSrc}
AllIds == Ids \cup {Default, Recent}
Config(user, src, schema) ==
    [user |-> user, src |-> src, stat |-> 0, tick |-> 0, schema |-> schema]
Blank == [active |-> Default, items |-> <<[id |-> Default, src |-> NoSrc]>>]
Empty == [active |-> None, items |-> <<>>]
Idle == [kind |-> "none", pc |-> "idle", snap |-> Config(0, NoSrc, "v2"),
         next |-> Empty, prev |-> Empty, wcfg |-> FALSE, ok |-> TRUE]
Legacy == Config(0, NoSrc, "v1")

Configs == [user : 0 .. MaxEdits, src : AnySrc, stat : Nat, tick : Nat,
            schema : {"v1", "v2"}]
FilesAssumption == None \notin Configs
IsStore(s) ==
    /\ s.active \in AllIds \cup {None}
    /\ \A i \in 1 .. Len(s.items) : s.items[i].id \in AllIds
                                 /\ s.items[i].src \in AnySrc
    /\ \A i, j \in 1 .. Len(s.items) :
         s.items[i].id = s.items[j].id => i = j

TypeOK ==
    /\ cfg \in Configs
    /\ draft \in Configs \cup {None}
    /\ bak \in Configs \cup {None}
    /\ IsStore(profiles)
    /\ lock \in Actors \cup {None}
    /\ \A a \in Actors :
         /\ op[a].kind \in {"none", "save", "profile", "webdav", "import",
                            "status"}
         /\ op[a].pc \in {"idle", "store", "lock", "write", "undo", "backup",
                          "restore", "discard"}
         /\ IsStore(op[a].next)

Init ==
    /\ cfg \in {Legacy, Config(0, NoSrc, "v2")}
    /\ draft = None /\ bak = None /\ backup = None /\ lock = None
    /\ profiles = Empty
    /\ page = [c \in Callers |-> cfg]
    /\ op = [a \in Actors |-> Idle]
    /\ tick = 1 /\ edits = 0 /\ ops = 0
    /\ before = [a \in Actors |-> [cfg |-> cfg, profiles |-> profiles]]
    /\ spoilt = FALSE /\ met = {}

-----------------------------------------------------------------------------
(* The profile store.                                                      *)

Has(s, id) == \E i \in 1 .. Len(s.items) : s.items[i].id = id

\* IsBlankSourceProfilePlaceholder; nobody renames the default profile.
IsBlank(s) == s = Blank

\* Mutant: an item of the same id is not looked for.
PutAppend(items, id, src) ==
    IF \E i \in 1 .. Len(items) : FALSE
    THEN [i \in 1 .. Len(items) |->
            IF items[i].id = id THEN [items[i] EXCEPT !.src = src]
                                ELSE items[i]]
    ELSE Append(items, [id |-> id, src |-> src])

\* The item of that id gets the sources, or a new item is added.
Put(items, id, src) ==
    IF \E i \in 1 .. Len(items) : items[i].id = id
    THEN [i \in 1 .. Len(items) |->
            IF items[i].id = id THEN [items[i] EXCEPT !.src = src]
                                ELSE items[i]]
    ELSE Append(items, [id |-> id, src |-> src])

\* EnsureSourceProfileStore.
Ensured(s) ==
    IF s.items = <<>> THEN Blank
    ELSE IF s.active = None THEN [s EXCEPT !.active = s.items[1].id] ELSE s

\* loadSourceProfileContext.
Context == Ensured(profiles)

\* ActiveSourceProfileSources; no two items have one identifier.
ActiveSources(s) ==
    IF Has(s, s.active)
    THEN LET i == CHOOSE i \in 1 .. Len(s.items) : s.items[i].id = s.active
         IN  s.items[i].src
    ELSE IF s.items = <<>> THEN NoSrc ELSE s.items[1].src

WithoutBlank(s) == IF IsBlank(s) THEN <<>> ELSE s.items

\* SaveSourceProfile.
Saved(s, id, src, active) ==
    [active |-> IF active THEN id ELSE s.active,
     items |-> Put(IF id = Default THEN s.items ELSE WithoutBlank(s), id,
                   src)]

\* Mutant: the profile does not become the active one.
UpdatedKeepsActive(s, id, src) ==
    [active |-> s.active, items |-> Put(WithoutBlank(s), id, src)]

\* UpdateCurrentSourceProfile.
Updated(s, id, src) ==
    [active |-> id, items |-> Put(WithoutBlank(s), id, src)]

\* DeleteSourceProfile.
Deleted(s, id) ==
    LET rest == OnlyIn(s.items, {it \in ToSet(s.items) : it.id # id})
    IN  IF rest = <<>> THEN Blank
        ELSE [active |-> IF s.active = id THEN rest[1].id ELSE s.active,
              items |-> rest]

\* NormalizeSourceProfileStoreForSave.
Normalized(s) ==
    IF s.items # <<>> /\ ~Has(s, s.active)
    THEN [s EXCEPT !.active = s.items[1].id] ELSE s

\* The stores an archive or a save_store command may bring along.
Incoming(src) ==
    {Normalized([active |-> a, items |-> <<[id |-> Default, src |-> src]>>])
       : a \in {Default, None}}

-----------------------------------------------------------------------------
(* The commands begin.                                                     *)

Start(a, o) ==
    /\ op[a].pc = "idle"
    /\ op' = [op EXCEPT ![a] = o]
    /\ before' = [before EXCEPT ![a] = [cfg |-> cfg, profiles |-> profiles]]
    /\ LET busy == {b \in Actors \ {a} : op[b].pc # "idle"}
       IN  met' = IF busy = {} THEN met \ {a} ELSE met \cup busy \cup {a}

\* Nothing but the caller's command is touched.
Quiet == UNCHANGED <<cfg, draft, bak, profiles, backup, lock, page, tick,
                     spoilt>>

\* config.load.
Open(c) ==
    /\ op[c].pc = "idle"
    /\ page' = [page EXCEPT ![c] = cfg]
    /\ UNCHANGED <<cfg, draft, bak, profiles, backup, lock, op, tick,
                   counters, ghosts>>

\* config.save writes what the page shows, edited.
SaveConfig(c) ==
    /\ edits < MaxEdits
    /\ edits' = edits + 1
    /\ \E src \in AnySrc :
         LET snap == [page[c] EXCEPT !.user = edits + 1, !.src = src]
         IN  /\ Start(c, [Idle EXCEPT !.kind = "save", !.pc = "lock",
                                      !.snap = snap])
             /\ page' = [page EXCEPT ![c] = snap]
    /\ UNCHANGED <<cfg, draft, bak, profiles, backup, lock, tick, ops, spoilt>>

\* draft.save; the draft has no lock.
SaveDraft(c) ==
    /\ edits < MaxEdits
    /\ edits' = edits + 1
    /\ op[c].pc = "idle"
    /\ draft' = [page[c] EXCEPT !.user = edits + 1, !.tick = tick,
                                !.schema = "v2"]
    /\ tick' = tick + 1
    /\ UNCHANGED <<cfg, bak, profiles, backup, lock, page, op, ops, ghosts>>

\* draft.discard.
DiscardDraft(c) ==
    /\ op[c].pc = "idle"
    /\ draft # None
    /\ draft' = None
    /\ UNCHANGED <<cfg, bak, profiles, backup, lock, page, op, tick, counters,
                   ghosts>>

\* A profile command that writes store s, and the configuration with the
\* sources src when wcfg.
ProfileOp(s, wcfg, src) ==
    [Idle EXCEPT !.kind = "profile", !.pc = "store", !.next = s,
                 !.prev = Context, !.wcfg = wcfg,
                 !.snap = [cfg EXCEPT !.src = src]]

Fresh == {id \in Ids : ~Has(Context, id)}

\* The identifier UpdateCurrentSourceProfile writes to.
CurrentIds ==
    IF Context.active \in {None, Default} THEN Fresh ELSE {Context.active}

Profile(c) ==
    /\ ops < MaxOps
    /\ ops' = ops + 1
    /\ UNCHANGED edits
    /\ Quiet
    /\ \/ \E id \in Ids \cup {Default}, src \in AnySrc, active \in BOOLEAN :
            Start(c, ProfileOp(Saved(Context, id, src, active), active, src))
       \/ \E id \in CurrentIds, src \in AnySrc :
            Start(c, ProfileOp(Updated(Context, id, src), TRUE, src))
       \/ \E i \in 1 .. Len(Context.items) :
            LET it == Context.items[i]
            IN  Start(c, ProfileOp([Context EXCEPT !.active = it.id], TRUE,
                                   it.src))
       \/ \E i \in 1 .. Len(Context.items) :
            LET id == Context.items[i].id
            IN  Start(c, ProfileOp(Deleted(Context, id), Context.active = id,
                                   ActiveSources(Deleted(Context, id))))
       \/ \E src \in AnySrc : \E s \in Incoming(src) :
            Start(c, ProfileOp(s, FALSE, src))

\* applySchedulerSourceProfileAction at the end of a scheduled run.
RecentRun ==
    /\ ops < MaxOps
    /\ ops' = ops + 1
    /\ UNCHANGED edits
    /\ Quiet
    /\ \E src \in AnySrc :
         Start(Probe, ProfileOp([active |-> Recent,
                                 items |-> Put(profiles.items, Recent, src)],
                                FALSE, src))

\* archive.import: the page sends what it shows as the current settings.
Import(c) ==
    /\ ops < MaxOps
    /\ ops' = ops + 1
    /\ UNCHANGED edits
    /\ Quiet
    /\ \E src \in AnySrc : \E s \in Incoming(src) :
         Start(c, [Idle EXCEPT !.kind = "import", !.pc = "backup", !.next = s,
                               !.snap = Config(0, src, "v2")])

\* WebDAV backup: the configuration is read, uploaded, and saved again.
WebDAVBackup(c) ==
    /\ ops < MaxOps
    /\ ops' = ops + 1
    /\ UNCHANGED edits
    /\ Quiet
    /\ Start(c, [Idle EXCEPT !.kind = "webdav", !.pc = "lock", !.snap = cfg])

Free == lock = None

\* Mutant: the statuses are read before configMu is taken.
FreeOrNot == TRUE

\* What a probe may take configMu for.
FreeForStatus == Free

\* Mutant: the file of the old schema is not kept.
NotBackedUp == bak

\* saveConfigLocked begins by keeping the first file of the old schema.
BackedUp == IF cfg.schema = "v1" /\ bak = None THEN cfg ELSE bak

\* PersistSourceStatuses takes configMu and reads the configuration.
Status ==
    /\ ops < MaxOps
    /\ FreeForStatus
    /\ ops' = ops + 1
    /\ lock' = Probe
    /\ bak' = BackedUp
    /\ Start(Probe, [Idle EXCEPT !.kind = "status", !.pc = "write",
                                 !.snap = [cfg EXCEPT !.stat = @ + 1]])
    /\ UNCHANGED <<cfg, draft, profiles, backup, page, tick, edits, spoilt>>

-----------------------------------------------------------------------------
(* The commands go on.                                                     *)

Go(a, pc) ==
    op' = [op EXCEPT ![a] = IF pc = "idle" THEN [@ EXCEPT !.pc = "idle"]
                            ELSE [@ EXCEPT !.pc = pc]]
Fail(a, pc) == op' = [op EXCEPT ![a] = [@ EXCEPT !.pc = pc, !.ok = FALSE]]

\* What is left to do when the configuration could not be written.
AfterFailure(kind) ==
    CASE kind = "profile" -> "undo"
      [] kind = "import" -> "restore"
      [] OTHER -> "idle"

AfterWrite(kind) ==
    CASE kind = "import" -> "store"
      [] kind = "save" -> "discard"
      [] OTHER -> "idle"

AfterStore(o) == IF o.kind = "profile" /\ o.wcfg THEN "lock" ELSE "idle"

\* Takes configMu; a failed copy of the old file ends the save.
Lock(a) ==
    /\ op[a].pc = "lock"
    /\ Free
    /\ \/ /\ lock' = a
          /\ bak' = BackedUp
          /\ Go(a, "write")
       \/ /\ BackedUp # bak
          /\ Fail(a, AfterFailure(op[a].kind))
          /\ UNCHANGED <<lock, bak>>
    /\ UNCHANGED <<cfg, draft, profiles, backup, page, tick, counters, ghosts>>

Write(a) ==
    /\ op[a].pc = "write"
    /\ lock' = None
    /\ tick' = tick + 1
    /\ \/ /\ cfg' = [op[a].snap EXCEPT !.tick = tick, !.schema = "v2"]
          /\ Go(a, AfterWrite(op[a].kind))
       \/ /\ Fail(a, AfterFailure(op[a].kind))
          /\ UNCHANGED cfg
    /\ UNCHANGED <<draft, bak, profiles, backup, page, counters, ghosts>>

\* config.save discards the draft, which may fail too.
Discard(a) ==
    /\ op[a].pc = "discard"
    /\ \/ /\ draft' = None
          /\ Go(a, "idle")
       \/ /\ Fail(a, "idle")
          /\ UNCHANGED draft
    /\ UNCHANGED <<cfg, bak, profiles, backup, lock, page, tick, counters,
                   ghosts>>

\* saveSourceProfiles.
Store(a) ==
    /\ op[a].pc = "store"
    /\ \/ /\ profiles' = op[a].next
          /\ Go(a, AfterStore(op[a]))
       \/ /\ Fail(a, IF op[a].kind = "import" THEN "restore" ELSE "idle")
          /\ UNCHANGED profiles
    /\ UNCHANGED <<cfg, draft, bak, backup, lock, page, tick, counters,
                   ghosts>>

\* Mutant: the new store is written once more.
UndoneNew(o) == o.next

\* The store as it was is written again.
Undone(o) == o.prev

Undo(a) ==
    /\ op[a].pc = "undo"
    /\ Go(a, "idle")
    /\ \/ /\ profiles' = Undone(op[a])
          /\ UNCHANGED spoilt
       \/ /\ spoilt' = TRUE
          /\ UNCHANGED profiles
    /\ UNCHANGED <<cfg, draft, bak, backup, lock, page, tick, counters, before,
                   met>>

\* The pre-import archive, then the copies of both files for a rollback.
Backup(a) ==
    /\ op[a].pc = "backup"
    /\ \/ /\ backup' = [cfg |-> page[a], profiles |-> Context]
          /\ before' = [before EXCEPT ![a] =
                          [cfg |-> cfg, profiles |-> profiles]]
          /\ Go(a, "lock")
       \/ /\ Fail(a, "idle")
          /\ UNCHANGED <<backup, before>>
    /\ UNCHANGED <<cfg, draft, bak, profiles, lock, page, tick, counters,
                   spoilt, met>>

\* What RestoreFileStates puts back.
Restored(b) == b

\* RestoreFileStates does not take configMu; each file may fail on its own.
Restore(a) ==
    /\ op[a].pc = "restore"
    /\ Go(a, "idle")
    /\ LET r == Restored(before[a])
       IN  \/ /\ cfg' = r.cfg /\ profiles' = r.profiles
              /\ spoilt' = (spoilt \/ ~Free)
           \/ /\ spoilt' = TRUE
              /\ \/ cfg' = r.cfg /\ UNCHANGED profiles
                 \/ profiles' = r.profiles /\ UNCHANGED cfg
                 \/ UNCHANGED <<cfg, profiles>>
    /\ UNCHANGED <<draft, bak, backup, lock, page, tick, counters, before,
                   met>>

Begin(c) ==
    \/ Open(c) \/ SaveConfig(c) \/ SaveDraft(c) \/ DiscardDraft(c)
    \/ Profile(c) \/ Import(c) \/ WebDAVBackup(c)

Continue(a) ==
    \/ Lock(a) \/ Write(a) \/ Discard(a) \/ Store(a) \/ Undo(a) \/ Backup(a)
    \/ Restore(a)

Next ==
    \/ \E c \in Callers : Begin(c)
    \/ RecentRun \/ Status
    \/ \E a \in Actors : Continue(a)

Spec == Init /\ [][Next]_vars

-----------------------------------------------------------------------------
(* Properties.                                                             *)

Same(x, y) == x.user = y.user /\ x.src = y.src

\* A profile command or an import that meets no other command changes both
\* files or none, whichever write fails: at its failed end both are as they
\* were, unless putting them back failed too.
AllOrNothing ==
    [][\A c \in Callers :
         /\ op[c].kind \in {"profile", "import"} /\ op[c].pc # "idle"
         /\ op'[c].pc = "idle" /\ ~op'[c].ok
         /\ c \notin met /\ ~spoilt'
         => /\ Same(before[c].cfg, cfg')
            /\ Ensured(before[c].profiles) = Ensured(profiles')]_vars

\* When a profile command that meets no other command and that makes a
\* profile the active one ends well, the configuration has the sources of
\* the active profile.
ActiveIsConfigured ==
    [][\A c \in Callers :
         /\ op[c].kind = "profile" /\ op[c].pc # "idle" /\ op[c].wcfg
         /\ op'[c].pc = "idle" /\ op'[c].ok
         /\ c \notin met
         => cfg'.src = ActiveSources(profiles')]_vars

\* Noting the statuses of the sources undoes nothing that was saved since
\* they were read, unless a failed import was put back meanwhile.
StatusKeepsEdits ==
    [][/\ op[Probe].kind = "status" /\ op[Probe].pc = "write"
       /\ op'[Probe].pc = "idle"
       /\ ~spoilt
       => Same(cfg, cfg')]_vars

\* A configuration of the old schema is still there once the new schema has
\* been written, however the writes before failed.
LegacyKept ==
    \A a \in Actors : before[a].cfg.schema = "v1" /\ cfg.schema = "v2"
                         => bak # None /\ bak.schema = "v1"

\* A write that is not the user's own save keeps what the user saved.
\* Documented and not kept by the code; see the README.
OthersKeepEdits ==
    [][\A a \in Actors :
         op[a].kind \in {"profile", "webdav", "status"}
           /\ op[a].pc = "write" /\ op'[a].pc # "write"
         => cfg'.user = cfg.user]_vars

\* Updating the current profile writes to the active one when it exists.
\* Documented and not kept by the code; see the README.
UpdateWritesActive ==
    IsBlank(Context) \/ ~Has(Context, Context.active)
       \/ CurrentIds = {Context.active}

\* The archive written before an import holds the configuration the import
\* replaces.
\* Documented and not kept by the code; see the README.
BackupIsCurrent ==
    \A c \in Callers :
       op[c].kind = "import" /\ op[c].pc \in {"lock", "write"}
          => Same(backup.cfg, before[c].cfg)

Second(t) == t \div 2

\* SelectSchedulerConfig for "draft_preferred".
Selected ==
    IF draft # None /\ (cfg.tick = 0 \/ Second(draft.tick) > Second(cfg.tick))
    THEN draft ELSE cfg

\* A draft that was saved after the configuration is what a scheduled run
\* uses.
\* Documented and not kept by the code; see the README.
NewerDraftPreferred ==
    draft # None /\ draft.tick > cfg.tick => Selected = draft

\* The invariants above together.
Safety ==
    /\ TypeOK /\ LegacyKept

\* The action properties above together.
Kept == AllOrNothing /\ ActiveIsConfigured /\ StatusKeepsEdits
=============================================================================
