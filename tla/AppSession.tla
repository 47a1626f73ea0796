------------------------------ MODULE AppSession -------------------------------
(***************************************************************************)
(* The Android app around the vault (apps/mobile src-tauri): commands from *)
(* the user interface and window events, each a task of its own, share the *)
(* slot with the vault, the marks the auto-lock goes by, the quick-unlock  *)
(* files, the configuration file, and the plaintext copies given to other  *)
(* apps.  The slot is behind a mutex; the rest is behind nothing, or is    *)
(* locked for one read or write.  Steps of two tasks interleave wherever   *)
(* the code awaits or touches the disk.                                    *)
(***************************************************************************)
EXTENDS Integers, FiniteSets, QuickUnlock

CONSTANTS
  Tasks,      \* commands and event handlers running at once
  Nobody,
  MaxStarts,  \* bound: commands and window events in all
  MaxCrashes  \* bound: deaths of the process

ASSUME NobodyIsNoTask == Nobody \notin Tasks
ASSUME BoundsAreNaturals == {MaxStarts, MaxCrashes} \subseteq Nat

VARIABLES
  slot,        \* AppState.slot: locked, unlocked, or empty while a task has the vault
  holder,      \* who holds the slot's mutex
  initialised, \* the data directory belongs to a vault
  config,      \* config.json can be read
  inactive,    \* last_activity is longer ago than auto_lock_minutes
  since,       \* background_since: none, recent, or past the threshold
  auto,        \* the auto-lock loop: asleep, or waiting for the slot to lock it
  task,        \* [Tasks -> command and where it is]
  q,           \* the files of quick unlock
  copy,        \* the plaintext copy of a shared document is in the cache directory
  timers,      \* deletion timers running
  starts, crashes,
  stuck,       \* history: the vault could not be reopened, and the slot stays empty
  tries,       \* history: prompts failed since the passphrase was last entered,
  uncounted,   \* and how many of them the bookkeeping does not count
  forgotten,   \* history: forgotten, and not enabled since
  mixed,       \* history: forgetting was cut short or ran into enabling
  leftover     \* history: a copy could not be written to its end

session == <<slot, holder, initialised, config>>
marks   == <<inactive, since, auto>>
quick   == <<q, tries, uncounted, forgotten, mixed>>
copies  == <<copy, timers, leftover>>
process == <<starts, crashes, stuck>>
vars    == <<session, marks, task, quick, copies, process>>

\* Commands that take the vault out of a locked slot, and such as need an
\* unlocked one: "use" stands for every command on documents, for a new
\* recovery code and for sync_now.
Openers == {"bootstrap", "unlock", "quick"}
Users   == {"use", "enable", "share", "settings"}
Kinds   == Openers \cup Users \cup {"lock", "forget", "focus"}

Idle == [pc |-> "idle", kind |-> "use", key |-> NoKey, meta |-> NoMeta, alone |-> FALSE]

Goes(t, pc) == task' = [task EXCEPT ![t].pc = pc]
Ends(t)     == task' = [task EXCEPT ![t] = Idle]
At(t, pc)   == task[t].pc = pc

\* Where a task holds the mutex, and where the slot is empty meanwhile.
Taking  == {"client", "save config", "check", "read secret", "prompt", "load failed",
            "save failed", "quick rm secret", "quick rm snapshot", "quick rm meta"}
Holding == Taking \cup {"work"}

Enabling(t)   == task[t].pc \in {"find secret", "make secret", "open snapshot", "save snapshot"}
Forgetting(t) == task[t].pc \in {"rm secret", "rm snapshot", "rm meta",
                                 "quick rm secret", "quick rm snapshot", "quick rm meta"}

\* A data directory of any past: new, in use, with or without quick unlock.
Init == /\ slot = "locked" /\ holder = Nobody
        /\ initialised \in BOOLEAN /\ config = initialised
        /\ inactive = FALSE /\ since = "none" /\ auto = "asleep"
        /\ task = [t \in Tasks |-> Idle]
        /\ \/ q = NothingStored
           \/ /\ initialised
              /\ q \in [secret : {1}, snapshot : {1}, made : {1},
                        meta : [auth : {"recent"}, failed : 0..MaxFailed - 1]]
        /\ copy = FALSE /\ timers = 0 /\ starts = 0 /\ crashes = 0 /\ stuck = FALSE
        /\ tries = q.meta.failed /\ uncounted = 0 /\ forgotten = FALSE /\ mixed = FALSE /\ leftover = FALSE
-------------------------------------------------------------------------------
(* Tasks start *)

StartsAt(kind) == IF kind = "forget" THEN "rm secret" ELSE "wait"

\* Idle tasks are alike: which of them runs is nobody's choice.
Begin(t, kind, pc) ==
  /\ At(t, "idle") /\ t = CHOOSE u \in Tasks : At(u, "idle")
  /\ starts < MaxStarts
  /\ starts' = starts + 1
  /\ task' = [task EXCEPT ![t] = [Idle EXCEPT !.pc = pc, !.kind = kind,
                                              !.alone = /\ kind \in {"forget", "quick"}
                                                        /\ ~\E u \in Tasks : Enabling(u)]]
  /\ UNCHANGED <<session, copies, crashes, stuck>>

StartCommand(t) ==
  /\ \E kind \in Kinds \ {"focus"} : Begin(t, kind, StartsAt(kind))
  /\ UNCHANGED <<marks, quick>>

\* on_focus_changed is spawned for every event, so what the events do comes in
\* any order.
WindowEvent(t) ==
  /\ \E pc \in {"blurred", "focused"} : Begin(t, "focus", pc)
  /\ UNCHANGED <<marks, quick>>

Blurred(t) ==
  /\ At(t, "blurred")
  /\ since' = "recent"
  /\ Ends(t)
  /\ UNCHANGED <<session, inactive, auto, quick, copies, process>>

\* The mark goes, then the slot is looked at, and an unlocked vault synced.
Focused(t) ==
  /\ At(t, "focused")
  /\ since' = "none"
  /\ Goes(t, "look")
  /\ UNCHANGED <<session, inactive, auto, quick, copies, process>>

Look(t) ==
  /\ At(t, "look") /\ holder = Nobody
  /\ task' = [task EXCEPT ![t] = IF slot = "unlocked" THEN [Idle EXCEPT !.pc = "wait"] ELSE Idle]
  /\ UNCHANGED <<session, marks, quick, copies, process>>
-------------------------------------------------------------------------------
(* vault_create, vault_join, vault_unlock, vault_unlock_quick *)

\* The guard is taken and the vault out of the slot, unless it is unlocked
\* already or there is no configuration to unlock it with.
TakeVault(t) ==
  /\ At(t, "wait") /\ task[t].kind \in Openers /\ holder = Nobody
  /\ IF slot = "locked" /\ (config \/ task[t].kind = "bootstrap")
     THEN /\ slot' = "empty" /\ holder' = t
          /\ Goes(t, IF task[t].kind = "quick" THEN "check" ELSE "client")
     ELSE /\ Ends(t)
          /\ UNCHANGED <<slot, holder>>
  /\ UNCHANGED <<initialised, config, marks, quick, copies, process>>

NotReopened == "empty"

\* A failure before the vault was used up leaves the one it took, ...
Untouched == "locked"

\* ... a later one what reopen_locked makes: a new one, or none.
Reopened == {"locked", "empty"}

GivesBack(t, s) ==
  /\ slot' = s /\ holder' = Nobody
  /\ UNCHANGED <<initialised, config>>

\* The client library's answer.  A passphrase, even one kept by quick unlock,
\* may be wrong, a request may fail; only the right state can succeed.
ClientFails(t) ==
  /\ At(t, "client")
  /\ \E s \in Reopened : GivesBack(t, s)
  /\ stuck' = (slot' = "empty")
  /\ Ends(t)
  /\ UNCHANGED <<marks, quick, copies, starts, crashes>>

\* The passphrase was entered; what follows the answer catches up with it.
Entered == tries' = 0 /\ uncounted' = 0

ClientUnlocks(t) ==
  /\ At(t, "client") /\ task[t].kind # "bootstrap" /\ initialised
  /\ GivesBack(t, "unlocked")
  /\ IF task[t].kind = "unlock" THEN Entered ELSE UNCHANGED <<tries, uncounted>>
  /\ Goes(t, "touch")
  /\ UNCHANGED <<marks, q, forgotten, mixed, copies, process>>

ClientBootstraps(t) ==
  /\ At(t, "client") /\ task[t].kind = "bootstrap" /\ ~initialised
  /\ initialised' = TRUE /\ Entered
  /\ Goes(t, "save config")
  /\ UNCHANGED <<slot, holder, config, marks, q, forgotten, mixed, copies, process>>

\* config::save may fail; the vault is unlocked all the same.
SaveConfig(t) ==
  /\ At(t, "save config")
  /\ config' \in BOOLEAN
  /\ slot' = "unlocked" /\ holder' = Nobody
  /\ Goes(t, "touch")
  /\ UNCHANGED <<initialised, marks, quick, copies, process>>
-------------------------------------------------------------------------------
(* load_passphrase and the prompt, with the guard held *)

Check(t) ==
  /\ At(t, "check")
  /\ IF ~Enabled(q) THEN GivesBack(t, Untouched) /\ Ends(t)
     ELSE /\ Goes(t, IF MayPrompt(q.meta) THEN "read secret" ELSE "quick rm secret")
          /\ UNCHANGED session
  /\ UNCHANGED <<marks, quick, copies, process>>

\* A secret that is gone by now is made anew; a snapshot that is gone, or of
\* another secret, has no passphrase to give.
ReadSecret(t) ==
  /\ At(t, "read secret")
  /\ q' = DeviceSecret(q)
  /\ IF q'.snapshot = q'.secret THEN Goes(t, "prompt") /\ UNCHANGED session
     ELSE GivesBack(t, Untouched) /\ Ends(t)
  /\ UNCHANGED <<marks, tries, uncounted, forgotten, mixed, copies, process>>

PromptPasses(t) ==
  /\ At(t, "prompt")
  /\ Goes(t, "client")
  /\ UNCHANGED <<session, marks, quick, copies, process>>

PromptIsFailed(t) ==
  /\ At(t, "prompt")
  /\ tries' = tries + 1
  /\ Goes(t, "load failed")
  /\ UNCHANGED <<session, marks, q, uncounted, forgotten, mixed, copies, process>>

\* record_failed_biometric_attempt: read, add one, write, and forget at the
\* limit.  A write that fails half way leaves what reads like no file, one that
\* fails at once the old bookkeeping; either ends the command.
LoadFailed(t) ==
  /\ At(t, "load failed")
  /\ task' = [task EXCEPT ![t].pc = "save failed", ![t].meta = PromptFailed(q.meta)]
  /\ UNCHANGED <<session, marks, quick, copies, process>>

SaveFailed(t) ==
  /\ At(t, "save failed")
  /\ \/ /\ q' = MetaSaved(q, task[t].meta) /\ UNCHANGED uncounted
        /\ IF task[t].meta.failed >= MaxFailed THEN Goes(t, "quick rm secret") /\ UNCHANGED session
           ELSE GivesBack(t, Untouched) /\ Ends(t)
     \/ /\ q' \in {q, MetaRemoved(q)} /\ uncounted' = uncounted + 1
        /\ GivesBack(t, Untouched) /\ Ends(t)
  /\ UNCHANGED <<marks, tries, forgotten, mixed, copies, process>>
-------------------------------------------------------------------------------
(* Commands on an unlocked vault *)

\* "enable" comes with the passphrase.  It only looks, and lets the guard go
\* before it stores anything.
UseVault(t) ==
  /\ At(t, "wait") /\ task[t].kind \in Users /\ holder = Nobody
  /\ \/ /\ slot # "unlocked" /\ Ends(t)
        /\ UNCHANGED <<holder, tries, uncounted, forgotten, mixed>>
     \/ /\ slot = "unlocked" /\ task[t].kind # "enable"
        /\ holder' = t /\ Goes(t, "work")
        /\ UNCHANGED <<tries, uncounted, forgotten, mixed>>
     \/ /\ slot = "unlocked" /\ task[t].kind = "enable"
        /\ Entered /\ forgotten' = FALSE
        /\ mixed' = (mixed \/ \E u \in Tasks : Forgetting(u) \/ Enabling(u))
        /\ task' = [u \in Tasks |-> IF u = t THEN [task[t] EXCEPT !.pc = "find secret"]
                                    ELSE [task[u] EXCEPT !.alone = FALSE]]
        /\ UNCHANGED holder
  /\ UNCHANGED <<slot, initialised, config, marks, q, copies, process>>

\* The client's operation returns; an error ends the command here.
Work(t) ==
  /\ At(t, "work")
  /\ GivesBack(t, "unlocked")
  /\ Ends(t) \/ Goes(t, "touch")
  /\ UNCHANGED <<marks, quick, copies, process>>

LockVault(t) ==
  /\ At(t, "wait") /\ task[t].kind = "lock" /\ holder = Nobody
  /\ slot' = IF slot = "empty" THEN "empty" ELSE "locked"
  /\ Ends(t)
  /\ UNCHANGED <<holder, initialised, config, marks, quick, copies, process>>

AfterTouchOfAll(kind) == IF kind \in Openers THEN "load meta" ELSE "idle"

\* What follows touch_activity.  A quick unlock is not a passphrase entry.
AfterTouch(kind) ==
  CASE kind \in {"bootstrap", "unlock"} -> "load meta"
    [] kind = "share"                   -> "write copy"
    [] kind = "settings"                -> "write config"
    [] OTHER                            -> "idle"

\* touch_activity comes after the guard is gone.
Touch(t) ==
  /\ At(t, "touch")
  /\ inactive' = FALSE
  /\ IF AfterTouch(task[t].kind) = "idle" THEN Ends(t) ELSE Goes(t, AfterTouch(task[t].kind))
  /\ UNCHANGED <<session, since, auto, quick, copies, process>>

\* settings_set writes the file over if it can read it; a write that fails half
\* way leaves one that cannot be read.
WriteConfig(t) ==
  /\ At(t, "write config")
  /\ config' \in IF config THEN BOOLEAN ELSE {FALSE}
  /\ Ends(t)
  /\ UNCHANGED <<slot, holder, initialised, marks, quick, copies, process>>
-------------------------------------------------------------------------------
(* Quick unlock's files: enable, record_passphrase_auth, forget *)

\* load_or_create_device_secret: two tasks may both find none, and make two.
FindSecret(t) ==
  /\ At(t, "find secret")
  /\ task' = [task EXCEPT ![t].pc = IF HasSecret(q) THEN "open snapshot" ELSE "make secret",
                          ![t].key = q.secret]
  /\ UNCHANGED <<session, marks, quick, copies, process>>

MakeSecret(t) ==
  /\ At(t, "make secret")
  /\ q' = SecretMade(q)
  /\ task' = [task EXCEPT ![t].pc = "open snapshot", ![t].key = q'.secret]
  /\ UNCHANGED <<session, marks, tries, uncounted, forgotten, mixed, copies, process>>

OpenSnapshot(t) ==
  /\ At(t, "open snapshot")
  /\ IF StrongholdOpens(q, task[t].key) THEN Goes(t, "save snapshot") ELSE Ends(t)
  /\ UNCHANGED <<session, marks, quick, copies, process>>

SaveSnapshot(t) ==
  /\ At(t, "save snapshot")
  /\ q' = SnapshotSaved(q, task[t].key)
  /\ Goes(t, "load meta")
  /\ UNCHANGED <<session, marks, tries, uncounted, forgotten, mixed, copies, process>>

\* record_passphrase_auth, with no guard held: what it writes is made from
\* what it read, and forgives the prompts that failed since the entry as well.
LoadMeta(t) ==
  /\ At(t, "load meta")
  /\ task' = [task EXCEPT ![t].pc = "save meta", ![t].meta = Authenticated(q.meta)]
  /\ UNCHANGED <<session, marks, quick, copies, process>>

SaveMeta(t) ==
  /\ At(t, "save meta")
  /\ \/ /\ q' = MetaSaved(q, task[t].meta)
        /\ uncounted' = IF task[t].kind = "quick" THEN uncounted ELSE tries
        /\ IF task[t].kind = "enable" THEN Goes(t, "touch") ELSE Ends(t)
     \/ q' \in {q, MetaRemoved(q)} /\ UNCHANGED uncounted /\ Ends(t)
  /\ UNCHANGED <<session, marks, tries, forgotten, mixed, copies, process>>

\* forget, of the command and of a quick unlock that may not prompt: file after file.
RemoveSecret(t) ==
  /\ \/ At(t, "rm secret") /\ Goes(t, "rm snapshot")
     \/ At(t, "quick rm secret") /\ Goes(t, "quick rm snapshot")
  /\ q' = SecretRemoved(q)
  /\ mixed' = (mixed \/ \E u \in Tasks : Enabling(u))
  /\ UNCHANGED <<session, marks, tries, uncounted, forgotten, copies, process>>

RemoveSnapshot(t) ==
  /\ \/ At(t, "rm snapshot") /\ Goes(t, "rm meta")
     \/ At(t, "quick rm snapshot") /\ Goes(t, "quick rm meta")
  /\ q' = SnapshotRemoved(q)
  /\ UNCHANGED <<session, marks, tries, uncounted, forgotten, mixed, copies, process>>

RemoveMeta(t) ==
  /\ \/ At(t, "rm meta") /\ UNCHANGED session
     \/ At(t, "quick rm meta") /\ GivesBack(t, Untouched)
  /\ q' = MetaRemoved(q)
  /\ forgotten' = (forgotten \/ task[t].alone)
  /\ mixed' = (mixed /\ ~task[t].alone)
  /\ Ends(t)
  /\ UNCHANGED <<marks, tries, uncounted, copies, process>>
-------------------------------------------------------------------------------
(* The copy that doc_share gives to another app *)

\* The file is created, or cut to nothing, and then written.  What fails
\* before that leaves no file.
WriteCopy(t) ==
  /\ At(t, "write copy")
  /\ \/ copy' = TRUE /\ Goes(t, "finish copy")
     \/ Ends(t) /\ UNCHANGED copy
  /\ UNCHANGED <<session, marks, quick, timers, leftover, process>>

\* A write error ends the command, without a timer for what was written.
FinishCopy(t) ==
  /\ At(t, "finish copy")
  /\ \/ Goes(t, "open copy") /\ UNCHANGED leftover
     \/ Ends(t) /\ leftover' = copy
  /\ UNCHANGED <<session, marks, quick, copy, timers, process>>

TimersIfOpened(opened) == IF opened THEN timers + 1 ELSE timers

\* The timer starts whether or not an app could be opened.
TimersAfter(opened) == timers + 1

OpenCopy(t) ==
  /\ At(t, "open copy")
  /\ \E opened \in BOOLEAN : timers' = TimersAfter(opened)
  /\ Ends(t)
  /\ UNCHANGED <<session, marks, quick, copy, leftover, process>>

\* SHARE_FILE_LIFETIME after some copy was made, the file of that document
\* goes, whoever wrote it last.
DeleteCopy ==
  /\ timers > 0
  /\ timers' = timers - 1
  /\ copy' = FALSE /\ leftover' = FALSE
  /\ UNCHANGED <<session, marks, task, quick, process>>
-------------------------------------------------------------------------------
(* Time, the auto-lock loop, and the death of the process *)

BecomesInactive ==
  /\ ~inactive /\ inactive' = TRUE
  /\ UNCHANGED <<session, since, auto, task, quick, copies, process>>

BackgroundPassesThreshold ==
  /\ since = "recent" /\ since' = "expired"
  /\ UNCHANGED <<session, inactive, auto, task, quick, copies, process>>

WeekPasses ==
  /\ q.meta.auth = "recent" /\ q' = [q EXCEPT !.meta = Aged(@)]
  /\ task' = [t \in Tasks |-> [task[t] EXCEPT !.meta = Aged(@)]]
  /\ UNCHANGED <<session, marks, tries, uncounted, forgotten, mixed, copies, process>>

\* Either of two reasons is enough.
MustLock == inactive \/ since = "expired"

\* The loop reads the marks, and then waits for the slot.
AutoLockDecides ==
  /\ auto = "asleep" /\ MustLock
  /\ auto' = "waiting"
  /\ UNCHANGED <<session, inactive, since, task, quick, copies, process>>

LockedUnlessOpen(s) == IF s # "unlocked" THEN "locked" ELSE s

\* Only an unlocked slot is touched.
LockedIfOpen(s) == IF s = "unlocked" THEN "locked" ELSE s

AutoLocks ==
  /\ auto = "waiting" /\ holder = Nobody
  /\ slot' = LockedIfOpen(slot)
  /\ auto' = "asleep"
  /\ UNCHANGED <<holder, initialised, config, inactive, since, task, quick, copies, process>>

\* cleanup_stale_share_files, at the start.
Swept == FALSE

\* The process dies and starts again.  A file that was being written over can
\* be empty then, which reads like a missing one.
Crash ==
  /\ crashes < MaxCrashes
  /\ crashes' = crashes + 1
  /\ slot' = "locked" /\ holder' = Nobody
  /\ config' \in IF \E t \in Tasks : task[t].pc \in {"save config", "write config"}
                 THEN BOOLEAN ELSE {config}
  /\ q' \in IF \E t \in Tasks : task[t].pc \in {"save meta", "save failed"}
            THEN {q, MetaRemoved(q)} ELSE {q}
  /\ uncounted' = uncounted + IF \E t \in Tasks : task[t].pc \in {"load failed", "save failed"} THEN 1 ELSE 0
  /\ mixed' = (mixed \/ \E t \in Tasks : Forgetting(t))
  /\ stuck' = FALSE
  /\ copy' = Swept /\ timers' = 0 /\ leftover' = FALSE
  /\ inactive' = FALSE /\ since' = "none" /\ auto' = "asleep"
  /\ task' = [t \in Tasks |-> Idle]
  /\ UNCHANGED <<initialised, tries, forgotten, starts>>
-------------------------------------------------------------------------------
TaskStep(t) ==
  \/ Blurred(t) \/ Focused(t) \/ Look(t)
  \/ TakeVault(t) \/ ClientFails(t) \/ ClientUnlocks(t) \/ ClientBootstraps(t) \/ SaveConfig(t)
  \/ Check(t) \/ ReadSecret(t) \/ PromptPasses(t) \/ PromptIsFailed(t)
  \/ LoadFailed(t) \/ SaveFailed(t)
  \/ UseVault(t) \/ Work(t) \/ LockVault(t) \/ Touch(t) \/ WriteConfig(t)
  \/ FindSecret(t) \/ MakeSecret(t) \/ OpenSnapshot(t) \/ SaveSnapshot(t) \/ LoadMeta(t) \/ SaveMeta(t)
  \/ RemoveSecret(t) \/ RemoveSnapshot(t) \/ RemoveMeta(t)
  \/ WriteCopy(t) \/ FinishCopy(t) \/ OpenCopy(t)

Next == \/ \E t \in Tasks : StartCommand(t) \/ WindowEvent(t) \/ TaskStep(t)
        \/ DeleteCopy \/ BecomesInactive \/ BackgroundPassesThreshold \/ WeekPasses
        \/ AutoLockDecides \/ AutoLocks \/ Crash

\* The runtime polls tasks that can go on, prompts and requests return, time
\* passes.
Fairness == /\ WF_vars(\E t \in Tasks : TaskStep(t))
            /\ WF_vars(BecomesInactive) /\ WF_vars(AutoLockDecides) /\ WF_vars(AutoLocks)

Spec == Init /\ [][Next]_vars /\ Fairness
-------------------------------------------------------------------------------
Pcs == Holding \cup {"idle", "wait", "blurred", "focused", "look", "touch", "write config",
                     "find secret", "make secret", "open snapshot", "save snapshot",
                     "load meta", "save meta", "rm secret", "rm snapshot", "rm meta",
                     "write copy", "finish copy", "open copy"}

Metas == [auth : {"none", "recent", "old"}, failed : Nat]

\* Whoever holds the mutex is where the code holds its guard, and the slot is
\* empty just as long as such a task has the vault, or from a failed reopening to
\* the next start: no other failure leaves it so.
SlotKept == /\ \A t \in Tasks : (holder = t) <=> (task[t].pc \in Holding)
            /\ (slot = "empty") <=> (stuck \/ \E t \in Tasks : task[t].pc \in Taking)
            /\ stuck => holder = Nobody

\* Types, and SlotKept: a vault taken out of the slot comes back, unless it
\* cannot be reopened.
TypeOK ==
  /\ slot \in {"locked", "unlocked", "empty"} /\ holder \in Tasks \cup {Nobody}
  /\ {initialised, config, inactive} \subseteq BOOLEAN
  /\ since \in {"none", "recent", "expired"} /\ auto \in {"asleep", "waiting"}
  /\ task \in [Tasks -> [pc : Pcs, kind : Kinds, key : Nat, meta : Metas, alone : BOOLEAN]]
  /\ q \in [secret : Nat, snapshot : Nat, made : Nat, meta : Metas]
  /\ {copy, leftover, forgotten, mixed, stuck} \subseteq BOOLEAN
  /\ {timers, tries, uncounted, starts, crashes} \subseteq Nat
  /\ SlotKept

\* However commands interleave, every failed prompt is counted against
\* MAX_FAILED_ATTEMPTS before the next one, so that a phone that is handed on
\* prompts no more often before it wants the passphrase - but for a prompt whose
\* count could not be written, one that the process died before counting, and
\* those that the bookkeeping of an earlier passphrase, late, forgives.
PromptsBounded == \A t \in Tasks : At(t, "prompt") => tries < MaxFailed + uncounted

\* A forgetting that ran to its end, and met no enabling, leaves no passphrase
\* behind, whatever quick unlocks did meanwhile; and what is_enabled tells the
\* user is there can be opened, unless enabling ran into a forgetting or
\* another enabling, or a forgetting was cut short.
QuickUnlockIsWhole ==
  /\ forgotten => q.snapshot = NoKey
  /\ Enabled(q) /\ ~mixed /\ (\A t \in Tasks : ~Forgetting(t) /\ ~Enabling(t))
       => q.snapshot = q.secret

\* The plaintext given to another app has a deletion to come, or a command
\* that is about to start one; what a failed write left waits for the next
\* start or the next share.
PlaintextHasDeadline ==
  copy => \/ timers > 0 \/ leftover
          \/ \E t \in Tasks : task[t].pc \in {"finish copy", "open copy"}

\* Once the user stops, the master key goes from memory and stays away, with
\* whatever is left of commands and of window events in any order.
EventuallyLocked == <>[](slot = "locked" \/ stuck)
===============================================================================
