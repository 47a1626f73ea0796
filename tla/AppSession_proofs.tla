--------------------------- MODULE AppSession_proofs --------------------------
(***************************************************************************)
(* Proofs about AppSession for any number of tasks, commands, failed       *)
(* prompts and deaths of the process.                                      *)
(***************************************************************************)
EXTENDS AppSession, TLAPS

USE NobodyIsNoTask, BoundsAreNaturals, MaxFailedIsPositive

(* Type correctness, and the vault in its slot. *)

TaskType  == [pc : Pcs, kind : Kinds, key : Nat, meta : Metas, alone : BOOLEAN]
QuickType == [secret : Nat, snapshot : Nat, made : Nat, meta : Metas]

\* TypeOK of what is neither the slot nor a task.
OthersOK ==
  /\ initialised \in BOOLEAN /\ config \in BOOLEAN /\ inactive \in BOOLEAN
  /\ since \in {"none", "recent", "expired"} /\ auto \in {"asleep", "waiting"}
  /\ q \in QuickType
  /\ copy \in BOOLEAN /\ leftover \in BOOLEAN /\ forgotten \in BOOLEAN /\ mixed \in BOOLEAN
  /\ stuck \in BOOLEAN
  /\ timers \in Nat /\ tries \in Nat /\ uncounted \in Nat /\ starts \in Nat /\ crashes \in Nat

\* A sum of natural numbers is not negative.
LEMMA SumsAreNatural == \A m, n \in Nat : 0 <= m + n
OBVIOUS

\* Nothing is added to a positive number.
LEMMA PositivesStay == \A n \in Nat : n # 0 => 0 < n + 0
OBVIOUS

\* A sum is no less than what it is made of.
LEMMA SumsGrow == \A k, m, n \in Nat : k <= m + k /\ k <= m + k + n
OBVIOUS

\* A counter that goes up stays a natural number, ...
LEMMA CountsUp == \A n \in Nat : n + 1 \in Nat
OBVIOUS

\* ... and is no longer zero.
LEMMA NextIsPositive == \A n \in Nat : n + 1 # 0
OBVIOUS

\* TypeOK in these terms.
LEMMA TypeParts ==
  TypeOK <=> /\ slot \in {"locked", "unlocked", "empty"} /\ holder \in Tasks \cup {Nobody}
             /\ task \in [Tasks -> TaskType]
             /\ OthersOK /\ SlotKept
BY DEF TypeOK, TaskType, QuickType, OthersOK

\* What the operations of quick unlock make of its files has the right type.
LEMMA QuickTypes ==
  ASSUME NEW x \in QuickType, NEW m \in Metas, NEW key \in Nat
  PROVE  /\ SecretMade(x) \in QuickType /\ DeviceSecret(x) \in QuickType
         /\ SnapshotSaved(x, key) \in QuickType /\ MetaSaved(x, m) \in QuickType
         /\ SecretRemoved(x) \in QuickType /\ SnapshotRemoved(x) \in QuickType
         /\ MetaRemoved(x) \in QuickType
         /\ Authenticated(m) \in Metas /\ PromptFailed(m) \in Metas /\ Aged(m) \in Metas
<1>1. NoMeta \in Metas
  BY DEF NoMeta, Metas
<1>2. SecretMade(x) \in QuickType
  <2> DEFINE y == [x EXCEPT !.made = x.made + 1]
  <2>1. y \in QuickType /\ x.made + 1 \in Nat
    BY DEF QuickType
  <2>2. SecretMade(x) = [y EXCEPT !.secret = x.made + 1]
    BY DEF SecretMade
  <2> HIDE DEF y
  <2>3. QED
    BY <2>1, <2>2 DEF QuickType
<1>3. DeviceSecret(x) \in QuickType
  BY <1>2 DEF DeviceSecret
<1>4. /\ SnapshotSaved(x, key) \in QuickType /\ MetaSaved(x, m) \in QuickType
      /\ SecretRemoved(x) \in QuickType /\ SnapshotRemoved(x) \in QuickType
      /\ MetaRemoved(x) \in QuickType
  BY <1>1 DEF SnapshotSaved, MetaSaved, SecretRemoved, SnapshotRemoved, MetaRemoved, QuickType, NoKey
<1>5. Authenticated(m) \in Metas
  BY DEF Authenticated, Metas
<1>6. PromptFailed(m) \in Metas
  BY DEF PromptFailed, Metas
<1>7. Aged(m) \in Metas
  BY DEF Aged, Metas
<1>8. QED
  BY <1>2, <1>3, <1>4, <1>5, <1>6, <1>7

\* A task moves on where it holds, or does not hold, the mutex.
LEMMA Moves ==
  ASSUME TypeOK, NEW t \in Tasks, NEW c \in TaskType,
         task' = [task EXCEPT ![t] = c],
         UNCHANGED <<slot, holder, stuck>>, OthersOK',
         c.pc \in Holding <=> task[t].pc \in Holding,
         c.pc \in Taking <=> task[t].pc \in Taking
  PROVE  TypeOK'
<1>1. task' \in [Tasks -> TaskType] /\ task'[t] = c /\ \A u \in Tasks : u # t => task'[u] = task[u]
  BY TypeParts
<1>2. \A u \in Tasks : /\ task'[u].pc \in Holding <=> task[u].pc \in Holding
                       /\ task'[u].pc \in Taking <=> task[u].pc \in Taking
  BY <1>1
<1>3. SlotKept'
  BY <1>2, TypeParts DEF SlotKept
<1>4. QED
  BY <1>1, <1>3, TypeParts DEF OthersOK, SlotKept, TaskType, QuickType, TypeOK

\* A task lets the mutex go, and leaves a vault in the slot if it has one.
LEMMA Gives ==
  ASSUME TypeOK, NEW t \in Tasks, NEW c \in TaskType,
         task' = [task EXCEPT ![t] = c],
         task[t].pc \in Holding, c.pc \notin Holding,
         slot' \in {"locked", "unlocked", "empty"}, stuck' <=> slot' = "empty", holder' = Nobody,
         OthersOK'
  PROVE  TypeOK'
<1>1. task' \in [Tasks -> TaskType] /\ task'[t] = c /\ \A u \in Tasks : u # t => task'[u] = task[u]
  BY TypeParts
<1>2. \A u \in Tasks : u # t => task[u].pc \notin Holding
  BY TypeParts DEF SlotKept
<1>3. \A u \in Tasks : task'[u].pc \notin Holding
  BY <1>1, <1>2
<1>4. \A u \in Tasks : task'[u].pc \notin Taking
  BY <1>3 DEF Holding
<1>5. SlotKept'
  BY <1>3, <1>4 DEF SlotKept
<1>6. QED
  BY <1>1, <1>5 DEF OthersOK, TaskType, QuickType, TypeOK

\* A task takes the free mutex, and the vault too if that is what it is for.
LEMMA Takes ==
  ASSUME TypeOK, NEW t \in Tasks, NEW c \in TaskType,
         task' = [task EXCEPT ![t] = c],
         slot # "empty", UNCHANGED stuck,
         holder = Nobody, holder' = t, c.pc \in Holding,
         slot' = IF c.pc \in Taking THEN "empty" ELSE slot, OthersOK'
  PROVE  TypeOK'
<1>1. task' \in [Tasks -> TaskType] /\ task'[t] = c /\ \A u \in Tasks : u # t => task'[u] = task[u]
  BY TypeParts
<1>2. \A u \in Tasks : task[u].pc \notin Holding
  BY TypeParts DEF SlotKept
<1>3. \A u \in Tasks : u # t => task'[u].pc \notin Holding /\ task'[u].pc \notin Taking
  BY <1>1, <1>2 DEF Holding
<1>4. ~stuck /\ slot \in {"locked", "unlocked", "empty"}
  BY TypeParts DEF SlotKept
<1>5. SlotKept'
  BY <1>1, <1>3, <1>4 DEF SlotKept
<1>6. QED
  BY <1>1, <1>4, <1>5 DEF OthersOK, TaskType, QuickType, TypeOK

\* Where Goes and Ends bring a task.
LEMMA GoesTo ==
  ASSUME TypeOK, NEW t \in Tasks, NEW pc \in Pcs, Goes(t, pc)
  PROVE  \E c \in TaskType : /\ task' = [task EXCEPT ![t] = c] /\ c.pc = pc
                             /\ c.kind = task[t].kind /\ c.key = task[t].key
                             /\ c.meta = task[t].meta /\ c.alone = task[t].alone
<1> DEFINE c == [task[t] EXCEPT !.pc = pc]
<1>1. task[t] \in TaskType
  BY TypeParts
<1>2. c \in TaskType /\ c.pc = pc /\ c.kind = task[t].kind /\ c.key = task[t].key
      /\ c.meta = task[t].meta /\ c.alone = task[t].alone
  BY <1>1 DEF TaskType
<1>3. task' = [task EXCEPT ![t] = c]
  BY DEF Goes
<1>4. QED
  BY <1>2, <1>3

\* An idle task holds no mutex.
LEMMA IdleType == Idle \in TaskType /\ Idle.pc = "idle" /\ "idle" \notin Holding
BY DEF Idle, TaskType, Pcs, Kinds, Users, NoKey, NoMeta, Metas, Holding, Taking

\* Ends makes a task idle.
LEMMA EndsIdle ==
  ASSUME NEW t \in Tasks, Ends(t)
  PROVE  task' = [task EXCEPT ![t] = Idle]
BY DEF Ends

\* A step by which a task only goes on or ends, with the mutex or without it.
LEMMA MovesOn ==
  ASSUME TypeOK, NEW t \in Tasks, NEW pc \in Pcs,
         Goes(t, pc) \/ (Ends(t) /\ pc = "idle"),
         UNCHANGED <<slot, holder, stuck>>, OthersOK',
         pc \in Holding <=> task[t].pc \in Holding,
         pc \in Taking <=> task[t].pc \in Taking
  PROVE  TypeOK'
<1>1. PICK c \in TaskType : task' = [task EXCEPT ![t] = c] /\ c.pc = pc
  BY GoesTo, EndsIdle, IdleType
<1>2. QED
  BY <1>1, Moves

\* A step by which a task gives the vault back and goes on or ends.
LEMMA GivesOn ==
  ASSUME TypeOK, NEW t \in Tasks, NEW pc \in Pcs \ Holding,
         Goes(t, pc) \/ (Ends(t) /\ pc = "idle"),
         task[t].pc \in Holding,
         slot' \in {"locked", "unlocked"}, UNCHANGED stuck, holder' = Nobody, OthersOK'
  PROVE  TypeOK'
<1>1. PICK c \in TaskType : task' = [task EXCEPT ![t] = c] /\ c.pc = pc
  BY GoesTo, EndsIdle, IdleType
<1>2. ~stuck
  BY TypeParts DEF SlotKept
<1>3. QED
  BY <1>1, <1>2, Gives

\* Commands and window events begin.
LEMMA BeginTypes ==
  ASSUME TypeOK, NEW t \in Tasks, StartCommand(t) \/ WindowEvent(t)
  PROVE  TypeOK'
<1>1. PICK kind \in Kinds, pc \in {"rm secret", "wait", "blurred", "focused"} : Begin(t, kind, pc)
  BY DEF StartCommand, WindowEvent, StartsAt, Kinds
<1> DEFINE alone == kind \in {"forget", "quick"} /\ ~\E u \in Tasks : Enabling(u)
           c == [Idle EXCEPT !.pc = pc, !.kind = kind, !.alone = alone]
<1>2. c \in TaskType /\ c.pc = pc
  <2> HIDE DEF alone
  <2>1. alone \in BOOLEAN
    BY DEF alone
  <2>2. pc \in Pcs
    BY DEF Pcs
  <2>3. QED
    BY <2>1, <2>2, IdleType DEF TaskType
<1>3. task' = [task EXCEPT ![t] = c]
  BY <1>1 DEF Begin
<1> HIDE DEF c
<1>4. UNCHANGED <<slot, holder, stuck>> /\ task[t].pc = "idle"
  BY <1>1 DEF Begin, session, At
<1>5. OthersOK'
  <2>1. OthersOK
    BY TypeParts
  <2>2. starts' = starts + 1 /\ UNCHANGED <<session, copies, crashes, stuck>>
    BY <1>1 DEF Begin
  <2>3. UNCHANGED <<marks, quick>>
    BY DEF StartCommand, WindowEvent
  <2>4. starts' \in Nat
    BY <2>1, <2>2, CountsUp DEF OthersOK
  <2>5. UNCHANGED <<initialised, config, inactive, since, auto, q, copy, leftover, forgotten, mixed,
                    timers, tries, uncounted, crashes, stuck>>
    BY <2>2, <2>3 DEF session, marks, quick, copies
  <2>6. QED
    BY <2>1, <2>4, <2>5, ZenonT(20) DEF OthersOK
<1>6. c.pc \notin Holding /\ c.pc \notin Taking /\ task[t].pc \notin Holding /\ task[t].pc \notin Taking
  BY <1>2, <1>4 DEF Holding, Taking
<1>7. QED
  BY <1>2, <1>3, <1>4, <1>5, <1>6, Moves

\* Steps of tasks that hold no mutex before and after, and change no file.
LEMMA LooseTypes ==
  ASSUME TypeOK, NEW t \in Tasks,
         \/ Blurred(t) \/ Focused(t) \/ Look(t) \/ Touch(t) \/ WriteConfig(t)
         \/ WriteCopy(t) \/ FinishCopy(t) \/ OpenCopy(t)
  PROVE  TypeOK'
<1> USE DEF At, session, marks, quick, copies, process
<1>1. OthersOK
  BY TypeParts
<1>2. UNCHANGED <<slot, holder, stuck>>
  BY DEF Blurred, Focused, Look, Touch, WriteConfig, WriteCopy, FinishCopy, OpenCopy
<1>3. OthersOK'
  <2>1. CASE Blurred(t) \/ Focused(t) \/ Look(t) \/ Touch(t)
    BY ZenonT(60), <1>1, <2>1 DEF OthersOK, Blurred, Focused, Look, Touch
  <2>2. CASE WriteConfig(t)
    BY <1>1, <2>2 DEF OthersOK, WriteConfig
  <2>3. CASE WriteCopy(t)
    BY <1>1, <2>3 DEF OthersOK, WriteCopy
  <2>4. CASE FinishCopy(t)
    BY <1>1, <2>4 DEF OthersOK, FinishCopy
  <2>5. CASE OpenCopy(t)
    <3>1. timers' \in Nat
      BY <1>1, <2>5, CountsUp DEF OthersOK, OpenCopy, TimersAfter
    <3>2. QED
      BY <1>1, <2>5, <3>1 DEF OthersOK, OpenCopy
  <2>6. QED
    BY <2>1, <2>2, <2>3, <2>4, <2>5
<1>4. CASE Look(t)
  <2>1. CASE slot = "unlocked"
    <3> DEFINE c == [Idle EXCEPT !.pc = "wait"]
    <3>1. task' = [task EXCEPT ![t] = c] /\ task[t].pc = "look"
      BY <1>4, <2>1 DEF Look
    <3>2. c \in TaskType /\ c.pc = "wait"
      BY IdleType DEF TaskType, Pcs
    <3> HIDE DEF c
    <3>3. QED
      BY <1>2, <1>3, <3>1, <3>2, Moves DEF Holding, Taking
  <2>2. CASE slot # "unlocked"
    <3>1. task' = [task EXCEPT ![t] = Idle] /\ task[t].pc = "look"
      BY <1>4, <2>2 DEF Look
    <3>2. QED
      BY <1>2, <1>3, <3>1, IdleType, Moves DEF Holding, Taking
  <2>3. QED
    BY <2>1, <2>2
<1>5. CASE ~Look(t)
  <2>1. PICK pc \in {"idle", "look", "load meta", "write copy", "write config", "finish copy", "open copy"} :
          Goes(t, pc) \/ (Ends(t) /\ pc = "idle")
    BY <1>5 DEF Blurred, Focused, Touch, WriteConfig, WriteCopy, FinishCopy, OpenCopy, AfterTouch
  <2>2. task[t].pc \in {"blurred", "focused", "touch", "write config", "write copy", "finish copy", "open copy"}
    BY <1>5 DEF Blurred, Focused, Touch, WriteConfig, WriteCopy, FinishCopy, OpenCopy
  <2>3. pc \in Pcs /\ pc \notin Holding /\ pc \notin Taking
        /\ task[t].pc \notin Holding /\ task[t].pc \notin Taking
    BY <2>2 DEF Pcs, Holding, Taking
  <2>4. QED
    BY <1>2, <1>3, <2>1, <2>3, MovesOn
<1>6. QED
  BY <1>4, <1>5

\* What steps that change no file of quick unlock do to the rest of the state.
LEMMA OthersOfSession ==
  ASSUME TypeOK, NEW t \in Tasks,
         \/ TakeVault(t) \/ ClientFails(t) \/ ClientUnlocks(t) \/ ClientBootstraps(t)
         \/ SaveConfig(t) \/ Check(t) \/ PromptPasses(t) \/ PromptIsFailed(t) \/ LoadFailed(t)
         \/ UseVault(t) \/ Work(t) \/ LockVault(t)
         \/ FindSecret(t) \/ OpenSnapshot(t) \/ LoadMeta(t)
  PROVE  OthersOK'
<1> USE DEF At, session, marks, quick, copies, process, GivesBack
<1>1. OthersOK
  BY TypeParts
<1>2. CASE TakeVault(t) \/ Check(t)
  BY ZenonT(60), <1>1, <1>2 DEF OthersOK, TakeVault, Check
<1>3. CASE PromptPasses(t) \/ LoadFailed(t) \/ Work(t) \/ LockVault(t)
  BY ZenonT(60), <1>1, <1>3 DEF OthersOK, PromptPasses, LoadFailed, Work, LockVault
<1>4. CASE FindSecret(t) \/ OpenSnapshot(t) \/ LoadMeta(t)
  BY ZenonT(60), <1>1, <1>4 DEF OthersOK, FindSecret, OpenSnapshot, LoadMeta
<1>5. CASE ClientFails(t) \/ ClientUnlocks(t) \/ ClientBootstraps(t)
  <2>1. CASE ClientFails(t)
    BY <1>1, <2>1 DEF OthersOK, ClientFails
  <2>2. CASE ClientUnlocks(t)
    BY <1>1, <2>2 DEF OthersOK, ClientUnlocks, Entered
  <2>3. CASE ClientBootstraps(t)
    BY <1>1, <2>3 DEF OthersOK, ClientBootstraps, Entered
  <2>4. QED
    BY <1>5, <2>1, <2>2, <2>3
<1>6. CASE SaveConfig(t)
  BY <1>1, <1>6 DEF OthersOK, SaveConfig
<1>7. CASE PromptIsFailed(t)
  <2>1. tries' \in Nat
    BY <1>1, <1>7, CountsUp DEF OthersOK, PromptIsFailed
  <2>2. QED
    BY <1>1, <1>7, <2>1 DEF OthersOK, PromptIsFailed
<1>8. CASE UseVault(t)
  <2>1. forgotten' \in BOOLEAN /\ mixed' \in BOOLEAN
    BY <1>1, <1>8 DEF OthersOK, UseVault
  <2>2. tries' \in Nat /\ uncounted' \in Nat
    <3>1. Entered \/ UNCHANGED <<tries, uncounted>>
      BY <1>8 DEF UseVault
    <3>2. CASE Entered
      BY <3>2 DEF Entered
    <3>3. CASE UNCHANGED <<tries, uncounted>>
      BY <1>1, <3>3 DEF OthersOK
    <3>4. QED
      BY <3>1, <3>2, <3>3
  <2>3. UNCHANGED <<initialised, config, inactive, since, auto, q, copy, timers, leftover,
                    starts, crashes, stuck>>
    BY <1>8 DEF UseVault
  <2>4. QED
    BY <1>1, <2>1, <2>2, <2>3, ZenonT(30) DEF OthersOK
<1>9. QED
  BY <1>2, <1>3, <1>4, <1>5, <1>6, <1>7, <1>8

\* What steps that change them do.
LEMMA OthersOfQuick ==
  ASSUME TypeOK, NEW t \in Tasks,
         \/ ReadSecret(t) \/ SaveFailed(t) \/ MakeSecret(t) \/ SaveSnapshot(t) \/ SaveMeta(t)
         \/ RemoveSecret(t) \/ RemoveSnapshot(t) \/ RemoveMeta(t)
  PROVE  OthersOK'
<1> USE DEF At, session, marks, quick, copies, process, GivesBack
<1>1. OthersOK /\ q \in QuickType /\ task[t].meta \in Metas /\ task[t].key \in Nat
  BY TypeParts DEF TaskType, OthersOK
<1>2. /\ SecretMade(q) \in QuickType /\ DeviceSecret(q) \in QuickType
      /\ SnapshotSaved(q, task[t].key) \in QuickType /\ MetaSaved(q, task[t].meta) \in QuickType
      /\ SecretRemoved(q) \in QuickType /\ SnapshotRemoved(q) \in QuickType
      /\ MetaRemoved(q) \in QuickType
  BY <1>1, QuickTypes
<1>3. q' \in QuickType
  <2>1. q' \in {q, DeviceSecret(q), SecretMade(q), SnapshotSaved(q, task[t].key),
                MetaSaved(q, task[t].meta), SecretRemoved(q), SnapshotRemoved(q), MetaRemoved(q)}
    <3>1. CASE SaveFailed(t) \/ SaveMeta(t)
      BY <3>1 DEF SaveFailed, SaveMeta
    <3>2. CASE ~(SaveFailed(t) \/ SaveMeta(t))
      BY <3>2 DEF ReadSecret, MakeSecret, SaveSnapshot, RemoveSecret, RemoveSnapshot, RemoveMeta
    <3>3. QED
      BY <3>1, <3>2
  <2>2. QED
    BY <1>1, <1>2, <2>1
<1>4. UNCHANGED <<initialised, config, marks, copies, process>>
  BY DEF ReadSecret, SaveFailed, MakeSecret, SaveSnapshot, SaveMeta, RemoveSecret,
         RemoveSnapshot, RemoveMeta
<1>5. tries' \in Nat /\ uncounted' \in Nat
  <2>1. tries' = tries /\ uncounted' \in {uncounted, uncounted + 1, tries}
    BY DEF ReadSecret, SaveFailed, MakeSecret, SaveSnapshot, SaveMeta, RemoveSecret,
           RemoveSnapshot, RemoveMeta
  <2>2. QED
    BY <1>1, <2>1, CountsUp DEF OthersOK
<1>6. forgotten' \in BOOLEAN /\ mixed' \in BOOLEAN
  <2>1. CASE RemoveMeta(t)
    BY <2>1, <1>1 DEF OthersOK, RemoveMeta
  <2>2. CASE RemoveSecret(t)
    BY <2>2, <1>1 DEF OthersOK, RemoveSecret
  <2>3. CASE ~RemoveMeta(t) /\ ~RemoveSecret(t)
    BY <2>3, <1>1 DEF OthersOK, ReadSecret, SaveFailed, MakeSecret, SaveSnapshot, SaveMeta,
                      RemoveSnapshot
  <2>4. QED
    BY <2>1, <2>2, <2>3
<1>7. stuck' \in BOOLEAN
  BY <1>1, <1>4 DEF OthersOK
<1>8. QED
  BY <1>1, <1>3, <1>4, <1>5, <1>6, <1>7 DEF OthersOK

\* Steps by which a task takes the free mutex.
LEMMA TakingTypes ==
  ASSUME TypeOK, NEW t \in Tasks, TakeVault(t)
  PROVE  TypeOK'
<1> USE DEF At
<1>1. OthersOK'
  BY OthersOfSession
<1>2. task[t].pc = "wait" /\ holder = Nobody /\ UNCHANGED stuck
  BY DEF TakeVault, process
<1>3. CASE slot = "locked" /\ slot' = "empty" /\ holder' = t
           /\ Goes(t, IF task[t].kind = "quick" THEN "check" ELSE "client")
  <2>1. PICK pc \in {"check", "client"} : Goes(t, pc)
    BY <1>3
  <2>2. pc \in Pcs /\ pc \in Holding /\ pc \in Taking
    BY DEF Pcs, Holding, Taking
  <2>3. PICK c \in TaskType : task' = [task EXCEPT ![t] = c] /\ c.pc = pc
    BY <2>1, <2>2, GoesTo
  <2>4. QED
    BY <1>1, <1>2, <1>3, <2>2, <2>3, Takes
<1>4. CASE Ends(t) /\ UNCHANGED <<slot, holder>>
  BY <1>1, <1>2, <1>4, MovesOn DEF Pcs, Holding, Taking
<1>5. QED
  BY <1>3, <1>4 DEF TakeVault

\* A task gives the mutex back, and perhaps no vault with it.
LEMMA FailsTypes ==
  ASSUME TypeOK, NEW t \in Tasks, ClientFails(t)
  PROVE  TypeOK'
<1>1. OthersOK'
  BY OthersOfSession
<1>2. task[t].pc \in Holding
  BY DEF ClientFails, At, Holding, Taking
<1>3. /\ slot' \in {"locked", "unlocked", "empty"} /\ stuck' = (slot' = "empty") /\ holder' = Nobody
      /\ task' = [task EXCEPT ![t] = Idle]
  BY DEF ClientFails, GivesBack, Reopened, Ends
<1>4. QED
  BY <1>1, <1>2, <1>3, IdleType, Gives

\* Steps of a task that holds the mutex with the vault out of the slot.
LEMMA HolderTypes ==
  ASSUME TypeOK, NEW t \in Tasks,
         \/ ClientUnlocks(t) \/ ClientBootstraps(t) \/ SaveConfig(t)
         \/ Check(t) \/ ReadSecret(t) \/ PromptPasses(t) \/ PromptIsFailed(t) \/ Work(t)
  PROVE  TypeOK'
<1> USE DEF At, session
<1>1. OthersOK'
  BY OthersOfSession, OthersOfQuick
<1>2. task[t].pc \in {"client", "save config", "check", "read secret", "prompt", "work"}
  BY DEF ClientUnlocks, ClientBootstraps, SaveConfig, Check, ReadSecret,
         PromptPasses, PromptIsFailed, Work
<1>3. task[t].pc \in Holding /\ UNCHANGED stuck
  BY <1>2 DEF Holding, Taking, process, ClientUnlocks, ClientBootstraps, SaveConfig, Check,
              ReadSecret, PromptPasses, PromptIsFailed, Work
<1> DEFINE Given == /\ slot' \in {"locked", "unlocked"} /\ holder' = Nobody
                    /\ \E pc \in {"idle", "touch"} : Goes(t, pc) \/ (Ends(t) /\ pc = "idle")
           Kept  == /\ UNCHANGED <<slot, holder>> /\ task[t].pc \in Taking
                    /\ \E pc \in {"save config", "read secret", "quick rm secret", "prompt",
                                   "client", "load failed"} : Goes(t, pc)
<1>4. CASE Given
  <2>1. PICK pc \in {"idle", "touch"} : Goes(t, pc) \/ (Ends(t) /\ pc = "idle")
    BY <1>4
  <2>2. pc \in Pcs \ Holding
    BY DEF Pcs, Holding, Taking
  <2>3. QED
    BY <1>1, <1>3, <1>4, <2>1, <2>2, GivesOn
<1>5. CASE Kept
  <2>1. PICK pc \in {"save config", "read secret", "quick rm secret", "prompt",
                     "client", "load failed"} : Goes(t, pc)
    BY <1>5
  <2>2. pc \in Pcs /\ pc \in Holding /\ pc \in Taking
    BY DEF Pcs, Holding, Taking
  <2>3. QED
    BY <1>1, <1>3, <1>5, <2>1, <2>2, MovesOn
<1>6. Given \/ Kept
  <2> USE DEF GivesBack
  <2>1. CASE ClientUnlocks(t)
    BY <2>1 DEF ClientUnlocks
  <2>2. CASE SaveConfig(t) \/ Work(t)
    BY <2>2 DEF SaveConfig, Work
  <2>3. CASE Check(t)
    <3>1. CASE ~Enabled(q)
      BY <2>3, <3>1 DEF Check, Untouched
    <3>2. CASE Enabled(q)
      <4>1. CASE MayPrompt(q.meta)
        BY <2>3, <3>2, <4>1 DEF Check, Taking
      <4>2. CASE ~MayPrompt(q.meta)
        BY <2>3, <3>2, <4>2 DEF Check, Taking
      <4>3. QED
        BY <4>1, <4>2
    <3>3. QED
      BY <3>1, <3>2
  <2>4. CASE ReadSecret(t)
    BY <2>4 DEF ReadSecret, Untouched, Taking
  <2>5. CASE ClientBootstraps(t) \/ PromptPasses(t) \/ PromptIsFailed(t)
    BY <2>5 DEF ClientBootstraps, PromptPasses, PromptIsFailed, Taking
  <2>6. QED
    BY <2>1, <2>2, <2>3, <2>4, <2>5
<1>7. QED
  BY <1>4, <1>5, <1>6

\* The bookkeeping of a failed prompt, and a quick unlock that forgets.
LEMMA FailedTypes ==
  ASSUME TypeOK, NEW t \in Tasks, LoadFailed(t) \/ SaveFailed(t)
  PROVE  TypeOK'
<1> USE DEF At, session
<1>1. OthersOK'
  BY OthersOfSession, OthersOfQuick
<1>2. task[t].pc \in Holding /\ task[t].pc \in Taking /\ UNCHANGED stuck
  BY DEF LoadFailed, SaveFailed, Holding, Taking, process
<1>3. CASE LoadFailed(t)
  <2> DEFINE c == [task[t] EXCEPT !.pc = "save failed", !.meta = PromptFailed(q.meta)]
  <2>1. task' = [task EXCEPT ![t] = c]
    BY <1>3 DEF LoadFailed
  <2>2. PromptFailed(q.meta) \in Metas /\ task[t] \in TaskType
    BY TypeParts, QuickTypes DEF OthersOK, QuickType, TaskType
  <2>3. c \in TaskType /\ c.pc = "save failed"
    BY <2>2 DEF TaskType, Pcs, Holding, Taking
  <2> HIDE DEF c
  <2>4. UNCHANGED <<slot, holder>>
    BY <1>3 DEF LoadFailed
  <2>5. c.pc \in Holding /\ c.pc \in Taking
    BY <2>3 DEF Holding, Taking
  <2>6. QED
    BY <1>1, <1>2, <2>1, <2>3, <2>4, <2>5, Moves
<1>4. CASE SaveFailed(t)
  <2>1. \/ Goes(t, "quick rm secret") /\ UNCHANGED session
        \/ GivesBack(t, Untouched) /\ Ends(t)
    BY <1>4 DEF SaveFailed
  <2>2. CASE Goes(t, "quick rm secret") /\ UNCHANGED session
    BY <1>1, <1>2, <2>2, MovesOn DEF Pcs, Holding, Taking
  <2>3. CASE GivesBack(t, Untouched) /\ Ends(t)
    BY <1>1, <1>2, <2>3, GivesOn DEF GivesBack, Untouched, Pcs, Holding, Taking
  <2>4. QED
    BY <2>1, <2>2, <2>3
<1>5. QED
  BY <1>3, <1>4

\* Commands that need an unlocked vault, or lock it.
LEMMA UserTypes ==
  ASSUME TypeOK, NEW t \in Tasks, UseVault(t) \/ LockVault(t)
  PROVE  TypeOK'
<1> USE DEF At
<1>1. OthersOK'
  BY OthersOfSession
<1>2. task[t].pc = "wait" /\ holder = Nobody /\ UNCHANGED stuck
  BY DEF UseVault, LockVault, process
<1>3. task \in [Tasks -> TaskType] /\ \A u \in Tasks : task[u].pc \notin Holding
  BY <1>2, TypeParts DEF SlotKept
<1>4. \A u \in Tasks : task[u].pc \notin Taking
  BY <1>3 DEF Holding
<1>5. slot \in {"locked", "unlocked", "empty"} /\ (slot = "empty" <=> stuck)
  BY <1>4, TypeParts DEF SlotKept
<1>6. CASE UseVault(t) /\ Ends(t) /\ UNCHANGED <<slot, holder>>
  BY <1>1, <1>2, <1>6, MovesOn DEF Pcs, Holding, Taking
<1>7. CASE UseVault(t) /\ holder' = t /\ Goes(t, "work") /\ slot = "unlocked" /\ slot' = slot
  <2>1. PICK c \in TaskType : task' = [task EXCEPT ![t] = c] /\ c.pc = "work"
    <3>1. "work" \in Pcs
      BY DEF Pcs, Holding
    <3>2. QED
      BY <1>7, <3>1, GoesTo
  <2>2. c.pc \in Holding /\ c.pc \notin Taking
    BY <2>1 DEF Holding, Taking
  <2>3. QED
    BY <1>1, <1>2, <1>7, <2>1, <2>2, Takes
<1>8. CASE /\ UNCHANGED <<slot, holder>>
           /\ task' = [u \in Tasks |-> IF u = t THEN [task[t] EXCEPT !.pc = "find secret"]
                                       ELSE [task[u] EXCEPT !.alone = FALSE]]
  <2>1. [task[t] EXCEPT !.pc = "find secret"] \in TaskType
        /\ [task[t] EXCEPT !.pc = "find secret"].pc = "find secret"
    BY <1>3 DEF TaskType, Pcs
  <2>2. \A u \in Tasks : /\ [task[u] EXCEPT !.alone = FALSE] \in TaskType
                         /\ [task[u] EXCEPT !.alone = FALSE].pc = task[u].pc
    BY <1>3 DEF TaskType
  <2>3. task' \in [Tasks -> TaskType]
    BY <1>8, <2>1, <2>2
  <2>4. \A u \in Tasks : task'[u].pc = IF u = t THEN "find secret" ELSE task[u].pc
    BY <1>8, <2>1, <2>2
  <2>5. \A u \in Tasks : task'[u].pc \notin Holding /\ task'[u].pc \notin Taking
    BY <1>3, <1>4, <2>4 DEF Holding, Taking
  <2>6. SlotKept'
    BY <1>2, <1>5, <1>8, <2>5 DEF SlotKept
  <2>7. QED
    BY <1>1, <1>2, <1>5, <1>8, <2>3, <2>6 DEF OthersOK, TaskType, QuickType, TypeOK
<1>9. CASE LockVault(t)
  <2>1. /\ slot' \in {"locked", "empty"} /\ (slot' = "empty" <=> slot = "empty")
        /\ holder' = Nobody /\ Ends(t)
    BY <1>2, <1>9 DEF LockVault
  <2>2. task' \in [Tasks -> TaskType] /\ \A u \in Tasks : task'[u] = Idle \/ task'[u] = task[u]
    BY <1>3, <2>1, EndsIdle, IdleType
  <2>3. \A u \in Tasks : task'[u].pc \notin Holding /\ task'[u].pc \notin Taking
    BY <1>3, <1>4, <2>2, IdleType DEF Holding
  <2>4. SlotKept'
    BY <1>2, <1>5, <2>1, <2>3 DEF SlotKept
  <2>5. QED
    BY <1>1, <2>1, <2>2, <2>4 DEF OthersOK, TaskType, QuickType, TypeOK
<1>10. QED
  BY <1>2, <1>6, <1>7, <1>8, <1>9 DEF UseVault

\* Steps that store quick unlock or record a passphrase, with no mutex.
LEMMA StoreTypes ==
  ASSUME TypeOK, NEW t \in Tasks,
         \/ FindSecret(t) \/ MakeSecret(t) \/ OpenSnapshot(t) \/ SaveSnapshot(t)
         \/ LoadMeta(t) \/ SaveMeta(t)
  PROVE  TypeOK'
<1> USE DEF At, session
<1>1. OthersOK'
  BY OthersOfSession, OthersOfQuick
<1>2. UNCHANGED <<slot, holder, stuck>>
  BY DEF process, FindSecret, MakeSecret, OpenSnapshot, SaveSnapshot, LoadMeta, SaveMeta
<1>3. task[t].pc \in {"find secret", "make secret", "open snapshot", "save snapshot",
                     "load meta", "save meta"}
  BY DEF FindSecret, MakeSecret, OpenSnapshot, SaveSnapshot, LoadMeta, SaveMeta
<1>4. task[t].pc \notin Holding /\ task[t].pc \notin Taking
  BY <1>3 DEF Holding, Taking
<1>5. task[t] \in TaskType /\ q \in QuickType /\ q' \in QuickType
  BY <1>1, TypeParts DEF OthersOK
<1>6. ASSUME NEW pc \in {"open snapshot", "make secret", "save meta"}, NEW key \in Nat,
             NEW m \in Metas,
             task' = [task EXCEPT ![t] = [task[t] EXCEPT !.pc = pc, !.key = key, !.meta = m]]
      PROVE  TypeOK'
  <2> DEFINE c == [task[t] EXCEPT !.pc = pc, !.key = key, !.meta = m]
  <2>1. c \in TaskType /\ c.pc = pc
    BY <1>5 DEF TaskType, Pcs
  <2>2. task' = [task EXCEPT ![t] = c]
    BY <1>6
  <2> HIDE DEF c
  <2>3. c.pc \notin Holding /\ c.pc \notin Taking
    BY <2>1 DEF Holding, Taking
  <2>4. QED
    BY <1>1, <1>2, <1>4, <2>1, <2>2, <2>3, Moves
<1>7. task[t].key \in Nat /\ task[t].meta \in Metas /\ q.secret \in Nat /\ q'.secret \in Nat
      /\ Authenticated(q.meta) \in Metas
  BY <1>5, QuickTypes DEF TaskType, QuickType
<1>8. CASE FindSecret(t)
  <2>1. PICK pc \in {"open snapshot", "make secret"} :
          task' = [task EXCEPT ![t].pc = pc, ![t].key = q.secret]
    BY <1>8 DEF FindSecret
  <2>2. task' = [task EXCEPT ![t] = [task[t] EXCEPT !.pc = pc, !.key = q.secret, !.meta = task[t].meta]]
    BY <2>1, <1>5, TypeParts DEF TaskType
  <2>3. QED
    BY <1>6, <1>7, <2>2
<1>9. CASE MakeSecret(t)
  <2>1. task' = [task EXCEPT ![t] = [task[t] EXCEPT !.pc = "open snapshot", !.key = q'.secret,
                                                     !.meta = task[t].meta]]
    BY <1>9, <1>5, TypeParts DEF MakeSecret, TaskType
  <2>2. QED
    BY <1>6, <1>7, <2>1
<1>10. CASE LoadMeta(t)
  <2>1. task' = [task EXCEPT ![t] = [task[t] EXCEPT !.pc = "save meta", !.key = task[t].key,
                                                     !.meta = Authenticated(q.meta)]]
    BY <1>10, <1>5, TypeParts DEF LoadMeta, TaskType
  <2>2. QED
    BY <1>6, <1>7, <2>1
<1>11. CASE OpenSnapshot(t) \/ SaveSnapshot(t) \/ SaveMeta(t)
  <2>1. PICK pc \in {"idle", "save snapshot", "load meta", "touch"} :
          Goes(t, pc) \/ (Ends(t) /\ pc = "idle")
    <3>1. CASE OpenSnapshot(t)
      BY <3>1 DEF OpenSnapshot
    <3>2. CASE SaveSnapshot(t)
      BY <3>2 DEF SaveSnapshot
    <3>3. CASE SaveMeta(t)
      BY <3>3 DEF SaveMeta
    <3>4. QED
      BY <1>11, <3>1, <3>2, <3>3
  <2>2. pc \in Pcs /\ pc \notin Holding /\ pc \notin Taking
    BY DEF Pcs, Holding, Taking
  <2>3. QED
    BY <1>1, <1>2, <1>4, <2>1, <2>2, MovesOn
<1>12. QED
  BY <1>8, <1>9, <1>10, <1>11

\* Steps that forget.
LEMMA ForgetTypes ==
  ASSUME TypeOK, NEW t \in Tasks, RemoveSecret(t) \/ RemoveSnapshot(t) \/ RemoveMeta(t)
  PROVE  TypeOK'
<1> USE DEF At, session
<1>1. OthersOK'
  BY OthersOfQuick
<1> UNCHANGED stuck
  BY DEF RemoveSecret, RemoveSnapshot, RemoveMeta, process
<1>2. CASE At(t, "quick rm meta") /\ GivesBack(t, Untouched) /\ Ends(t)
  BY <1>1, <1>2, GivesOn DEF GivesBack, Untouched, Pcs, Holding, Taking
<1>3. CASE At(t, "quick rm secret") /\ Goes(t, "quick rm snapshot") /\ UNCHANGED session
  BY <1>1, <1>3, MovesOn DEF Pcs, Holding, Taking
<1>4. CASE At(t, "quick rm snapshot") /\ Goes(t, "quick rm meta") /\ UNCHANGED session
  BY <1>1, <1>4, MovesOn DEF Pcs, Holding, Taking
<1>5. CASE At(t, "rm secret") /\ Goes(t, "rm snapshot") /\ UNCHANGED session
  BY <1>1, <1>5, MovesOn DEF Pcs, Holding, Taking
<1>6. CASE At(t, "rm snapshot") /\ Goes(t, "rm meta") /\ UNCHANGED session
  BY <1>1, <1>6, MovesOn DEF Pcs, Holding, Taking
<1>7. CASE At(t, "rm meta") /\ UNCHANGED session /\ Ends(t)
  BY <1>1, <1>7, MovesOn DEF Pcs, Holding, Taking
<1>8. QED
  BY <1>2, <1>3, <1>4, <1>5, <1>6, <1>7 DEF RemoveSecret, RemoveSnapshot, RemoveMeta

\* Steps that move no task, and time that ages the bookkeeping everywhere.
LEMMA TimeTypes ==
  ASSUME TypeOK,
         \/ DeleteCopy \/ BecomesInactive \/ BackgroundPassesThreshold \/ WeekPasses
         \/ AutoLockDecides \/ AutoLocks
  PROVE  TypeOK'
<1> USE DEF session, marks, quick, copies, process
<1>1. OthersOK /\ task \in [Tasks -> TaskType] /\ slot \in {"locked", "unlocked", "empty"}
      /\ holder \in Tasks \cup {Nobody} /\ SlotKept
  BY TypeParts
<1>2. OthersOK'
  <2>1. CASE DeleteCopy
    <3>1. timers' \in Nat
      BY <1>1, <2>1 DEF OthersOK, DeleteCopy
    <3>2. QED
      BY <1>1, <2>1, <3>1 DEF OthersOK, DeleteCopy
  <2>2. CASE WeekPasses
    <3>1. q' \in QuickType
      <4>1. Aged(q.meta) \in Metas /\ q \in QuickType
        BY <1>1, QuickTypes DEF OthersOK, QuickType
      <4>2. QED
        BY <4>1, <2>2 DEF WeekPasses, QuickType
    <3>2. QED
      BY <1>1, <2>2, <3>1 DEF OthersOK, WeekPasses
  <2>3. CASE BecomesInactive \/ BackgroundPassesThreshold
    BY <1>1, <2>3 DEF OthersOK, BecomesInactive, BackgroundPassesThreshold
  <2>4. CASE AutoLockDecides \/ AutoLocks
    BY <1>1, <2>4 DEF OthersOK, AutoLockDecides, AutoLocks
  <2>5. QED
    BY <2>1, <2>2, <2>3, <2>4
<1>3. CASE DeleteCopy \/ BecomesInactive \/ BackgroundPassesThreshold \/ AutoLockDecides
  <2>1. UNCHANGED <<slot, holder, task, stuck>>
    BY <1>3 DEF DeleteCopy, BecomesInactive, BackgroundPassesThreshold, AutoLockDecides
  <2>2. QED
    BY <1>1, <1>2, <2>1 DEF SlotKept, OthersOK, TaskType, QuickType, TypeOK
<1>4. CASE AutoLocks
  <2>1. UNCHANGED <<holder, task, stuck>> /\ holder = Nobody /\ slot' = LockedIfOpen(slot)
    BY <1>4 DEF AutoLocks
  <2>2. \A t \in Tasks : task[t].pc \notin Taking
    BY <1>1, <2>1 DEF SlotKept, Holding
  <2>3. slot' \in {"locked", "unlocked", "empty"} /\ (slot' = "empty" <=> stuck)
    BY <1>1, <2>1, <2>2 DEF SlotKept, LockedIfOpen
  <2>4. SlotKept'
    BY <1>1, <2>1, <2>2, <2>3 DEF SlotKept
  <2>5. QED
    BY <1>1, <1>2, <2>1, <2>3, <2>4 DEF OthersOK, TaskType, QuickType, TypeOK
<1>5. CASE WeekPasses
  <2>1. /\ UNCHANGED <<slot, holder, stuck>>
        /\ task' = [t \in Tasks |-> [task[t] EXCEPT !.meta = Aged(task[t].meta)]]
    BY <1>5 DEF WeekPasses
  <2>2. \A t \in Tasks : Aged(task[t].meta) \in Metas
    BY <1>1, QuickTypes DEF OthersOK, TaskType
  <2>3. task' \in [Tasks -> TaskType] /\ \A t \in Tasks : task'[t].pc = task[t].pc
    BY <1>1, <2>1, <2>2 DEF TaskType
  <2>4. SlotKept'
    BY <1>1, <2>1, <2>3 DEF SlotKept
  <2>5. QED
    BY <1>1, <1>2, <2>1, <2>3, <2>4 DEF OthersOK, TaskType, QuickType, TypeOK
<1>6. QED
  BY <1>3, <1>4, <1>5

\* A death of the process leaves the slot locked and nothing running.
LEMMA CrashTypes ==
  ASSUME TypeOK, Crash
  PROVE  TypeOK'
<1>1. OthersOK /\ q \in QuickType
  BY TypeParts DEF OthersOK
<1>2. slot' = "locked" /\ holder' = Nobody /\ task' = [t \in Tasks |-> Idle] /\ stuck' = FALSE
  BY DEF Crash
<1>3. q' \in QuickType
  <2>1. MetaRemoved(q) \in QuickType
    BY <1>1, QuickTypes, IdleType DEF TaskType
  <2>2. q' \in {q, MetaRemoved(q)}
    BY DEF Crash
  <2>3. QED
    BY <1>1, <2>1, <2>2
<1>4. config' \in BOOLEAN /\ mixed' \in BOOLEAN
  <2>1. config' \in BOOLEAN \/ config' = config
    BY DEF Crash
  <2>2. mixed' \in BOOLEAN
    BY DEF Crash
  <2>3. QED
    BY <1>1, <2>1, <2>2 DEF OthersOK
<1>5. crashes' \in Nat /\ uncounted' \in Nat
  <2>1. uncounted' \in {uncounted + 0, uncounted + 1}
    BY DEF Crash
  <2>2. \A n \in Nat : n + 0 \in Nat
    OBVIOUS
  <2>3. QED
    BY <1>1, <2>1, <2>2, CountsUp DEF OthersOK, Crash
<1>6. UNCHANGED <<initialised, tries, forgotten, starts>> /\ copy' = FALSE /\ timers' = 0
      /\ leftover' = FALSE /\ inactive' = FALSE /\ since' = "none" /\ auto' = "asleep"
  BY DEF Crash, Swept
<1>7. 0 \in Nat
  OBVIOUS
<1>8. OthersOK'
  BY <1>1, <1>2, <1>3, <1>4, <1>5, <1>6, <1>7 DEF OthersOK
<1>9. SlotKept'
  BY <1>2, IdleType DEF SlotKept, Holding
<1>10. QED
  BY <1>2, <1>8, <1>9, IdleType DEF OthersOK, TaskType, QuickType, TypeOK

\* A fresh process has the types.
LEMMA InitTypes == Init => TypeOK
<1> SUFFICES ASSUME Init PROVE TypeOK
  OBVIOUS
<1>1. q \in QuickType
  <2>1. NothingStored \in QuickType
    BY DEF NothingStored, QuickType, NoKey, NoMeta, Metas
  <2>2. CASE q \in [secret : {1}, snapshot : {1}, made : {1},
                    meta : [auth : {"recent"}, failed : 0..MaxFailed - 1]]
    BY <2>2 DEF QuickType, Metas
  <2>3. QED
    BY <2>1, <2>2 DEF Init
<1>2. tries \in Nat
  BY <1>1 DEF Init, QuickType, Metas
<1>3. 0 \in Nat
  OBVIOUS
<1>4. OthersOK
  BY <1>1, <1>2, <1>3 DEF Init, OthersOK
<1>5. task \in [Tasks -> TaskType] /\ \A t \in Tasks : task[t].pc = "idle"
  BY IdleType DEF Init
<1>6. SlotKept
  BY <1>5, IdleType DEF Init, SlotKept, Holding
<1>7. QED
  BY <1>4, <1>5, <1>6, TypeParts DEF Init

\* Every step keeps the types.
LEMMA TypeStep ==
  ASSUME TypeOK, [Next]_vars
  PROVE  TypeOK'
<1>1. ASSUME NEW t \in Tasks, StartCommand(t) \/ WindowEvent(t)
      PROVE  TypeOK'
  BY <1>1, BeginTypes
<1>2. ASSUME NEW t \in Tasks, TaskStep(t)
      PROVE  TypeOK'
  BY <1>2, LooseTypes, TakingTypes, FailsTypes, HolderTypes, FailedTypes, UserTypes, StoreTypes, ForgetTypes
     DEF TaskStep
<1>3. CASE UNCHANGED vars
  BY <1>3 DEF vars, session, marks, quick, copies, process, TypeOK, SlotKept
<1>4. QED
  BY <1>1, <1>2, <1>3, TimeTypes, CrashTypes DEF Next

\* Values have their types, and whoever holds the slot's mutex is where the
\* code holds its guard: no failure of an unlock loses the vault, unless it cannot
\* be reopened (state.rs, commands.rs: every path that empties the slot puts a
\* vault, or what reopen_locked returns, back before the guard goes).
THEOREM TypeCorrect == Spec => []TypeOK
<1>1. Init => TypeOK
  BY InitTypes
<1>2. TypeOK /\ [Next]_vars => TypeOK'
  BY TypeStep
<1>3. QED
  BY <1>1, <1>2, PTL DEF Spec
-------------------------------------------------------------------------------
(* What a step leaves alone. *)

\* A step of one task moves no other.
LEMMA OthersStay ==
  ASSUME TypeOK, NEW t \in Tasks, StartCommand(t) \/ WindowEvent(t) \/ TaskStep(t),
         NEW u \in Tasks, u # t
  PROVE  /\ task'[u].pc = task[u].pc /\ task'[u].kind = task[u].kind
         /\ task'[u].key = task[u].key /\ task'[u].meta = task[u].meta
         /\ task'[u].alone => task[u].alone
<1>1. task \in [Tasks -> TaskType]
  BY TypeParts
<1>2. CASE task'[u] = task[u]
  BY <1>2
<1>3. CASE task'[u] = [task[u] EXCEPT !.alone = FALSE]
  BY <1>1, <1>3 DEF TaskType
<1>4. task'[u] = task[u] \/ task'[u] = [task[u] EXCEPT !.alone = FALSE]
  <2>1. CASE StartCommand(t) \/ WindowEvent(t)
    BY <1>1, <2>1 DEF StartCommand, WindowEvent, Begin
  <2>2. CASE Blurred(t) \/ Focused(t) \/ Look(t)
    BY <1>1, <2>2 DEF Blurred, Focused, Look, Goes, Ends
  <2>3. CASE TakeVault(t) \/ ClientFails(t) \/ ClientUnlocks(t) \/ ClientBootstraps(t) \/ SaveConfig(t)
    BY <1>1, <2>3 DEF TakeVault, ClientFails, ClientUnlocks, ClientBootstraps, SaveConfig, Goes, Ends
  <2>4. CASE Check(t)
    <3>1. CASE ~Enabled(q)
      BY <1>1, <2>4, <3>1 DEF Check, Ends
    <3>2. CASE Enabled(q)
      <4>1. \E pc \in Pcs : Goes(t, pc)
        BY <2>4, <3>2 DEF Check, Pcs, Holding, Taking
      <4>2. QED
        BY <1>1, <4>1 DEF Goes
    <3>3. QED
      BY <3>1, <3>2
  <2>5. CASE ReadSecret(t) \/ PromptPasses(t) \/ PromptIsFailed(t)
    BY <1>1, <2>5 DEF ReadSecret, PromptPasses, PromptIsFailed, Goes, Ends
  <2>6. CASE LoadFailed(t)
    BY <1>1, <2>6 DEF LoadFailed
  <2>7. CASE SaveFailed(t)
    BY <1>1, <2>7 DEF SaveFailed, Goes, Ends
  <2>8. CASE UseVault(t)
    BY <1>1, <2>8 DEF UseVault, Goes, Ends
  <2>9. CASE Work(t) \/ LockVault(t) \/ Touch(t) \/ WriteConfig(t)
    BY <1>1, <2>9 DEF Work, LockVault, Touch, WriteConfig, Goes, Ends
  <2>10. CASE FindSecret(t) \/ MakeSecret(t) \/ LoadMeta(t)
    BY <1>1, <2>10 DEF FindSecret, MakeSecret, LoadMeta
  <2>11. CASE OpenSnapshot(t) \/ SaveSnapshot(t) \/ SaveMeta(t)
    BY <1>1, <2>11 DEF OpenSnapshot, SaveSnapshot, SaveMeta, Goes, Ends
  <2>12. CASE RemoveSecret(t) \/ RemoveSnapshot(t) \/ RemoveMeta(t)
    BY <1>1, <2>12 DEF RemoveSecret, RemoveSnapshot, RemoveMeta, Goes, Ends
  <2>13. CASE WriteCopy(t) \/ FinishCopy(t) \/ OpenCopy(t)
    BY <1>1, <2>13 DEF WriteCopy, FinishCopy, OpenCopy, Goes, Ends
  <2>14. QED
    BY <2>1, <2>2, <2>3, <2>4, <2>5, <2>6, <2>7, <2>8, <2>9, <2>10, <2>11, <2>12, <2>13 DEF TaskStep
<1>5. QED
  BY <1>2, <1>3, <1>4

\* Time and the auto-lock loop leave every task where it is.
LEMMA TimeStays ==
  ASSUME TypeOK, NEW u \in Tasks,
         \/ DeleteCopy \/ BecomesInactive \/ BackgroundPassesThreshold \/ WeekPasses
         \/ AutoLockDecides \/ AutoLocks
  PROVE  /\ task'[u].pc = task[u].pc /\ task'[u].kind = task[u].kind
         /\ task'[u].key = task[u].key /\ task'[u].alone = task[u].alone
         /\ task'[u].meta = task[u].meta \/ (WeekPasses /\ task'[u].meta = Aged(task[u].meta))
<1>1. task \in [Tasks -> TaskType]
  BY TypeParts
<1>2. CASE WeekPasses
  <2>1. task'[u] = [task[u] EXCEPT !.meta = Aged(task[u].meta)]
    BY <1>2 DEF WeekPasses
  <2>2. QED
    BY <1>1, <1>2, <2>1 DEF TaskType
<1>3. CASE ~WeekPasses
  BY <1>3 DEF DeleteCopy, BecomesInactive, BackgroundPassesThreshold, AutoLockDecides, AutoLocks
<1>4. QED
  BY <1>2, <1>3
-------------------------------------------------------------------------------
(* The plaintext copy. *)

Sharing(u) == task[u].pc \in {"finish copy", "open copy"}

\* Every step leaves a copy its deletion.
LEMMA DeadlineStep ==
  ASSUME TypeOK, PlaintextHasDeadline, [Next]_vars
  PROVE  PlaintextHasDeadline'
<1> USE DEF copies
<1>1. timers \in Nat /\ task \in [Tasks -> TaskType]
  BY TypeParts DEF OthersOK
<1>2. ASSUME NEW t \in Tasks, WriteCopy(t)
      PROVE  PlaintextHasDeadline'
  <2>1. CASE Goes(t, "finish copy")
    <3>1. task'[t].pc = "finish copy"
      BY <1>1, <2>1 DEF Goes, TaskType
    <3>2. QED
      BY <3>1 DEF PlaintextHasDeadline
  <2>2. CASE Ends(t) /\ UNCHANGED copy
    <3>1. \A u \in Tasks : Sharing(u) => task'[u].pc = task[u].pc
      BY <1>1, <1>2, <2>2 DEF Ends, Sharing, WriteCopy, At
    <3>2. QED
      BY <1>2, <2>2, <3>1 DEF PlaintextHasDeadline, WriteCopy, Sharing
  <2>3. QED
    BY <1>2, <2>1, <2>2 DEF WriteCopy
<1>3. ASSUME NEW t \in Tasks, FinishCopy(t)
      PROVE  PlaintextHasDeadline'
  <2>1. CASE Goes(t, "open copy")
    <3>1. task'[t].pc = "open copy"
      BY <1>1, <2>1 DEF Goes, TaskType
    <3>2. QED
      BY <3>1 DEF PlaintextHasDeadline
  <2>2. CASE Ends(t) /\ leftover' = copy
    BY <1>3, <2>2 DEF PlaintextHasDeadline, FinishCopy
  <2>3. QED
    BY <1>3, <2>1, <2>2 DEF FinishCopy
<1>4. ASSUME NEW t \in Tasks, OpenCopy(t)
      PROVE  PlaintextHasDeadline'
  <2>1. timers' = timers + 1
    BY <1>4 DEF OpenCopy, TimersAfter
  <2>2. timers' > 0
    BY <1>1, <2>1
  <2>3. QED
    BY <2>2 DEF PlaintextHasDeadline
<1>5. CASE DeleteCopy \/ Crash
  BY <1>5 DEF PlaintextHasDeadline, DeleteCopy, Crash, Swept
<1>6. ASSUME UNCHANGED copies, \A u \in Tasks : Sharing(u) => task'[u].pc = task[u].pc
      PROVE  PlaintextHasDeadline'
  BY <1>6 DEF PlaintextHasDeadline, Sharing
<1>7. ASSUME NEW t \in Tasks, StartCommand(t) \/ WindowEvent(t) \/ TaskStep(t),
             ~WriteCopy(t), ~FinishCopy(t), ~OpenCopy(t)
      PROVE  UNCHANGED copies /\ ~Sharing(t)
  <2> USE DEF At, Sharing
  <2>1. CASE StartCommand(t) \/ WindowEvent(t)
    BY <2>1 DEF StartCommand, WindowEvent, Begin
  <2>2. CASE Blurred(t) \/ Focused(t) \/ Look(t)
    BY <2>2 DEF Blurred, Focused, Look
  <2>3. CASE TakeVault(t) \/ ClientFails(t) \/ ClientUnlocks(t) \/ ClientBootstraps(t) \/ SaveConfig(t)
    BY <2>3 DEF TakeVault, ClientFails, ClientUnlocks, ClientBootstraps, SaveConfig
  <2>4. CASE Check(t) \/ ReadSecret(t) \/ PromptPasses(t) \/ PromptIsFailed(t)
    BY <2>4 DEF Check, ReadSecret, PromptPasses, PromptIsFailed
  <2>5. CASE LoadFailed(t) \/ SaveFailed(t)
    BY <2>5 DEF LoadFailed, SaveFailed
  <2>6. CASE UseVault(t) \/ Work(t) \/ LockVault(t) \/ Touch(t) \/ WriteConfig(t)
    BY <2>6 DEF UseVault, Work, LockVault, Touch, WriteConfig
  <2>7. CASE FindSecret(t) \/ MakeSecret(t) \/ LoadMeta(t)
    BY <2>7 DEF FindSecret, MakeSecret, LoadMeta
  <2>8. CASE OpenSnapshot(t) \/ SaveSnapshot(t) \/ SaveMeta(t)
    BY <2>8 DEF OpenSnapshot, SaveSnapshot, SaveMeta
  <2>9. CASE RemoveSecret(t) \/ RemoveSnapshot(t) \/ RemoveMeta(t)
    BY <2>9 DEF RemoveSecret, RemoveSnapshot, RemoveMeta
  <2>10. QED
    BY <1>7, <2>1, <2>2, <2>3, <2>4, <2>5, <2>6, <2>7, <2>8, <2>9 DEF TaskStep
<1>8. ASSUME NEW t \in Tasks, StartCommand(t) \/ WindowEvent(t) \/ TaskStep(t),
             ~WriteCopy(t), ~FinishCopy(t), ~OpenCopy(t)
      PROVE  PlaintextHasDeadline'
  <2>1. \A u \in Tasks : Sharing(u) => task'[u].pc = task[u].pc
    BY <1>7, <1>8, OthersStay
  <2>2. QED
    BY <1>6, <1>7, <1>8, <2>1
<1>9. CASE BecomesInactive \/ BackgroundPassesThreshold \/ WeekPasses \/ AutoLockDecides \/ AutoLocks
  <2>1. UNCHANGED copies
    BY <1>9 DEF BecomesInactive, BackgroundPassesThreshold, WeekPasses, AutoLockDecides, AutoLocks
  <2>2. \A u \in Tasks : task'[u].pc = task[u].pc
    BY <1>9, TimeStays
  <2>3. QED
    BY <1>6, <2>1, <2>2
<1>10. CASE UNCHANGED vars
  BY <1>10 DEF vars, PlaintextHasDeadline
<1>11. QED
  BY <1>2, <1>3, <1>4, <1>5, <1>8, <1>9, <1>10 DEF Next

\* A plaintext copy that another app was given has its deletion to come, in
\* whatever order commands share, fail and time out (commands.rs doc_share).
THEOREM CopiesGetDeleted == Spec => []PlaintextHasDeadline
<1>1. Init => TypeOK /\ PlaintextHasDeadline
  BY InitTypes DEF Init, PlaintextHasDeadline
<1>2. TypeOK /\ PlaintextHasDeadline /\ [Next]_vars => TypeOK' /\ PlaintextHasDeadline'
  BY TypeStep, DeadlineStep
<1>3. QED
  BY <1>1, <1>2, PTL DEF Spec
-------------------------------------------------------------------------------
(* The prompts. *)

Recording(u) == task[u].pc \in {"load failed", "save failed"}
Slack        == IF \E u \in Tasks : Recording(u) THEN 1 ELSE 0

\* Before it prompts, a quick unlock has seen that prompts are left.
PromptsLeft == \A u \in Tasks : task[u].pc \in {"read secret", "prompt"} => tries < MaxFailed + uncounted

\* The bookkeeping counts every failed prompt but one that is being recorded,
\* and such as are known to be uncounted; a recording that has read it knows
\* them all.
Counted  == q.meta.auth = "recent" => tries <= q.meta.failed + uncounted + Slack
Recorded == \A u \in Tasks : task[u].pc = "save failed" /\ task[u].meta.auth = "recent"
                              => tries <= task[u].meta.failed + uncounted

\* A quick unlock records no passphrase entry.
EntriesByPassphrase ==
  \A u \in Tasks : /\ task[u].pc \in {"load meta", "save meta"} => task[u].kind # "quick"
                   /\ Enabling(u) => task[u].kind = "enable"

PromptInv == PromptsLeft /\ Counted /\ Recorded /\ EntriesByPassphrase

\* What the operations of quick unlock change of its files, and what they keep.
LEMMA QuickFields ==
  ASSUME NEW x \in QuickType, NEW m \in Metas, NEW key \in Nat
  PROVE  /\ SnapshotSaved(x, key).snapshot = key /\ SnapshotSaved(x, key).secret = x.secret
         /\ SnapshotSaved(x, key).meta = x.meta
         /\ MetaSaved(x, m).meta = m /\ MetaSaved(x, m).secret = x.secret
         /\ MetaSaved(x, m).snapshot = x.snapshot
         /\ SecretRemoved(x).secret = NoKey /\ SecretRemoved(x).snapshot = x.snapshot
         /\ SecretRemoved(x).meta = x.meta
         /\ SnapshotRemoved(x).snapshot = NoKey /\ SnapshotRemoved(x).secret = x.secret
         /\ SnapshotRemoved(x).meta = x.meta
         /\ MetaRemoved(x).meta.auth = "none" /\ MetaRemoved(x).secret = x.secret
         /\ MetaRemoved(x).snapshot = x.snapshot
         /\ SecretMade(x).secret = x.made + 1 /\ SecretMade(x).snapshot = x.snapshot
         /\ SecretMade(x).meta = x.meta
         /\ DeviceSecret(x).snapshot = x.snapshot /\ DeviceSecret(x).meta = x.meta
<1>1. SnapshotSaved(x, key).snapshot = key /\ SnapshotSaved(x, key).secret = x.secret
      /\ SnapshotSaved(x, key).meta = x.meta
  BY DEF SnapshotSaved, QuickType
<1>2. MetaSaved(x, m).meta = m /\ MetaSaved(x, m).secret = x.secret
      /\ MetaSaved(x, m).snapshot = x.snapshot
  BY DEF MetaSaved, QuickType
<1>3. SecretRemoved(x).secret = NoKey /\ SecretRemoved(x).snapshot = x.snapshot
      /\ SecretRemoved(x).meta = x.meta
  BY DEF SecretRemoved, QuickType
<1>4. SnapshotRemoved(x).snapshot = NoKey /\ SnapshotRemoved(x).secret = x.secret
      /\ SnapshotRemoved(x).meta = x.meta
  BY DEF SnapshotRemoved, QuickType
<1>5. MetaRemoved(x).meta = NoMeta /\ MetaRemoved(x).secret = x.secret
      /\ MetaRemoved(x).snapshot = x.snapshot
  BY DEF MetaRemoved, QuickType
<1>6. NoMeta.auth = "none"
  BY DEF NoMeta
<1>7. SecretMade(x).secret = x.made + 1 /\ SecretMade(x).snapshot = x.snapshot
      /\ SecretMade(x).meta = x.meta
  BY DEF SecretMade, QuickType
<1>8. DeviceSecret(x).snapshot = x.snapshot /\ DeviceSecret(x).meta = x.meta
  BY <1>7 DEF DeviceSecret
<1>9. QED
  BY <1>1, <1>2, <1>3, <1>4, <1>5, <1>6, <1>7, <1>8

\* Only one task is where the mutex is held.
LEMMA OneHolder ==
  ASSUME TypeOK, NEW t \in Tasks, NEW u \in Tasks, u # t, task[t].pc \in Holding
  PROVE  task[u].pc \notin Holding
BY TypeParts DEF SlotKept

\* Where a task is after Goes and after Ends.
LEMMA NowAt ==
  ASSUME TypeOK, NEW t \in Tasks
  PROVE  /\ \A pc \in Pcs : Goes(t, pc) =>
              /\ task'[t].pc = pc /\ task'[t].kind = task[t].kind /\ task'[t].key = task[t].key
              /\ task'[t].meta = task[t].meta /\ task'[t].alone = task[t].alone
         /\ Ends(t) => task'[t].pc = "idle" /\ task'[t].alone = FALSE
BY TypeParts DEF Goes, Ends, TaskType, Idle

\* A step that fails no prompt and records nothing.
LEMMA PromptQuiet ==
  ASSUME TypeOK, PromptInv, NEW t \in Tasks, StartCommand(t) \/ WindowEvent(t) \/ TaskStep(t),
         UNCHANGED <<tries, uncounted>>, q'.meta = q.meta \/ q'.meta.auth # "recent",
         ~Recording(t), task'[t].pc \notin {"load failed", "save failed"},
         task'[t].pc \in {"read secret", "prompt"} => tries < MaxFailed + uncounted,
         task'[t].pc \in {"load meta", "save meta"} => task'[t].kind # "quick",
         Enabling(t)' => task'[t].kind = "enable"
  PROVE  PromptInv'
<1>1. \A u \in Tasks : u # t => /\ task'[u].pc = task[u].pc /\ task'[u].kind = task[u].kind
                                /\ task'[u].meta = task[u].meta
  BY OthersStay
<1>2. \A u \in Tasks : Recording(u)' <=> Recording(u)
  BY <1>1 DEF Recording
<1>3. Slack' = Slack
  BY <1>2 DEF Slack
<1>4. PromptsLeft'
  BY <1>1 DEF PromptInv, PromptsLeft
<1>5. Counted'
  BY <1>3 DEF PromptInv, Counted
<1>6. Recorded'
  BY <1>1 DEF PromptInv, Recorded
<1>7. EntriesByPassphrase'
  BY <1>1 DEF PromptInv, EntriesByPassphrase, Enabling
<1>8. QED
  BY <1>4, <1>5, <1>6, <1>7 DEF PromptInv

\* Steps of commands that have nothing to do with the bookkeeping.
LEMMA PromptElsewhere ==
  ASSUME TypeOK, PromptInv, NEW t \in Tasks,
         \/ StartCommand(t) \/ WindowEvent(t) \/ Blurred(t) \/ Focused(t) \/ Look(t)
         \/ TakeVault(t) \/ ClientFails(t) \/ SaveConfig(t) \/ PromptPasses(t) \/ Work(t) \/ LockVault(t) \/ WriteConfig(t)
         \/ WriteCopy(t) \/ FinishCopy(t) \/ OpenCopy(t)
         \/ RemoveSecret(t) \/ RemoveSnapshot(t) \/ RemoveMeta(t)
  PROVE  PromptInv'
<1> USE DEF At, quick, process
<1>1. StartCommand(t) \/ WindowEvent(t) \/ TaskStep(t)
  BY DEF TaskStep
<1>2. UNCHANGED <<tries, uncounted>>
  BY DEF StartCommand, WindowEvent, Begin, Blurred, Focused, Look, TakeVault, ClientFails,
         SaveConfig, PromptPasses, Work, LockVault, WriteConfig,
         WriteCopy, FinishCopy, OpenCopy, RemoveSecret, RemoveSnapshot, RemoveMeta
<1>3. q'.meta = q.meta \/ q'.meta.auth # "recent"
  <2>1. CASE RemoveSecret(t) \/ RemoveSnapshot(t) \/ RemoveMeta(t)
    <3>1. q \in QuickType
      BY TypeParts DEF OthersOK
    <3>2. /\ SecretRemoved(q).meta = q.meta /\ SnapshotRemoved(q).meta = q.meta
          /\ MetaRemoved(q).meta.auth = "none"
      BY <3>1, QuickFields, QuickTypes DEF QuickType
    <3>3. QED
      BY <2>1, <3>2 DEF RemoveSecret, RemoveSnapshot, RemoveMeta
  <2>2. CASE ~(RemoveSecret(t) \/ RemoveSnapshot(t) \/ RemoveMeta(t))
    BY <2>2 DEF StartCommand, WindowEvent, Begin, Blurred, Focused, Look, TakeVault, ClientFails,
         SaveConfig, PromptPasses, Work, LockVault, WriteConfig,
         WriteCopy, FinishCopy, OpenCopy
  <2>3. QED
    BY <2>1, <2>2
<1>4. ~Recording(t)
  BY DEF Recording, StartCommand, WindowEvent, Begin, Blurred, Focused, Look, TakeVault, ClientFails,
         SaveConfig, PromptPasses, Work, LockVault, WriteConfig,
         WriteCopy, FinishCopy, OpenCopy, RemoveSecret, RemoveSnapshot, RemoveMeta
<1> DEFINE Safe == {"idle", "wait", "rm secret", "blurred", "focused", "look", "check", "client",
                    "touch", "save config", "work", "finish copy", "open copy",
                    "rm snapshot", "rm meta", "quick rm snapshot", "quick rm meta"}
<1>5. Safe \subseteq Pcs
  BY DEF Pcs, Holding, Taking
<1>6. ASSUME NEW pc \in Safe, Goes(t, pc) \/ Ends(t)
      PROVE  task'[t].pc \in Safe
  BY <1>5, <1>6, NowAt
<1>7. task'[t].pc \in Safe
  <2>1. CASE StartCommand(t) \/ WindowEvent(t)
    <3>1. PICK kind \in Kinds, pc \in {"rm secret", "wait", "blurred", "focused"} : Begin(t, kind, pc)
      BY <2>1 DEF StartCommand, WindowEvent, StartsAt, Kinds
    <3>2. task'[t].pc = pc
      BY <3>1, TypeParts DEF Begin, Idle
    <3>3. QED
      BY <3>1, <3>2
  <2>2. CASE Look(t)
    <3>1. task'[t].pc \in {"idle", "wait"}
      BY <2>2, TypeParts DEF Look, Idle
    <3>2. QED
      BY <3>1
  <2>3. CASE Blurred(t) \/ Focused(t)
    BY <2>3, <1>6 DEF Blurred, Focused
  <2>4. CASE TakeVault(t)
    BY <2>4, <1>6 DEF TakeVault
  <2>5. CASE ClientFails(t) \/ SaveConfig(t)
    BY <2>5, <1>6 DEF ClientFails, SaveConfig
  <2>6. CASE PromptPasses(t) \/ Work(t) \/ LockVault(t) \/ WriteConfig(t)
    BY <2>6, <1>6 DEF PromptPasses, Work, LockVault, WriteConfig
  <2>7. CASE WriteCopy(t) \/ FinishCopy(t) \/ OpenCopy(t)
    BY <2>7, <1>6 DEF WriteCopy, FinishCopy, OpenCopy
  <2>8. CASE RemoveSecret(t) \/ RemoveSnapshot(t) \/ RemoveMeta(t)
    BY <2>8, <1>6 DEF RemoveSecret, RemoveSnapshot, RemoveMeta
  <2>9. QED
    BY <2>1, <2>2, <2>3, <2>4, <2>5, <2>6, <2>7, <2>8
<1>8. QED
  BY <1>1, <1>2, <1>3, <1>4, <1>7, PromptQuiet DEF Enabling

\* Nothing is known to be failed or uncounted just after the passphrase was entered.
LEMMA PromptEntered ==
  ASSUME TypeOK, PromptInv, NEW t \in Tasks, TaskStep(t), Entered, q' = q,
         task'[t].pc \notin {"load failed", "save failed", "load meta", "save meta"},
         Enabling(t)' => task'[t].kind = "enable"
  PROVE  PromptInv'
<1>1. \A u \in Tasks : u # t => /\ task'[u].pc = task[u].pc /\ task'[u].kind = task[u].kind
                                /\ task'[u].meta = task[u].meta
  BY OthersStay
<1>2. tries' = 0 /\ uncounted' = 0 /\ q.meta.failed \in Nat
  BY TypeParts DEF Entered, OthersOK, QuickType, Metas
<1>3. PromptsLeft'
  <2>1. 0 < MaxFailed + 0
    <3>1. MaxFailed \in Nat /\ MaxFailed # 0
      BY MaxFailedIsPositive, Zenon
    <3>2. QED
      BY <3>1, PositivesStay, Zenon
  <2>2. QED
    BY <1>2, <2>1 DEF PromptsLeft
<1>4. Counted'
  <2>1. Slack' \in Nat
    BY DEF Slack
  <2>2. 0 \in Nat
    OBVIOUS
  <2>3. 0 <= q.meta.failed + 0 + Slack'
    BY <1>2, <2>1, <2>2, SumsGrow, Zenon
  <2>4. QED
    BY <1>2, <2>3 DEF Counted
<1>5. Recorded'
  <2> SUFFICES ASSUME NEW u \in Tasks, task'[u].pc = "save failed"
               PROVE  0 <= task'[u].meta.failed + 0
    BY <1>2 DEF Recorded
  <2>1. task'[u].meta.failed \in Nat
    BY <1>1, TypeParts DEF TaskType, Metas
  <2>2. 0 \in Nat
    OBVIOUS
  <2>3. QED
    BY <2>1, <2>2, SumsAreNatural, Zenon
<1>6. EntriesByPassphrase'
  BY <1>1 DEF PromptInv, EntriesByPassphrase, Enabling
<1>7. QED
  BY <1>3, <1>4, <1>5, <1>6 DEF PromptInv

\* The vault is opened or created, after a passphrase or a prompt.
LEMMA PromptOpened ==
  ASSUME TypeOK, PromptInv, NEW t \in Tasks, ClientUnlocks(t) \/ ClientBootstraps(t)
  PROVE  PromptInv'
<1> USE DEF At, process
<1>1. TaskStep(t)
  BY DEF TaskStep
<1>2. q' = q /\ (Entered \/ UNCHANGED <<tries, uncounted>>)
  BY DEF ClientUnlocks, ClientBootstraps
<1>3. ~Recording(t)
  BY DEF ClientUnlocks, ClientBootstraps, Recording
<1>4. task'[t].pc \in {"touch", "save config"}
  <2>1. Goes(t, "touch") \/ Goes(t, "save config")
    BY DEF ClientUnlocks, ClientBootstraps
  <2>2. {"touch", "save config"} \subseteq Pcs
    BY DEF Pcs, Holding, Taking
  <2>3. QED
    BY <2>1, <2>2, NowAt
<1>5. CASE Entered
  BY <1>1, <1>2, <1>4, <1>5, PromptEntered DEF Enabling
<1>6. CASE UNCHANGED <<tries, uncounted>>
  BY <1>1, <1>2, <1>3, <1>4, <1>6, PromptQuiet DEF Enabling
<1>7. QED
  BY <1>2, <1>5, <1>6

\* Storing quick unlock, and reading the bookkeeping after a passphrase.
LEMMA PromptStored ==
  ASSUME TypeOK, PromptInv, NEW t \in Tasks,
         \/ Touch(t) \/ UseVault(t) \/ FindSecret(t) \/ MakeSecret(t) \/ OpenSnapshot(t)
         \/ SaveSnapshot(t) \/ LoadMeta(t)
  PROVE  PromptInv'
<1> USE DEF At, quick, process
<1>1. StartCommand(t) \/ WindowEvent(t) \/ TaskStep(t)
  BY DEF TaskStep
<1>2. Entered \/ UNCHANGED <<tries, uncounted>>
  BY DEF Touch, UseVault, FindSecret, MakeSecret, OpenSnapshot, SaveSnapshot, LoadMeta
<1>3. q \in QuickType /\ task \in [Tasks -> TaskType] /\ task[t] \in TaskType
  BY TypeParts DEF OthersOK
<1>4. q'.meta = q.meta
  <2>1. SecretMade(q).meta = q.meta /\ SnapshotSaved(q, task[t].key).meta = q.meta
    BY <1>3, QuickFields DEF QuickType, TaskType
  <2>2. QED
    BY <2>1 DEF Touch, UseVault, FindSecret, MakeSecret, OpenSnapshot, SaveSnapshot, LoadMeta
<1>5. ~Recording(t)
  BY DEF Recording, Touch, UseVault, FindSecret, MakeSecret, OpenSnapshot, SaveSnapshot, LoadMeta
<1>6. /\ Enabling(t) => task[t].kind = "enable"
      /\ task[t].pc \in {"load meta", "save meta"} => task[t].kind # "quick"
  BY DEF PromptInv, EntriesByPassphrase
<1>7. {"idle", "load meta", "save meta", "write copy", "write config", "work", "find secret",
       "make secret", "open snapshot", "save snapshot"} \subseteq Pcs
  BY DEF Pcs, Holding
<1> DEFINE Right == \/ task'[t].pc \in {"idle", "write copy", "write config", "work"}
                    \/ task'[t].pc \in {"load meta", "save meta"} /\ task'[t].kind # "quick"
                    \/ /\ task'[t].pc \in {"find secret", "make secret", "open snapshot", "save snapshot"}
                       /\ task'[t].kind = "enable"
<1>8. Right
  <2>1. CASE Touch(t)
    <3>1. CASE Ends(t)
      BY <3>1, NowAt
    <3>2. CASE Goes(t, AfterTouch(task[t].kind)) /\ AfterTouch(task[t].kind) # "idle"
      <4>1. \/ AfterTouch(task[t].kind) \in {"write copy", "write config"}
            \/ AfterTouch(task[t].kind) = "load meta" /\ task[t].kind # "quick"
        BY <3>2 DEF AfterTouch
      <4>2. task'[t].pc = AfterTouch(task[t].kind) /\ task'[t].kind = task[t].kind
        BY <1>7, <3>2, <4>1, NowAt
      <4>3. QED
        BY <4>1, <4>2
    <3>3. QED
      BY <2>1, <3>1, <3>2 DEF Touch
  <2>2. CASE UseVault(t)
    <3>1. CASE Ends(t) \/ Goes(t, "work")
      BY <1>7, <3>1, NowAt
    <3>2. CASE /\ task[t].kind = "enable"
               /\ task' = [u \in Tasks |-> IF u = t THEN [task[t] EXCEPT !.pc = "find secret"]
                                           ELSE [task[u] EXCEPT !.alone = FALSE]]
      <4>1. task'[t] = [task[t] EXCEPT !.pc = "find secret"]
        BY <3>2
      <4>2. task'[t].pc = "find secret" /\ task'[t].kind = "enable"
        BY <1>3, <3>2, <4>1 DEF TaskType
      <4>3. QED
        BY <4>2
    <3>3. QED
      BY <2>2, <3>1, <3>2 DEF UseVault
  <2>3. CASE FindSecret(t) \/ MakeSecret(t)
    <3>1. task'[t].pc \in {"make secret", "open snapshot"} /\ task'[t].kind = task[t].kind
      <4>1. \E pc \in {"make secret", "open snapshot"}, key \in {q.secret, q'.secret} :
              task' = [task EXCEPT ![t].pc = pc, ![t].key = key]
        BY <2>3 DEF FindSecret, MakeSecret
      <4>2. QED
        BY ZenonT(30), <1>3, <4>1 DEF TaskType
    <3>2. task[t].kind = "enable"
      BY <1>6, <2>3 DEF Enabling, FindSecret, MakeSecret
    <3>3. QED
      BY <3>1, <3>2
  <2>4. CASE OpenSnapshot(t) \/ SaveSnapshot(t)
    <3>1. Ends(t) \/ Goes(t, "save snapshot") \/ Goes(t, "load meta")
      BY <2>4 DEF OpenSnapshot, SaveSnapshot
    <3>2. task[t].kind = "enable"
      BY <1>6, <2>4 DEF Enabling, OpenSnapshot, SaveSnapshot
    <3>3. QED
      BY <1>7, <3>1, <3>2, NowAt
  <2>5. CASE LoadMeta(t)
    <3>1. task'[t].pc = "save meta" /\ task'[t].kind = task[t].kind
      BY <1>3, <2>5 DEF LoadMeta, TaskType
    <3>2. QED
      BY <1>6, <2>5, <3>1 DEF LoadMeta
  <2>6. QED
    BY <2>1, <2>2, <2>3, <2>4, <2>5
<1>9. CASE UNCHANGED <<tries, uncounted>>
  BY <1>1, <1>4, <1>5, <1>8, <1>9, PromptQuiet DEF Enabling
<1>10. CASE Entered /\ ~UNCHANGED <<tries, uncounted>>
  <2>1. UseVault(t)
    BY <1>10 DEF Touch, FindSecret, MakeSecret, OpenSnapshot, SaveSnapshot, LoadMeta
  <2>2. q' = q
    BY <2>1 DEF UseVault
  <2>3. task'[t].pc \in {"idle", "work", "find secret"}
    <3>1. CASE Ends(t) \/ Goes(t, "work")
      BY <1>7, <3>1, NowAt
    <3>2. CASE task' = [u \in Tasks |-> IF u = t THEN [task[t] EXCEPT !.pc = "find secret"]
                                         ELSE [task[u] EXCEPT !.alone = FALSE]]
      BY <1>3, <3>2 DEF TaskType
    <3>3. QED
      BY <2>1, <3>1, <3>2 DEF UseVault
  <2>4. QED
    BY <1>1, <1>8, <1>10, <2>2, <2>3, PromptEntered DEF TaskStep, Enabling
<1>11. QED
  BY <1>2, <1>9, <1>10

\* Up to a prompt: nothing is being recorded, so the bookkeeping tells the truth.
LEMMA PromptAllowed ==
  ASSUME TypeOK, PromptInv, NEW t \in Tasks, Check(t) \/ ReadSecret(t)
  PROVE  PromptInv'
<1> USE DEF At, quick, process
<1>1. TaskStep(t)
  BY DEF TaskStep
<1>2. UNCHANGED <<tries, uncounted>>
  BY DEF Check, ReadSecret
<1>3. q \in QuickType /\ q.meta \in Metas /\ tries \in Nat /\ uncounted \in Nat
  BY TypeParts DEF OthersOK, QuickType
<1>4. q'.meta = q.meta
  <2>1. DeviceSecret(q).meta = q.meta
    BY <1>3, QuickFields, QuickTypes DEF QuickType
  <2>2. QED
    BY <2>1 DEF Check, ReadSecret
<1>5. task[t].pc \in Holding /\ ~Recording(t)
  BY DEF Check, ReadSecret, Recording, Holding, Taking
<1>6. \A u \in Tasks : ~Recording(u)
  <2>1. \A u \in Tasks : u # t => task[u].pc \notin Holding
    BY <1>5, OneHolder
  <2>2. QED
    BY <1>5, <2>1 DEF Recording, Holding, Taking
<1>7. Slack = 0
  BY <1>6 DEF Slack
<1>8. {"idle", "read secret", "prompt", "quick rm secret"} \subseteq Pcs
  BY DEF Pcs, Holding, Taking
<1>9. CASE Check(t)
  <2>1. CASE Ends(t) \/ Goes(t, "quick rm secret")
    <3>1. task'[t].pc \in {"idle", "quick rm secret"}
      BY <1>8, <2>1, NowAt
    <3>2. QED
      BY <1>1, <1>2, <1>4, <1>5, <3>1, PromptQuiet DEF Enabling
  <2>2. CASE Goes(t, "read secret") /\ MayPrompt(q.meta)
    <3>1. task'[t].pc = "read secret"
      BY <1>8, <2>2, NowAt
    <3>2. tries <= q.meta.failed + uncounted + Slack /\ q.meta.failed < MaxFailed
      BY <2>2 DEF PromptInv, Counted, MayPrompt
    <3>3. tries < MaxFailed + uncounted
      BY <1>3, <1>7, <3>2, MaxFailedIsPositive DEF Metas
    <3>4. QED
      BY <1>1, <1>2, <1>4, <1>5, <3>1, <3>3, PromptQuiet DEF Enabling
  <2>3. \/ Ends(t) \/ Goes(t, "quick rm secret")
        \/ Goes(t, "read secret") /\ MayPrompt(q.meta)
    <3>1. CASE Enabled(q) /\ MayPrompt(q.meta)
      BY <1>9, <3>1 DEF Check
    <3>2. CASE Enabled(q) /\ ~MayPrompt(q.meta)
      BY <1>9, <3>2 DEF Check
    <3>3. CASE ~Enabled(q)
      BY <1>9, <3>3 DEF Check
    <3>4. QED
      BY <3>1, <3>2, <3>3
  <2>4. QED
    BY <2>1, <2>2, <2>3
<1>10. CASE ReadSecret(t)
  <2>1. task'[t].pc \in {"idle", "prompt"}
    BY <1>8, <1>10, NowAt DEF ReadSecret
  <2>2. tries < MaxFailed + uncounted
    BY <1>10 DEF PromptInv, PromptsLeft, ReadSecret
  <2>3. QED
    BY <1>1, <1>2, <1>4, <1>5, <2>1, <2>2, PromptQuiet DEF Enabling
<1>11. QED
  BY <1>9, <1>10

\* A prompt fails, and the bookkeeping is read and written.
LEMMA PromptRecorded ==
  ASSUME TypeOK, PromptInv, NEW t \in Tasks, PromptIsFailed(t) \/ LoadFailed(t) \/ SaveFailed(t)
  PROVE  PromptInv'
<1> USE DEF At, quick, process
<1>1. TaskStep(t)
  BY DEF TaskStep
<1>2. /\ q \in QuickType /\ q.meta \in Metas /\ tries \in Nat /\ uncounted \in Nat
      /\ task \in [Tasks -> TaskType] /\ task[t] \in TaskType /\ task[t].meta \in Metas
  BY TypeParts DEF OthersOK, QuickType, TaskType
<1>3. /\ task[t].pc \in Holding
      /\ PromptIsFailed(t) \/ LoadFailed(t) => uncounted' = uncounted
  BY DEF PromptIsFailed, LoadFailed, SaveFailed, Holding, Taking
<1>4. \A u \in Tasks : u # t => task[u].pc \notin {"read secret", "prompt", "load failed", "save failed"}
  <2>1. \A u \in Tasks : u # t => task[u].pc \notin Holding
    BY <1>3, OneHolder
  <2>2. QED
    BY <2>1 DEF Holding, Taking
<1>5. \A u \in Tasks : u # t => /\ task'[u].pc = task[u].pc /\ task'[u].kind = task[u].kind
                                /\ task'[u].meta = task[u].meta
  BY <1>1, OthersStay
<1>6. {"idle", "load failed", "save failed", "quick rm secret"} \subseteq Pcs
  BY DEF Pcs, Holding, Taking
<1>7. task'[t].pc \in {"idle", "load failed", "save failed", "quick rm secret"}
  <2>1. CASE LoadFailed(t)
    <3>1. task'[t].pc = "save failed"
      BY <1>2, <2>1 DEF LoadFailed, TaskType
    <3>2. QED
      BY <3>1
  <2>2. CASE PromptIsFailed(t) \/ SaveFailed(t)
    <3>1. Ends(t) \/ Goes(t, "load failed") \/ Goes(t, "quick rm secret")
      BY <2>2 DEF PromptIsFailed, SaveFailed
    <3>2. QED
      BY <1>6, <3>1, NowAt
  <2>3. QED
    BY <2>1, <2>2
<1>8. PromptsLeft'
  BY <1>4, <1>5, <1>7 DEF PromptsLeft
<1>9. EntriesByPassphrase'
  BY <1>5, <1>7 DEF PromptInv, EntriesByPassphrase, Enabling
<1>10. CASE PromptIsFailed(t)
  <2>1. Slack = 0
    BY <1>4, <1>10 DEF Slack, Recording, PromptIsFailed
  <2>2. task'[t].pc = "load failed" /\ q' = q /\ tries' = tries + 1
    BY <1>6, <1>10, NowAt DEF PromptIsFailed
  <2>3. Slack' = 1
    BY <2>2 DEF Slack, Recording
  <2>4. Counted'
    <3> SUFFICES ASSUME q.meta.auth = "recent"
                 PROVE  tries + 1 <= q.meta.failed + uncounted + 1
      BY <1>3, <1>10, <2>2, <2>3 DEF Counted
    <3>1. tries <= q.meta.failed + uncounted + Slack
      BY DEF PromptInv, Counted
    <3>2. QED
      BY <1>2, <2>1, <3>1 DEF Metas
  <2>5. Recorded'
    BY <1>4, <1>5, <2>2 DEF Recorded
  <2>6. QED
    BY <1>8, <1>9, <2>4, <2>5 DEF PromptInv
<1>11. CASE LoadFailed(t)
  <2>1. Slack = 1
    BY <1>11 DEF Slack, Recording, LoadFailed
  <2>2. /\ task'[t].pc = "save failed" /\ task'[t].meta = PromptFailed(q.meta)
        /\ q' = q /\ tries' = tries
    BY <1>2, <1>11 DEF LoadFailed, TaskType
  <2>3. Slack' = 1
    BY <2>2 DEF Slack, Recording
  <2>4. Counted'
    BY <1>3, <1>11, <2>1, <2>2, <2>3 DEF PromptInv, Counted
  <2>5. PromptFailed(q.meta).auth = q.meta.auth /\ PromptFailed(q.meta).failed = q.meta.failed + 1
    BY <1>2 DEF PromptFailed, Metas
  <2>6. task'[t].meta.auth = "recent" => tries <= task'[t].meta.failed + uncounted
    <3> SUFFICES ASSUME q.meta.auth = "recent" PROVE tries <= q.meta.failed + 1 + uncounted
      BY <2>2, <2>5
    <3>1. tries <= q.meta.failed + uncounted + Slack
      BY DEF PromptInv, Counted
    <3>2. QED
      BY <1>2, <2>1, <3>1 DEF Metas
  <2>7. Recorded'
    BY <1>3, <1>4, <1>5, <1>11, <2>2, <2>6 DEF Recorded
  <2>8. QED
    BY <1>8, <1>9, <2>4, <2>7 DEF PromptInv
<1>12. CASE SaveFailed(t)
  <2>1. task'[t].pc \in {"idle", "quick rm secret"} /\ tries' = tries
    <3>1. Ends(t) \/ Goes(t, "quick rm secret")
      BY <1>12 DEF SaveFailed
    <3>2. QED
      BY <1>6, <1>12, <3>1, NowAt DEF SaveFailed
  <2>2. Slack' = 0
    BY <1>4, <1>5, <2>1 DEF Slack, Recording
  <2>3. \/ q'.meta = task[t].meta /\ uncounted' = uncounted
        \/ q'.meta = q.meta /\ uncounted' = uncounted + 1
        \/ q'.meta.auth = "none"
    <3>1. MetaSaved(q, task[t].meta).meta = task[t].meta /\ MetaRemoved(q).meta.auth = "none"
      BY <1>2, QuickFields DEF TaskType
    <3>2. \/ q' = MetaSaved(q, task[t].meta) /\ uncounted' = uncounted
          \/ q' \in {q, MetaRemoved(q)} /\ uncounted' = uncounted + 1
      BY <1>12 DEF SaveFailed
    <3>3. QED
      BY <3>1, <3>2
  <2>4. Counted'
    <3> SUFFICES ASSUME q'.meta.auth = "recent" PROVE tries <= q'.meta.failed + uncounted' + 0
      BY <2>1, <2>2 DEF Counted
    <3>1. CASE q'.meta = task[t].meta /\ uncounted' = uncounted
      <4>1. tries <= task[t].meta.failed + uncounted
        BY <1>12, <3>1 DEF PromptInv, Recorded, SaveFailed
      <4>2. QED
        BY <1>2, <3>1, <4>1 DEF Metas
    <3>2. CASE q'.meta = q.meta /\ uncounted' = uncounted + 1
      <4>1. tries <= q.meta.failed + uncounted + Slack
        BY <3>2 DEF PromptInv, Counted
      <4>2. Slack = 1
        BY <1>12 DEF Slack, Recording, SaveFailed
      <4>3. QED
        BY <1>2, <3>2, <4>1, <4>2 DEF Metas
    <3>3. QED
      BY <2>3, <3>1, <3>2
  <2>5. Recorded'
    BY <1>4, <1>5, <2>1 DEF Recorded
  <2>6. QED
    BY <1>8, <1>9, <2>4, <2>5 DEF PromptInv
<1>13. QED
  BY <1>10, <1>11, <1>12

\* A passphrase entry is recorded: what failed since, is forgiven.
LEMMA PromptForgiven ==
  ASSUME TypeOK, PromptInv, NEW t \in Tasks, SaveMeta(t)
  PROVE  PromptInv'
<1> USE DEF At, process
<1>1. TaskStep(t) /\ ~Recording(t)
  BY DEF TaskStep, Recording, SaveMeta
<1>2. /\ tries \in Nat /\ q \in QuickType /\ task \in [Tasks -> TaskType] /\ MaxFailed \in Nat
      /\ MaxFailed > 0 /\ task[t].meta \in Metas /\ \A u \in Tasks : task[u].meta.failed \in Nat
  BY TypeParts, MaxFailedIsPositive DEF OthersOK, TaskType, Metas
<1>3. tries' = tries
  BY DEF SaveMeta
<1>4. \A u \in Tasks : u # t => /\ task'[u].pc = task[u].pc /\ task'[u].kind = task[u].kind
                                /\ task'[u].meta = task[u].meta
  BY <1>1, OthersStay
<1>5. task'[t].pc \in {"idle", "touch"}
  <2>1. Ends(t) \/ Goes(t, "touch")
    BY DEF SaveMeta
  <2>2. {"idle", "touch"} \subseteq Pcs
    BY DEF Pcs
  <2>3. QED
    BY <2>1, <2>2, NowAt
<1>6. CASE q' \in {q, MetaRemoved(q)} /\ uncounted' = uncounted
  <2>1. q'.meta = q.meta \/ q'.meta.auth # "recent"
    <3>1. MetaRemoved(q).meta.auth = "none"
      BY <1>2, QuickFields DEF TaskType
    <3>2. QED
      BY <1>6, <3>1
  <2>2. QED
    BY <1>1, <1>3, <1>5, <1>6, <2>1, PromptQuiet DEF Enabling
<1>7. CASE q' = MetaSaved(q, task[t].meta) /\ uncounted' = tries
  <2>1. PromptsLeft'
    <3>1. tries < MaxFailed + tries
      BY <1>2
    <3>2. QED
      BY <1>3, <1>7, <3>1 DEF PromptsLeft
  <2>2. Counted'
    <3>1. q'.meta.failed \in Nat
      BY <1>2, <1>7, QuickFields DEF TaskType
    <3>2. Slack' \in Nat
      BY DEF Slack
    <3>3. tries <= q'.meta.failed + tries + Slack'
      BY <1>2, <3>1, <3>2, SumsGrow, Zenon
    <3>4. QED
      BY <1>3, <1>7, <3>3 DEF Counted
  <2>3. Recorded'
    <3> SUFFICES ASSUME NEW u \in Tasks, task'[u].pc = "save failed"
                 PROVE  tries <= task'[u].meta.failed + tries
      BY <1>3, <1>7 DEF Recorded
    <3>1. task'[u].meta.failed \in Nat
      BY <1>2, <1>4, <1>5
    <3>2. QED
      BY <1>2, <3>1, SumsGrow, Zenon
  <2>4. EntriesByPassphrase'
    BY <1>4, <1>5 DEF PromptInv, EntriesByPassphrase, Enabling
  <2>5. QED
    BY <2>1, <2>2, <2>3, <2>4 DEF PromptInv
<1>8. QED
  BY <1>6, <1>7 DEF SaveMeta, PromptInv, EntriesByPassphrase

\* Time, the auto-lock loop, and a death between a prompt and its bookkeeping.
LEMMA PromptAside ==
  ASSUME TypeOK, PromptInv,
         \/ DeleteCopy \/ BecomesInactive \/ BackgroundPassesThreshold \/ WeekPasses
         \/ AutoLockDecides \/ AutoLocks \/ Crash \/ UNCHANGED vars
  PROVE  PromptInv'
<1> USE DEF quick, process
<1>1. /\ tries \in Nat /\ uncounted \in Nat /\ q \in QuickType /\ q.meta \in Metas
      /\ task \in [Tasks -> TaskType]
  BY TypeParts DEF OthersOK, QuickType
<1>2. CASE \/ DeleteCopy \/ BecomesInactive \/ BackgroundPassesThreshold
           \/ AutoLockDecides \/ AutoLocks \/ UNCHANGED vars
  <2>1. UNCHANGED <<task, q, tries, uncounted>>
    BY <1>2 DEF DeleteCopy, BecomesInactive, BackgroundPassesThreshold, AutoLockDecides, AutoLocks, vars
  <2>2. Slack' = Slack
    BY <2>1 DEF Slack, Recording
  <2>3. PromptsLeft' /\ Recorded' /\ EntriesByPassphrase'
    BY <2>1 DEF PromptInv, PromptsLeft, Recorded, EntriesByPassphrase, Enabling
  <2>4. Counted'
    BY <2>1, <2>2 DEF PromptInv, Counted
  <2>5. QED
    BY <2>3, <2>4 DEF PromptInv
<1>3. CASE WeekPasses
  <2>1. /\ UNCHANGED <<tries, uncounted>>
        /\ \A u \in Tasks : /\ task'[u].pc = task[u].pc /\ task'[u].kind = task[u].kind
                            /\ task'[u].meta = task[u].meta \/ task'[u].meta = Aged(task[u].meta)
    BY <1>3, TimeStays DEF WeekPasses
  <2>2. \A m \in Metas : Aged(m).auth # "recent" /\ Aged(m).failed = m.failed
    BY DEF Aged, Metas
  <2>3. \A u \in Tasks : task[u].meta \in Metas
    BY <1>1 DEF TaskType
  <2>4. Recorded'
    BY ZenonT(30), <2>1, <2>2, <2>3 DEF PromptInv, Recorded
  <2>5. PromptsLeft' /\ EntriesByPassphrase'
    BY <2>1 DEF PromptInv, PromptsLeft, EntriesByPassphrase, Enabling
  <2>6. Counted'
    <3>1. q'.meta = Aged(q.meta)
      BY <1>1, <1>3 DEF WeekPasses, QuickType
    <3>2. QED
      BY <1>1, <2>2, <3>1 DEF Counted
  <2>7. QED
    BY <2>4, <2>5, <2>6 DEF PromptInv
<1>4. CASE Crash
  <2>1. tries' = tries /\ \A u \in Tasks : task'[u] = Idle
    BY <1>4 DEF Crash
  <2>2. \A u \in Tasks : task'[u].pc = "idle"
    BY <2>1, IdleType
  <2>3. PromptsLeft' /\ Recorded' /\ EntriesByPassphrase'
    BY <2>2 DEF PromptsLeft, Recorded, EntriesByPassphrase, Enabling
  <2>4. Slack' = 0 /\ Slack \in {0, 1} /\ uncounted' = uncounted + Slack
    BY <1>4, <2>2 DEF Slack, Recording, Crash
  <2>5. q' = q \/ q'.meta.auth = "none"
    <3>1. MetaRemoved(q).meta.auth = "none"
      BY <1>1, QuickFields, IdleType DEF TaskType
    <3>2. q' \in {q, MetaRemoved(q)}
      BY <1>4 DEF Crash
    <3>3. QED
      BY <3>1, <3>2
  <2>6. Counted'
    <3> SUFFICES ASSUME q'.meta.auth = "recent" PROVE tries <= q'.meta.failed + uncounted' + Slack'
      BY <2>1 DEF Counted
    <3>1. q' = q
      BY <2>5
    <3>2. tries <= q.meta.failed + uncounted + Slack
      BY <3>1 DEF PromptInv, Counted
    <3>3. QED
      BY <1>1, <2>1, <2>4, <3>1, <3>2 DEF Metas
  <2>7. QED
    BY <2>3, <2>6 DEF PromptInv
<1>5. QED
  BY <1>2, <1>3, <1>4

\* Every step keeps what process the prompts.
LEMMA PromptStep ==
  ASSUME TypeOK, PromptInv, [Next]_vars
  PROVE  PromptInv'
<1>1. ASSUME NEW t \in Tasks, StartCommand(t) \/ WindowEvent(t) \/ TaskStep(t)
      PROVE  PromptInv'
  BY <1>1, PromptElsewhere, PromptOpened, PromptStored, PromptAllowed, PromptRecorded, PromptForgiven DEF TaskStep
<1>2. QED
  BY <1>1, PromptAside DEF Next

\* However commands interleave, quick unlock asks for no prompt once
\* MAX_FAILED_ATTEMPTS of them have failed since the passphrase was entered, but
\* for one more for each whose count was not written, before the process died or
\* because the write failed, and for those that the bookkeeping of that entry,
\* late, forgives (quick_unlock.rs record_failed_biometric_attempt).
THEOREM PromptsAreBounded == Spec => []PromptsBounded
<1>1. Init => TypeOK /\ PromptInv
  <2> SUFFICES ASSUME Init PROVE PromptInv
    BY InitTypes
  <2>1. \A u \in Tasks : task[u].pc = "idle"
    BY IdleType DEF Init
  <2>2. PromptsLeft /\ Recorded /\ EntriesByPassphrase
    BY <2>1 DEF PromptsLeft, Recorded, EntriesByPassphrase, Enabling
  <2>3. Slack = 0 /\ tries = q.meta.failed /\ uncounted = 0 /\ tries \in Nat
    BY <2>1, InitTypes, TypeParts DEF Slack, Recording, Init, OthersOK
  <2>4. Counted
    BY <2>3 DEF Counted
  <2>5. QED
    BY <2>2, <2>4 DEF PromptInv
<1>2. TypeOK /\ PromptInv /\ [Next]_vars => TypeOK' /\ PromptInv'
  BY TypeStep, PromptStep
<1>3. PromptInv => PromptsBounded
  BY DEF PromptInv, PromptsLeft, PromptsBounded, At
<1>4. QED
  BY <1>1, <1>2, <1>3, PTL DEF Spec
-------------------------------------------------------------------------------
(* The three files. *)

InSnapshot(u) == task[u].pc \in {"rm snapshot", "quick rm snapshot"}
InMeta(u)     == task[u].pc \in {"rm meta", "quick rm meta"}
NoneEnabling  == \A v \in Tasks : ~Enabling(v)

\* A forgetting that has met no enabling meets none: one that starts ends its
\* being alone.
AloneStays ==
  \A u \in Tasks : task[u].alone => /\ task[u].kind \in {"forget", "quick"} /\ NoneEnabling
                                    /\ InMeta(u) => q.snapshot = NoKey

ForgottenStays == forgotten => q.snapshot = NoKey /\ NoneEnabling

\* What holds until forgetting and enabling overlap: the snapshot belongs to the
\* secret except while a forgetting is between the two, ...
SnapshotOfSecret == (\A u \in Tasks : ~InSnapshot(u)) => q.snapshot \in {NoKey, q.secret}
SnapshotGone     == \A u \in Tasks : InMeta(u) => q.snapshot = NoKey
\* ... one enabling runs at a time, and none beside a forgetting that has begun, ...
EnablingAlone    == \A u, v \in Tasks : Enabling(u) => /\ Enabling(v) => u = v
                                                       /\ ~InSnapshot(v) /\ ~InMeta(v)
\* ... and the secret it has found or made stays, which a quick unlock that saw
\* quick unlock enabled cannot make anew.
KeyOfSecret  == \A u \in Tasks : task[u].pc \in {"open snapshot", "save snapshot"}
                                   => task[u].key = q.secret /\ q.secret # NoKey
SecretToRead == \A u, v \in Tasks : Enabling(u) /\ task[v].pc = "read secret" => q.secret # NoKey
SecretToMake == \A u \in Tasks : task[u].pc = "make secret" => q.secret = NoKey

Unmixed == /\ SnapshotOfSecret /\ SnapshotGone /\ EnablingAlone
           /\ KeyOfSecret /\ SecretToRead /\ SecretToMake

WholeInv == AloneStays /\ ForgottenStays /\ (~mixed => Unmixed)

\* A step of a task that neither stores nor removes, and none of the files the
\* invariant is about.
LEMMA WholeQuiet ==
  ASSUME TypeOK, WholeInv, NEW t \in Tasks, StartCommand(t) \/ WindowEvent(t) \/ TaskStep(t),
         UNCHANGED <<forgotten, mixed>>, q'.secret = q.secret, q'.snapshot = q.snapshot,
         ~InSnapshot(t), ~InSnapshot(t)', ~InMeta(t)', ~Enabling(t)', task'[t].pc # "read secret",
         task'[t].alone => /\ task'[t].kind \in {"forget", "quick"}
                           /\ NoneEnabling
  PROVE  WholeInv'
<1>1. \A u \in Tasks : u # t => /\ task'[u].pc = task[u].pc /\ task'[u].kind = task[u].kind
                                /\ task'[u].key = task[u].key
                                /\ task'[u].alone => task[u].alone
  BY OthersStay
<1>2. \A u \in Tasks : /\ InSnapshot(u)' <=> InSnapshot(u)
                       /\ InMeta(u)' => InMeta(u) /\ u # t
                       /\ Enabling(u)' => Enabling(u) /\ u # t
  BY <1>1 DEF InSnapshot, InMeta, Enabling
<1>3. NoneEnabling => NoneEnabling'
  BY <1>2 DEF NoneEnabling
<1>4. AloneStays'
  <2> SUFFICES ASSUME NEW u \in Tasks, task'[u].alone
               PROVE  /\ task'[u].kind \in {"forget", "quick"} /\ NoneEnabling'
                      /\ InMeta(u)' => q'.snapshot = NoKey
    BY DEF AloneStays
  <2>1. CASE u = t
    <3>1. /\ task'[t].pc \notin {"rm meta", "quick rm meta"}
          /\ task'[t].kind \in {"forget", "quick"} /\ NoneEnabling'
      BY <1>3, <2>1 DEF InMeta
    <3>2. QED
      BY <2>1, <3>1 DEF InMeta
  <2>2. CASE u # t
    <3>1. task[u].alone /\ task'[u].kind = task[u].kind
      BY <1>1, <2>2
    <3>2. /\ task[u].kind \in {"forget", "quick"} /\ NoneEnabling
          /\ InMeta(u) => q.snapshot = NoKey
      BY <3>1 DEF WholeInv, AloneStays
    <3>3. QED
      BY <1>2, <1>3, <3>1, <3>2
  <2>3. QED
    BY <2>1, <2>2
<1>5. ForgottenStays'
  BY <1>3 DEF WholeInv, ForgottenStays
<1>6. ASSUME Unmixed
      PROVE  Unmixed'
  <2>1. SnapshotOfSecret' /\ SnapshotGone' /\ EnablingAlone'
    BY <1>2, <1>6 DEF Unmixed, SnapshotOfSecret, SnapshotGone, EnablingAlone
  <2>2. KeyOfSecret'
    <3> SUFFICES ASSUME NEW u \in Tasks, task'[u].pc \in {"open snapshot", "save snapshot"}
                 PROVE  task'[u].key = q'.secret /\ q'.secret # NoKey
      BY DEF KeyOfSecret
    <3> Enabling(u)'
      BY DEF Enabling
    <3>1. u # t
      BY <1>2
    <3>2. task[u].pc \in {"open snapshot", "save snapshot"} /\ task'[u].key = task[u].key
      BY <1>1, <3>1
    <3>3. QED
      BY <1>6, <3>2 DEF Unmixed, KeyOfSecret
  <2>3. SecretToRead' /\ SecretToMake'
    <3>1. \A u \in Tasks : task'[u].pc = "read secret" => task[u].pc = "read secret"
      BY <1>1
    <3>2. \A u \in Tasks : task'[u].pc = "make secret" => task[u].pc = "make secret"
      BY <1>1, <1>2 DEF Enabling
    <3>3. SecretToRead'
      BY <1>2, <1>6, <3>1 DEF Unmixed, SecretToRead
    <3>4. SecretToMake'
      BY <1>6, <3>2 DEF Unmixed, SecretToMake
    <3>5. QED
      BY <3>3, <3>4
  <2>4. QED
    BY <2>1, <2>2, <2>3 DEF Unmixed
<1>7. QED
  BY <1>4, <1>5, <1>6 DEF WholeInv

\* Commands that do not touch quick unlock.
LEMMA WholeElsewhere ==
  ASSUME TypeOK, WholeInv, NEW t \in Tasks,
         \/ Blurred(t) \/ Focused(t) \/ TakeVault(t) \/ ClientFails(t)
         \/ ClientUnlocks(t) \/ ClientBootstraps(t) \/ SaveConfig(t) \/ PromptPasses(t)
         \/ PromptIsFailed(t) \/ Work(t) \/ LockVault(t) \/ Touch(t) \/ WriteConfig(t)
         \/ WriteCopy(t) \/ FinishCopy(t) \/ OpenCopy(t)
  PROVE  WholeInv'
<1> USE DEF At, quick
<1>1. TaskStep(t)
  BY DEF TaskStep
<1>2. UNCHANGED <<forgotten, mixed, q>>
  BY DEF Blurred, Focused, TakeVault, ClientFails, ClientUnlocks, ClientBootstraps, SaveConfig,
         PromptPasses, PromptIsFailed, Work, LockVault, Touch, WriteConfig, WriteCopy, FinishCopy,
         OpenCopy
<1>3. ~InSnapshot(t)
  BY DEF InSnapshot, Blurred, Focused, TakeVault, ClientFails, ClientUnlocks, ClientBootstraps,
         SaveConfig, PromptPasses, PromptIsFailed, Work, LockVault, Touch, WriteConfig, WriteCopy,
         FinishCopy, OpenCopy
<1> DEFINE Safe == {"idle", "look", "check", "client", "touch", "save config", "load failed",
                    "load meta", "write copy", "write config", "finish copy", "open copy"}
<1>4. Safe \subseteq Pcs
  BY DEF Pcs, Holding, Taking
<1>5. \E pc \in Safe : Goes(t, pc) \/ (Ends(t) /\ pc = "idle")
  <2>1. CASE Blurred(t) \/ Focused(t)
    BY <2>1 DEF Blurred, Focused
  <2>2. CASE TakeVault(t)
    BY <2>2 DEF TakeVault
  <2>3. CASE ClientFails(t) \/ ClientUnlocks(t) \/ ClientBootstraps(t) \/ SaveConfig(t)
    BY <2>3 DEF ClientFails, ClientUnlocks, ClientBootstraps, SaveConfig
  <2>4. CASE PromptPasses(t) \/ PromptIsFailed(t) \/ Work(t) \/ LockVault(t) \/ WriteConfig(t)
    BY <2>4 DEF PromptPasses, PromptIsFailed, Work, LockVault, WriteConfig
  <2>5. CASE Touch(t)
    BY <2>5 DEF Touch, AfterTouch
  <2>6. CASE WriteCopy(t) \/ FinishCopy(t) \/ OpenCopy(t)
    BY <2>6 DEF WriteCopy, FinishCopy, OpenCopy
  <2>7. QED
    BY <2>1, <2>2, <2>3, <2>4, <2>5, <2>6
<1>6. /\ task'[t].pc \in Safe
      /\ task'[t].alone = FALSE \/ (task'[t].alone = task[t].alone /\ task'[t].kind = task[t].kind)
  BY <1>4, <1>5, NowAt
<1>7. ~InSnapshot(t)' /\ ~InMeta(t)' /\ ~Enabling(t)' /\ task'[t].pc # "read secret"
  BY <1>6 DEF InSnapshot, InMeta, Enabling
<1>8. task'[t].alone => task'[t].kind \in {"forget", "quick"} /\ NoneEnabling
  BY <1>6 DEF WholeInv, AloneStays
<1>9. QED
  BY <1>1, <1>2, <1>3, <1>7, <1>8, WholeQuiet

\* Commands and window events begin; only a forgetting is alone from here on.
LEMMA WholeBegins ==
  ASSUME TypeOK, WholeInv, NEW t \in Tasks, StartCommand(t) \/ WindowEvent(t) \/ Look(t)
  PROVE  WholeInv'
<1> USE DEF At, quick
<1>1. StartCommand(t) \/ WindowEvent(t) \/ TaskStep(t)
  BY DEF TaskStep
<1>2. UNCHANGED <<forgotten, mixed, q>> /\ task[t].pc \in {"idle", "look"}
      /\ task \in [Tasks -> TaskType]
  BY TypeParts DEF StartCommand, WindowEvent, Begin, Look
<1>3. /\ task'[t].pc \in {"idle", "rm secret", "wait", "blurred", "focused"}
      /\ task'[t].alone => task'[t].kind \in {"forget", "quick"} /\ NoneEnabling
  <2>1. CASE StartCommand(t) \/ WindowEvent(t)
    <3>1. PICK kind \in Kinds, pc \in {"rm secret", "wait", "blurred", "focused"} : Begin(t, kind, pc)
      BY <2>1 DEF StartCommand, WindowEvent, StartsAt, Kinds
    <3> DEFINE alone == kind \in {"forget", "quick"} /\ ~\E u \in Tasks : Enabling(u)
               c == [Idle EXCEPT !.pc = pc, !.kind = kind, !.alone = alone]
    <3>2. task'[t] = c
      BY <1>2, <3>1 DEF Begin
    <3> HIDE DEF alone
    <3>3. c.pc = pc /\ c.kind = kind /\ c.alone = alone
      BY DEF Idle
    <3> HIDE DEF c
    <3>4. alone => kind \in {"forget", "quick"} /\ NoneEnabling
      BY DEF alone, NoneEnabling
    <3>5. QED
      BY <3>1, <3>2, <3>3, <3>4
  <2>2. CASE Look(t)
    <3>1. task'[t].pc \in {"idle", "wait"} /\ task'[t].alone = FALSE
      BY <1>2, <2>2 DEF Look, Idle
    <3>2. QED
      BY <3>1
  <2>3. QED
    BY <2>1, <2>2
<1>4. ~InSnapshot(t) /\ ~InSnapshot(t)' /\ ~InMeta(t)' /\ ~Enabling(t)' /\ task'[t].pc # "read secret"
  BY <1>2, <1>3 DEF InSnapshot, InMeta, Enabling
<1>5. QED
  BY <1>1, <1>2, <1>3, <1>4, WholeQuiet

\* Bookkeeping, which is a file of its own.
LEMMA WholeRecords ==
  ASSUME TypeOK, WholeInv, NEW t \in Tasks,
         \/ LoadFailed(t) \/ SaveFailed(t) \/ LoadMeta(t) \/ SaveMeta(t)
         \/ Check(t) /\ ~Goes(t, "read secret")
         \/ OpenSnapshot(t) /\ Ends(t)
  PROVE  WholeInv'
<1> USE DEF At, quick
<1>1. TaskStep(t)
  BY DEF TaskStep
<1>2. /\ q \in QuickType /\ task \in [Tasks -> TaskType] /\ task[t] \in TaskType
      /\ task[t].meta \in Metas /\ task[t].key \in Nat
  BY TypeParts DEF OthersOK, TaskType
<1>3. UNCHANGED <<forgotten, mixed>>
  BY DEF LoadFailed, SaveFailed, LoadMeta, SaveMeta, Check, OpenSnapshot
<1>4. q'.secret = q.secret /\ q'.snapshot = q.snapshot
  <2>1. q' = q \/ q' = MetaSaved(q, task[t].meta) \/ q' = MetaRemoved(q)
    <3>1. CASE LoadFailed(t) \/ LoadMeta(t) \/ Check(t) \/ OpenSnapshot(t)
      BY <3>1 DEF LoadFailed, LoadMeta, Check, OpenSnapshot
    <3>2. CASE SaveFailed(t)
      BY <3>2 DEF SaveFailed
    <3>3. CASE SaveMeta(t)
      BY <3>3 DEF SaveMeta
    <3>4. QED
      BY <3>1, <3>2, <3>3
  <2>2. /\ MetaSaved(q, task[t].meta).secret = q.secret /\ MetaSaved(q, task[t].meta).snapshot = q.snapshot
        /\ MetaRemoved(q).secret = q.secret /\ MetaRemoved(q).snapshot = q.snapshot
    BY <1>2, QuickFields, Zenon
  <2>3. QED
    BY <2>1, <2>2
<1>5. ~InSnapshot(t)
  BY DEF InSnapshot, LoadFailed, SaveFailed, LoadMeta, SaveMeta, Check, OpenSnapshot
<1>6. /\ task'[t].pc \in {"idle", "save failed", "save meta", "quick rm secret", "touch"}
      /\ task'[t].alone = FALSE \/ (task'[t].alone = task[t].alone /\ task'[t].kind = task[t].kind)
  <2>1. CASE LoadFailed(t) \/ LoadMeta(t)
    <3>1. ASSUME NEW pc, NEW m, task' = [task EXCEPT ![t].pc = pc, ![t].meta = m]
          PROVE  /\ task'[t].pc = pc /\ task'[t].alone = task[t].alone
                 /\ task'[t].kind = task[t].kind
      BY <1>2, <3>1 DEF TaskType
    <3>2. CASE LoadFailed(t)
      BY <3>1, <3>2 DEF LoadFailed
    <3>3. CASE LoadMeta(t)
      BY <3>1, <3>3 DEF LoadMeta
    <3>4. QED
      BY <2>1, <3>2, <3>3
  <2>2. CASE ~(LoadFailed(t) \/ LoadMeta(t))
    <3>1. {"idle", "quick rm secret", "touch"} \subseteq Pcs
      BY DEF Pcs, Holding, Taking
    <3>2. Ends(t) \/ Goes(t, "quick rm secret") \/ Goes(t, "touch")
      <4>1. CASE SaveFailed(t) \/ SaveMeta(t) \/ OpenSnapshot(t)
        BY <2>2, <4>1 DEF SaveFailed, SaveMeta, OpenSnapshot, LoadMeta, LoadFailed, Check
      <4>2. CASE Check(t) /\ ~Goes(t, "read secret")
        <5>1. CASE Enabled(q) /\ MayPrompt(q.meta)
          BY <4>2, <5>1 DEF Check
        <5>2. CASE Enabled(q) /\ ~MayPrompt(q.meta)
          BY <4>2, <5>2 DEF Check
        <5>3. CASE ~Enabled(q)
          BY <4>2, <5>3 DEF Check
        <5>4. QED
          BY <5>1, <5>2, <5>3
      <4>3. QED
        BY <2>2, <4>1, <4>2
    <3>3. QED
      BY <3>1, <3>2, NowAt
  <2>3. QED
    BY <2>1, <2>2
<1>7. ~InSnapshot(t)' /\ ~InMeta(t)' /\ ~Enabling(t)' /\ task'[t].pc # "read secret"
  BY <1>6 DEF InSnapshot, InMeta, Enabling
<1>8. task'[t].alone => task'[t].kind \in {"forget", "quick"} /\ NoneEnabling
  BY <1>6 DEF WholeInv, AloneStays
<1>9. QED
  BY <1>1, <1>3, <1>4, <1>5, <1>7, <1>8, WholeQuiet

\* A quick unlock goes on to read the secret, which is there, ...
LEMMA WholeChecks ==
  ASSUME TypeOK, WholeInv, NEW t \in Tasks, Check(t), Goes(t, "read secret")
  PROVE  WholeInv'
<1> USE DEF At, quick
<1>1. TaskStep(t)
  BY DEF TaskStep
<1>2. UNCHANGED <<forgotten, mixed, q>> /\ task[t].pc = "check"
  BY DEF Check
<1>3. "read secret" \in Pcs /\ "idle" \in Pcs
  BY DEF Pcs, Holding, Taking
<1>4. /\ task'[t].pc = "read secret"
      /\ task'[t].alone = task[t].alone /\ task'[t].kind = task[t].kind
  BY <1>3, NowAt
<1>5. Enabled(q)
  <2>1. CASE ~Enabled(q)
    BY <1>4, <2>1, NowAt DEF Check
  <2>2. QED
    BY <2>1
<1>6. \A u \in Tasks : u # t => /\ task'[u].pc = task[u].pc /\ task'[u].kind = task[u].kind
                                /\ task'[u].key = task[u].key
                                /\ task'[u].alone => task[u].alone
  BY <1>1, OthersStay
<1>7. \A u \in Tasks : /\ InSnapshot(u)' <=> InSnapshot(u)
                       /\ InMeta(u)' <=> InMeta(u)
                       /\ Enabling(u)' <=> Enabling(u)
                       /\ Enabling(u) => u # t
  BY <1>2, <1>4, <1>6 DEF InSnapshot, InMeta, Enabling
<1>8. NoneEnabling' = NoneEnabling
  BY <1>7 DEF NoneEnabling
<1>9. AloneStays'
  <2> SUFFICES ASSUME NEW u \in Tasks, task'[u].alone
               PROVE  /\ task'[u].kind \in {"forget", "quick"} /\ NoneEnabling'
                      /\ InMeta(u)' => q'.snapshot = NoKey
    BY DEF AloneStays
  <2>1. task[u].alone /\ task'[u].kind = task[u].kind
    BY <1>4, <1>6
  <2>2. QED
    BY <1>2, <1>7, <1>8, <2>1 DEF WholeInv, AloneStays
<1>10. ForgottenStays'
  BY <1>2, <1>8 DEF WholeInv, ForgottenStays
<1>11. ASSUME Unmixed
       PROVE  Unmixed'
  <2>1. SnapshotOfSecret' /\ SnapshotGone' /\ EnablingAlone'
    BY <1>2, <1>7, <1>11 DEF Unmixed, SnapshotOfSecret, SnapshotGone, EnablingAlone
  <2>2. KeyOfSecret'
    <3> SUFFICES ASSUME NEW u \in Tasks, task'[u].pc \in {"open snapshot", "save snapshot"}
                 PROVE  task'[u].key = q.secret /\ q.secret # NoKey
      BY <1>2 DEF KeyOfSecret
    <3>1. task[u].pc \in {"open snapshot", "save snapshot"} /\ task'[u].key = task[u].key
      BY <1>4, <1>6
    <3>2. QED
      BY <1>11, <3>1 DEF Unmixed, KeyOfSecret
  <2>3. SecretToRead'
    BY <1>2, <1>5 DEF SecretToRead, Enabled
  <2>4. SecretToMake'
    <3>1. \A u \in Tasks : task'[u].pc = "make secret" => task[u].pc = "make secret"
      BY <1>4, <1>6
    <3>2. QED
      BY <1>2, <1>11, <3>1 DEF Unmixed, SecretToMake
  <2>5. QED
    BY <2>1, <2>2, <2>3, <2>4 DEF Unmixed
<1>12. QED
  BY <1>2, <1>9, <1>10, <1>11 DEF WholeInv

\* The parts about forgetting, for a step that starts no enabling and stores
\* no snapshot.
LEMMA AloneOn ==
  ASSUME TypeOK, WholeInv, NEW t \in Tasks, TaskStep(t),
         forgotten' => forgotten, q'.snapshot = q.snapshot \/ q'.snapshot = NoKey,
         InMeta(t)' => q'.snapshot = NoKey, Enabling(t)' => Enabling(t),
         task'[t].alone => task[t].alone /\ task'[t].kind = task[t].kind
  PROVE  AloneStays' /\ ForgottenStays'
<1>1. \A u \in Tasks : u # t => /\ task'[u].pc = task[u].pc /\ task'[u].kind = task[u].kind
                                /\ task'[u].alone => task[u].alone
  BY OthersStay
<1>2. \A u \in Tasks : /\ Enabling(u)' => Enabling(u)
                       /\ u # t => (InMeta(u)' <=> InMeta(u))
  BY <1>1 DEF Enabling, InMeta
<1>3. NoneEnabling => NoneEnabling'
  BY <1>2 DEF NoneEnabling
<1>4. AloneStays'
  <2> SUFFICES ASSUME NEW u \in Tasks, task'[u].alone
               PROVE  /\ task'[u].kind \in {"forget", "quick"} /\ NoneEnabling'
                      /\ InMeta(u)' => q'.snapshot = NoKey
    BY DEF AloneStays
  <2>1. task[u].alone /\ task'[u].kind = task[u].kind
    BY <1>1
  <2>2. /\ task[u].kind \in {"forget", "quick"} /\ NoneEnabling
        /\ InMeta(u) => q.snapshot = NoKey
    BY <2>1 DEF WholeInv, AloneStays
  <2>3. InMeta(u)' => q'.snapshot = NoKey
    <3>1. CASE u = t
      BY <3>1
    <3>2. CASE u # t
      BY <1>2, <2>2, <3>2
    <3>3. QED
      BY <3>1, <3>2
  <2>4. QED
    BY <1>3, <2>1, <2>2, <2>3
<1>5. ForgottenStays'
  BY <1>3 DEF WholeInv, ForgottenStays
<1>6. QED
  BY <1>4, <1>5

\* ... and makes the secret anew only if it was gone and no enabling is on its way.
LEMMA WholeReads ==
  ASSUME TypeOK, WholeInv, NEW t \in Tasks, ReadSecret(t)
  PROVE  WholeInv'
<1> USE DEF At
<1>1. TaskStep(t)
  BY DEF TaskStep
<1>2. q \in QuickType /\ task[t].pc = "read secret" /\ UNCHANGED <<forgotten, mixed>>
      /\ q' = DeviceSecret(q)
  BY TypeParts DEF OthersOK, ReadSecret
<1>3. q'.snapshot = q.snapshot /\ (q.secret # NoKey => q' = q)
  <2>1. \A k \in Nat, m \in Metas : DeviceSecret(q).snapshot = q.snapshot
    BY <1>2, QuickFields
  <2>2. q.secret \in Nat /\ q.meta \in Metas
    BY <1>2 DEF QuickType
  <2>3. QED
    BY <1>2, <2>1, <2>2 DEF DeviceSecret, HasSecret
<1>4. /\ task'[t].pc \in {"prompt", "idle"}
      /\ task'[t].alone => task[t].alone /\ task'[t].kind = task[t].kind
  <2>1. Goes(t, "prompt") \/ Ends(t)
    BY DEF ReadSecret
  <2>2. "prompt" \in Pcs
    BY DEF Pcs, Holding, Taking
  <2>3. QED
    BY <2>1, <2>2, NowAt
<1>5. \A u \in Tasks : u # t => task'[u].pc = task[u].pc /\ task'[u].key = task[u].key
  BY <1>1, OthersStay
<1>6. \A u \in Tasks : /\ InSnapshot(u)' <=> InSnapshot(u)
                       /\ InMeta(u)' <=> (InMeta(u) /\ u # t)
                       /\ Enabling(u)' <=> (Enabling(u) /\ u # t)
  BY <1>2, <1>4, <1>5 DEF InSnapshot, InMeta, Enabling
<1>7. AloneStays' /\ ForgottenStays'
  BY <1>1, <1>2, <1>3, <1>4, <1>6, AloneOn
<1>8. ASSUME Unmixed
      PROVE  Unmixed'
  <2>1. \A u \in Tasks : Enabling(u) => q.secret # NoKey
    BY <1>2, <1>8 DEF Unmixed, SecretToRead
  <2>2. SnapshotOfSecret'
    <3> SUFFICES ASSUME \A u \in Tasks : ~InSnapshot(u)
                 PROVE  q'.snapshot \in {NoKey, q'.secret}
      BY <1>6 DEF SnapshotOfSecret
    <3>1. q.snapshot \in {NoKey, q.secret}
      BY <1>8 DEF Unmixed, SnapshotOfSecret
    <3>2. QED
      BY <1>3, <3>1
  <2>3. SnapshotGone' /\ EnablingAlone'
    BY <1>3, <1>6, <1>8 DEF Unmixed, SnapshotGone, EnablingAlone
  <2>4. KeyOfSecret'
    <3> SUFFICES ASSUME NEW u \in Tasks, task'[u].pc \in {"open snapshot", "save snapshot"}
                 PROVE  task'[u].key = q'.secret /\ q'.secret # NoKey
      BY DEF KeyOfSecret
    <3>1. task[u].pc \in {"open snapshot", "save snapshot"} /\ task'[u].key = task[u].key
      BY <1>4, <1>5
    <3>2. QED
      BY <1>3, <1>8, <3>1 DEF Unmixed, KeyOfSecret
  <2>5. SecretToRead'
    BY <1>3, <1>6, <2>1 DEF SecretToRead
  <2>6. SecretToMake'
    <3> SUFFICES ASSUME NEW u \in Tasks, task'[u].pc = "make secret"
                 PROVE  FALSE
      BY DEF SecretToMake
    <3>1. task[u].pc = "make secret"
      BY <1>4, <1>5
    <3>2. q.secret = NoKey
      BY <1>8, <3>1 DEF Unmixed, SecretToMake
    <3>3. QED
      BY <2>1, <3>1, <3>2 DEF Enabling
  <2>7. QED
    BY <2>2, <2>3, <2>4, <2>5, <2>6 DEF Unmixed
<1>9. QED
  BY <1>2, <1>7, <1>8 DEF WholeInv

\* An enabling begins where there is no other and no forgetting, or is marked.
LEMMA WholeEnables ==
  ASSUME TypeOK, WholeInv, NEW t \in Tasks, UseVault(t)
  PROVE  WholeInv'
<1> USE DEF At, quick
<1>1. TaskStep(t)
  BY DEF TaskStep
<1>2. task \in [Tasks -> TaskType] /\ task[t].pc = "wait" /\ holder = Nobody /\ UNCHANGED q
  BY TypeParts DEF UseVault
<1>3. CASE (Ends(t) \/ Goes(t, "work")) /\ UNCHANGED <<forgotten, mixed>>
  <2>1. "work" \in Pcs
    BY DEF Pcs, Holding
  <2>2. /\ task'[t].pc \in {"idle", "work"}
        /\ task'[t].alone = FALSE \/ (task'[t].alone = task[t].alone /\ task'[t].kind = task[t].kind)
    BY <1>3, <2>1, NowAt
  <2>3. ~InSnapshot(t) /\ ~InSnapshot(t)' /\ ~InMeta(t)' /\ ~Enabling(t)' /\ task'[t].pc # "read secret"
    BY <1>2, <2>2 DEF InSnapshot, InMeta, Enabling
  <2>4. task'[t].alone => task'[t].kind \in {"forget", "quick"} /\ NoneEnabling
    BY <2>2 DEF WholeInv, AloneStays
  <2>5. QED
    BY <1>1, <1>2, <1>3, <2>3, <2>4, WholeQuiet
<1>4. CASE /\ task[t].kind = "enable" /\ forgotten' = FALSE
           /\ mixed' = (mixed \/ \E u \in Tasks : Forgetting(u) \/ Enabling(u))
           /\ task' = [u \in Tasks |-> IF u = t THEN [task[t] EXCEPT !.pc = "find secret"]
                                       ELSE [task[u] EXCEPT !.alone = FALSE]]
  <2>1. task[t].alone => FALSE
    BY <1>4 DEF WholeInv, AloneStays
  <2>2. task'[t].pc = "find secret" /\ task'[t].alone = task[t].alone
    BY <1>2, <1>4 DEF TaskType
  <2>3. \A u \in Tasks : u # t => task'[u].pc = task[u].pc /\ task'[u].alone = FALSE
    BY <1>2, <1>4 DEF TaskType
  <2>4. AloneStays'
    BY <2>1, <2>2, <2>3 DEF AloneStays
  <2>5. ForgottenStays'
    BY <1>4 DEF ForgottenStays
  <2>6. ASSUME ~mixed'
        PROVE  Unmixed'
    <3>1. Unmixed /\ \A u \in Tasks : ~Forgetting(u) /\ ~Enabling(u)
      BY <1>4, <2>6 DEF WholeInv
    <3>2. \A u \in Tasks : task[u].pc \notin {"rm snapshot", "quick rm snapshot", "rm meta", "quick rm meta"}
      BY <3>1 DEF Forgetting
    <3>3. \A u \in Tasks : ~InSnapshot(u) /\ ~InSnapshot(u)' /\ ~InMeta(u)' /\ (Enabling(u)' => u = t)
      BY <2>2, <2>3, <3>1, <3>2 DEF InSnapshot, InMeta, Enabling
    <3>4. SnapshotOfSecret' /\ SnapshotGone' /\ EnablingAlone'
      BY <1>2, <3>1, <3>3 DEF Unmixed, SnapshotOfSecret, SnapshotGone, EnablingAlone
    <3>5. \A u \in Tasks : task[u].pc \notin {"open snapshot", "save snapshot", "make secret"}
      BY <3>1 DEF Enabling
    <3>6. KeyOfSecret' /\ SecretToMake'
      BY <2>2, <2>3, <3>5 DEF KeyOfSecret, SecretToMake
    <3>7. \A u \in Tasks : task[u].pc # "read secret"
      BY <1>2, TypeParts DEF SlotKept, Holding, Taking
    <3>8. SecretToRead'
      BY <2>2, <2>3, <3>7 DEF SecretToRead
    <3>9. QED
      BY <3>4, <3>6, <3>8 DEF Unmixed
  <2>7. QED
    BY <2>4, <2>5, <2>6 DEF WholeInv
<1>5. QED
  BY <1>3, <1>4 DEF UseVault

\* An enabling finds the secret or makes it, and opens the snapshot.
LEMMA WholeFinds ==
  ASSUME TypeOK, WholeInv, NEW t \in Tasks,
         FindSecret(t) \/ MakeSecret(t) \/ (OpenSnapshot(t) /\ Goes(t, "save snapshot"))
  PROVE  WholeInv'
<1> USE DEF At, quick
<1>1. TaskStep(t)
  BY DEF TaskStep
<1>2. /\ q \in QuickType /\ task \in [Tasks -> TaskType] /\ task[t] \in TaskType
      /\ UNCHANGED <<forgotten, mixed>>
      /\ task[t].pc \in {"find secret", "make secret", "open snapshot"}
  BY TypeParts DEF OthersOK, FindSecret, MakeSecret, OpenSnapshot
<1>3. q'.snapshot = q.snapshot
  <2>1. \A k \in Nat, m \in Metas : SecretMade(q).snapshot = q.snapshot
    BY <1>2, QuickFields
  <2>2. q.secret \in Nat /\ q.meta \in Metas
    BY <1>2 DEF QuickType
  <2>3. QED
    BY <2>1, <2>2 DEF FindSecret, MakeSecret, OpenSnapshot
<1>4. ASSUME NEW pc, NEW key, task' = [task EXCEPT ![t].pc = pc, ![t].key = key]
      PROVE  /\ task'[t].pc = pc /\ task'[t].key = key
             /\ task'[t].alone = task[t].alone /\ task'[t].kind = task[t].kind
  BY <1>2, <1>4 DEF TaskType
<1>5. "save snapshot" \in Pcs
  BY DEF Pcs
<1>6. /\ task'[t].pc \in {"make secret", "open snapshot", "save snapshot"}
      /\ task'[t].alone = task[t].alone /\ task'[t].kind = task[t].kind
  <2>1. CASE FindSecret(t)
    <3>1. \E pc \in {"make secret", "open snapshot"} :
            task' = [task EXCEPT ![t].pc = pc, ![t].key = q.secret]
      BY <2>1 DEF FindSecret
    <3>2. QED
      BY <1>4, <3>1
  <2>2. CASE MakeSecret(t)
    BY <1>4, <2>2 DEF MakeSecret
  <2>3. CASE Goes(t, "save snapshot")
    BY <1>5, <2>3, NowAt
  <2>4. QED
    BY <2>1, <2>2, <2>3
<1>7. \A u \in Tasks : u # t => task'[u].pc = task[u].pc /\ task'[u].key = task[u].key
  BY <1>1, OthersStay
<1>8. \A u \in Tasks : /\ InSnapshot(u)' <=> InSnapshot(u)
                       /\ InMeta(u)' <=> InMeta(u)
                       /\ Enabling(u)' <=> Enabling(u)
  BY <1>2, <1>6, <1>7 DEF InSnapshot, InMeta, Enabling
<1>9. Enabling(t) /\ ~InMeta(t)
  BY <1>2 DEF Enabling, InMeta
<1>10. AloneStays' /\ ForgottenStays'
  BY <1>1, <1>2, <1>3, <1>6, <1>8, <1>9, AloneOn
<1>11. ASSUME Unmixed
       PROVE  Unmixed'
  <2>1. SnapshotGone' /\ EnablingAlone'
    BY <1>3, <1>8, <1>11 DEF Unmixed, SnapshotGone, EnablingAlone
  <2>2. \A u \in Tasks : u # t => task'[u].pc \notin {"make secret", "open snapshot", "save snapshot"}
    <3>1. \A u \in Tasks : u # t => ~Enabling(u)
      BY <1>9, <1>11 DEF Unmixed, EnablingAlone
    <3>2. QED
      BY <1>7, <3>1 DEF Enabling
  <2>3. q.snapshot \in {NoKey, q.secret}
    <3>1. \A u \in Tasks : ~InSnapshot(u)
      BY <1>9, <1>11 DEF Unmixed, EnablingAlone
    <3>2. QED
      BY <1>11, <3>1 DEF Unmixed, SnapshotOfSecret
  <2>4. CASE FindSecret(t) /\ q.secret = NoKey
    <3>1. task' = [task EXCEPT ![t].pc = "make secret", ![t].key = q.secret] /\ q' = q
      BY <2>4 DEF FindSecret, HasSecret
    <3>2. task'[t].pc = "make secret"
      BY <1>4, <3>1
    <3>3. SecretToMake' /\ KeyOfSecret' /\ SnapshotOfSecret'
      BY <2>2, <2>3, <2>4, <3>1, <3>2 DEF SecretToMake, KeyOfSecret, SnapshotOfSecret
    <3>4. \A v \in Tasks : task'[v].pc = "read secret" => task[v].pc = "read secret"
      BY <1>7, <3>2
    <3>5. SecretToRead'
      BY <1>8, <1>11, <3>1, <3>4 DEF Unmixed, SecretToRead
    <3>6. QED
      BY <2>1, <3>3, <3>5 DEF Unmixed
  <2>5. CASE ~(FindSecret(t) /\ q.secret = NoKey)
    <3>1. /\ task'[t].pc \in {"open snapshot", "save snapshot"}
          /\ task'[t].key = q'.secret /\ q'.secret # NoKey
          /\ q'.secret = q.secret \/ q.secret = NoKey
      <4>1. CASE FindSecret(t)
        <5>1. task' = [task EXCEPT ![t].pc = "open snapshot", ![t].key = q.secret] /\ q' = q
          BY <2>5, <4>1 DEF FindSecret, HasSecret
        <5>2. QED
          BY <1>4, <2>5, <4>1, <5>1
      <4>2. CASE MakeSecret(t)
        <5>1. q' = SecretMade(q)
              /\ task' = [task EXCEPT ![t].pc = "open snapshot", ![t].key = q'.secret]
          BY <4>2 DEF MakeSecret
        <5>2. q'.secret # NoKey
          <6>1. q.made \in Nat /\ q.secret \in Nat /\ q.meta \in Metas
            BY <1>2 DEF QuickType
          <6>2. SecretMade(q).secret = q.made + 1
            BY <1>2, <6>1, QuickFields, Zenon
          <6>3. q.made + 1 # 0
            BY <6>1, NextIsPositive, Zenon
          <6>4. QED
            BY <5>1, <6>2, <6>3, Zenon DEF NoKey
        <5>3. q.secret = NoKey
          BY <1>11, <4>2 DEF Unmixed, SecretToMake, MakeSecret
        <5>4. QED
          BY <1>4, <5>1, <5>2, <5>3
      <4>3. CASE OpenSnapshot(t) /\ Goes(t, "save snapshot")
        <5>1. task'[t].pc = "save snapshot" /\ task'[t].key = task[t].key /\ q' = q
          BY <1>5, <4>3, NowAt DEF OpenSnapshot
        <5>2. task[t].key = q.secret /\ q.secret # NoKey
          BY <1>11, <4>3 DEF Unmixed, KeyOfSecret, OpenSnapshot
        <5>3. QED
          BY <5>1, <5>2
      <4>4. QED
        BY <4>1, <4>2, <4>3
    <3>2. SecretToMake' /\ KeyOfSecret'
      BY <2>2, <3>1 DEF SecretToMake, KeyOfSecret
    <3>3. SecretToRead'
      BY <3>1 DEF SecretToRead
    <3>4. SnapshotOfSecret'
      BY <1>3, <2>3, <3>1 DEF SnapshotOfSecret
    <3>5. QED
      BY <2>1, <3>2, <3>3, <3>4 DEF Unmixed
  <2>6. QED
    BY <2>4, <2>5
<1>12. QED
  BY <1>2, <1>10, <1>11 DEF WholeInv

\* It saves the snapshot under the secret, which nobody has taken away.
LEMMA WholeSaves ==
  ASSUME TypeOK, WholeInv, NEW t \in Tasks, SaveSnapshot(t)
  PROVE  WholeInv'
<1> USE DEF At, quick
<1>1. TaskStep(t)
  BY DEF TaskStep
<1>2. /\ q \in QuickType /\ task \in [Tasks -> TaskType] /\ task[t].key \in Nat /\ q.meta \in Metas
      /\ UNCHANGED <<forgotten, mixed>> /\ task[t].pc = "save snapshot"
      /\ q' = SnapshotSaved(q, task[t].key)
  BY TypeParts DEF OthersOK, TaskType, QuickType, SaveSnapshot
<1>3. q'.snapshot = task[t].key /\ q'.secret = q.secret
  BY <1>2, QuickFields, Zenon
<1>4. task'[t].pc = "load meta" /\ task'[t].alone = task[t].alone
  <2>1. "load meta" \in Pcs
    BY DEF Pcs
  <2>2. QED
    BY <2>1, NowAt DEF SaveSnapshot
<1>5. \A u \in Tasks : u # t => /\ task'[u].pc = task[u].pc /\ task'[u].key = task[u].key
                                /\ task'[u].alone => task[u].alone
  BY <1>1, OthersStay
<1>6. ~NoneEnabling
  BY <1>2 DEF NoneEnabling, Enabling
<1>7. \A u \in Tasks : ~task[u].alone
  BY <1>6 DEF WholeInv, AloneStays
<1>8. AloneStays'
  BY <1>4, <1>5, <1>7 DEF AloneStays
<1>9. ForgottenStays'
  BY <1>2, <1>6 DEF WholeInv, ForgottenStays
<1>10. ASSUME Unmixed
       PROVE  Unmixed'
  <2>1. \A u \in Tasks : ~InSnapshot(u) /\ ~InMeta(u) /\ (Enabling(u) => u = t)
    <3>1. Enabling(t)
      BY <1>2 DEF Enabling
    <3>2. QED
      BY <1>10, <3>1 DEF Unmixed, EnablingAlone
  <2>2. \A u \in Tasks : ~InSnapshot(u)' /\ ~InMeta(u)' /\ ~Enabling(u)'
    BY <1>4, <1>5, <2>1 DEF InSnapshot, InMeta, Enabling
  <2>3. q'.snapshot = q'.secret
    BY <1>2, <1>3, <1>10 DEF Unmixed, KeyOfSecret
  <2>4. SnapshotOfSecret' /\ SnapshotGone' /\ EnablingAlone' /\ SecretToRead'
    BY <2>2, <2>3 DEF SnapshotOfSecret, SnapshotGone, EnablingAlone, SecretToRead
  <2>5. KeyOfSecret' /\ SecretToMake'
    BY <2>2 DEF KeyOfSecret, SecretToMake, Enabling
  <2>6. QED
    BY <2>4, <2>5 DEF Unmixed
<1>11. QED
  BY <1>2, <1>8, <1>9, <1>10 DEF WholeInv

\* Where nothing enables, the rest follows from what the snapshot is.
LEMMA UnmixedIdle ==
  ASSUME NoneEnabling', SnapshotOfSecret', SnapshotGone'
  PROVE  Unmixed'
<1>1. \A u \in Tasks : task'[u].pc \notin {"find secret", "make secret", "open snapshot", "save snapshot"}
  BY DEF NoneEnabling, Enabling
<1>2. EnablingAlone' /\ SecretToRead'
  BY DEF NoneEnabling, EnablingAlone, SecretToRead
<1>3. KeyOfSecret' /\ SecretToMake'
  BY <1>1 DEF KeyOfSecret, SecretToMake
<1>4. QED
  BY <1>2, <1>3 DEF Unmixed

\* Forgetting, file after file.
LEMMA WholeRemoves ==
  ASSUME TypeOK, WholeInv, NEW t \in Tasks, RemoveSecret(t) \/ RemoveSnapshot(t) \/ RemoveMeta(t)
  PROVE  WholeInv'
<1> USE DEF At, quick
<1>1. TaskStep(t)
  BY DEF TaskStep
<1>2. /\ q \in QuickType /\ task \in [Tasks -> TaskType] /\ q.meta \in Metas /\ q.secret \in Nat
      /\ ~Enabling(t)
  BY TypeParts DEF OthersOK, QuickType, Enabling, RemoveSecret, RemoveSnapshot, RemoveMeta
<1>3. /\ SecretRemoved(q).snapshot = q.snapshot /\ SnapshotRemoved(q).snapshot = NoKey
      /\ MetaRemoved(q).snapshot = q.snapshot /\ MetaRemoved(q).secret = q.secret
  BY <1>2, QuickFields, Zenon
<1>4. {"rm snapshot", "quick rm snapshot", "rm meta", "quick rm meta"} \subseteq Pcs
  BY DEF Pcs, Holding, Taking
<1>5. \A u \in Tasks : u # t => /\ task'[u].pc = task[u].pc /\ task'[u].kind = task[u].kind
                                /\ task'[u].alone => task[u].alone
  BY <1>1, OthersStay
<1>6. \A u \in Tasks : u # t => /\ InSnapshot(u)' <=> InSnapshot(u)
                                /\ InMeta(u)' <=> InMeta(u)
                                /\ Enabling(u)' <=> Enabling(u)
  BY <1>5 DEF InSnapshot, InMeta, Enabling
<1>7. CASE RemoveSecret(t)
  <2>1. /\ task'[t].pc \in {"rm snapshot", "quick rm snapshot"}
        /\ task'[t].alone = task[t].alone /\ task'[t].kind = task[t].kind
    BY <1>4, <1>7, NowAt DEF RemoveSecret
  <2>2. InSnapshot(t)' /\ ~InMeta(t)' /\ ~Enabling(t)'
    BY <2>1 DEF InSnapshot, InMeta, Enabling
  <2>3. forgotten' = forgotten /\ q'.snapshot = q.snapshot
    BY <1>3, <1>7 DEF RemoveSecret
  <2>4. AloneStays' /\ ForgottenStays'
    BY <1>1, <2>1, <2>2, <2>3, AloneOn
  <2>5. ASSUME ~mixed'
        PROVE  Unmixed'
    <3>1. ~mixed /\ \A u \in Tasks : ~Enabling(u)
      BY <1>7, <2>5 DEF RemoveSecret
    <3>2. Unmixed
      BY <3>1 DEF WholeInv
    <3>3. NoneEnabling'
      BY <1>6, <2>2, <3>1 DEF NoneEnabling
    <3>4. SnapshotOfSecret'
      BY <2>2 DEF SnapshotOfSecret
    <3>5. SnapshotGone'
      BY <1>6, <2>2, <2>3, <3>2 DEF Unmixed, SnapshotGone
    <3>6. QED
      BY <3>3, <3>4, <3>5, UnmixedIdle
  <2>6. QED
    BY <2>4, <2>5 DEF WholeInv
<1>8. CASE RemoveSnapshot(t)
  <2>1. /\ task'[t].pc \in {"rm meta", "quick rm meta"}
        /\ task'[t].alone = task[t].alone /\ task'[t].kind = task[t].kind
    BY <1>4, <1>8, NowAt DEF RemoveSnapshot
  <2>2. ~Enabling(t)' /\ InSnapshot(t)
    BY <1>8, <2>1 DEF InSnapshot, Enabling, RemoveSnapshot
  <2>3. forgotten' = forgotten /\ mixed' = mixed /\ q'.snapshot = NoKey
    BY <1>3, <1>8 DEF RemoveSnapshot
  <2>4. AloneStays' /\ ForgottenStays'
    BY <1>1, <2>1, <2>2, <2>3, AloneOn
  <2>5. ASSUME ~mixed'
        PROVE  Unmixed'
    <3>1. Unmixed
      BY <2>3, <2>5 DEF WholeInv
    <3>2. \A u \in Tasks : ~Enabling(u)
      BY <2>2, <3>1 DEF Unmixed, EnablingAlone
    <3>3. NoneEnabling'
      BY <1>6, <2>2, <3>2 DEF NoneEnabling
    <3>4. SnapshotOfSecret' /\ SnapshotGone'
      BY <2>3 DEF SnapshotOfSecret, SnapshotGone
    <3>5. QED
      BY <3>3, <3>4, UnmixedIdle
  <2>6. QED
    BY <2>4, <2>5 DEF WholeInv
<1>9. CASE RemoveMeta(t)
  <2>1. task'[t].pc = "idle" /\ task'[t].alone = FALSE
    BY <1>9, NowAt DEF RemoveMeta
  <2>2. ~Enabling(t)' /\ ~InMeta(t)' /\ ~InSnapshot(t)' /\ InMeta(t) /\ ~InSnapshot(t)
    BY <1>9, <2>1 DEF InSnapshot, InMeta, Enabling, RemoveMeta
  <2>3. q'.snapshot = q.snapshot /\ q'.secret = q.secret
    BY <1>3, <1>9 DEF RemoveMeta
  <2>4. NoneEnabling => NoneEnabling'
    BY <1>6, <2>2 DEF NoneEnabling
  <2>5. task[t].alone => NoneEnabling /\ q.snapshot = NoKey
    BY <2>2 DEF WholeInv, AloneStays
  <2>6. AloneStays'
    <3> SUFFICES ASSUME NEW u \in Tasks, task'[u].alone
                 PROVE  /\ task'[u].kind \in {"forget", "quick"} /\ NoneEnabling'
                        /\ InMeta(u)' => q'.snapshot = NoKey
      BY DEF AloneStays
    <3>1. u # t /\ task[u].alone /\ task'[u].kind = task[u].kind
      BY <1>5, <2>1
    <3>2. /\ task[u].kind \in {"forget", "quick"} /\ NoneEnabling
          /\ InMeta(u) => q.snapshot = NoKey
      BY <3>1 DEF WholeInv, AloneStays
    <3>3. QED
      BY <1>6, <2>3, <2>4, <3>1, <3>2
  <2>7. ForgottenStays'
    <3>1. forgotten' => forgotten \/ task[t].alone
      BY <1>9 DEF RemoveMeta
    <3>2. forgotten => q.snapshot = NoKey /\ NoneEnabling
      BY DEF WholeInv, ForgottenStays
    <3>3. QED
      BY <2>3, <2>4, <2>5, <3>1, <3>2 DEF ForgottenStays
  <2>8. ASSUME ~mixed'
        PROVE  Unmixed'
    <3>1. NoneEnabling /\ q.snapshot = NoKey
      <4>1. CASE task[t].alone
        BY <2>5, <4>1
      <4>2. CASE ~task[t].alone
        <5>1. ~mixed
          BY <1>9, <2>8, <4>2 DEF RemoveMeta
        <5>2. Unmixed
          BY <5>1 DEF WholeInv
        <5>3. q.snapshot = NoKey
          BY <2>2, <5>2 DEF Unmixed, SnapshotGone
        <5>4. NoneEnabling
          BY <2>2, <5>2 DEF Unmixed, EnablingAlone, NoneEnabling
        <5>5. QED
          BY <5>3, <5>4
      <4>3. QED
        BY <4>1, <4>2
    <3>2. SnapshotOfSecret' /\ SnapshotGone'
      BY <2>3, <3>1 DEF SnapshotOfSecret, SnapshotGone
    <3>3. QED
      BY <2>4, <3>1, <3>2, UnmixedIdle
  <2>9. QED
    BY <2>6, <2>7, <2>8 DEF WholeInv
<1>10. QED
  BY <1>7, <1>8, <1>9

\* Time and the auto-lock loop touch neither secret nor snapshot, and a death
\* of the process marks a forgetting that it cuts short.
LEMMA WholeAside ==
  ASSUME TypeOK, WholeInv,
         \/ DeleteCopy \/ BecomesInactive \/ BackgroundPassesThreshold \/ WeekPasses
         \/ AutoLockDecides \/ AutoLocks \/ Crash \/ UNCHANGED vars
  PROVE  WholeInv'
<1> USE DEF quick
<1>1. q \in QuickType /\ q.meta \in Metas /\ q.secret \in Nat
  BY TypeParts DEF OthersOK, QuickType
<1>2. ASSUME UNCHANGED <<forgotten, mixed>>, q'.secret = q.secret, q'.snapshot = q.snapshot,
             \A u \in Tasks : /\ task'[u].pc = task[u].pc /\ task'[u].kind = task[u].kind
                             /\ task'[u].key = task[u].key /\ task'[u].alone = task[u].alone
      PROVE  WholeInv'
  <2>1. \A u \in Tasks : /\ InSnapshot(u)' <=> InSnapshot(u)
                         /\ InMeta(u)' <=> InMeta(u)
                         /\ Enabling(u)' <=> Enabling(u)
    BY <1>2 DEF InSnapshot, InMeta, Enabling
  <2>2. NoneEnabling => NoneEnabling'
    BY <2>1 DEF NoneEnabling
  <2>3. AloneStays'
    BY <1>2, <2>1, <2>2 DEF WholeInv, AloneStays
  <2>4. ForgottenStays'
    BY <1>2, <2>2 DEF WholeInv, ForgottenStays
  <2>5. ASSUME Unmixed
        PROVE  Unmixed'
    <3>1. SnapshotOfSecret' /\ SnapshotGone' /\ EnablingAlone'
      BY <1>2, <2>1, <2>5 DEF Unmixed, SnapshotOfSecret, SnapshotGone, EnablingAlone
    <3>2. KeyOfSecret' /\ SecretToMake'
      BY <1>2, <2>5 DEF Unmixed, KeyOfSecret, SecretToMake
    <3>3. SecretToRead'
      BY <1>2, <2>1, <2>5 DEF Unmixed, SecretToRead
    <3>4. QED
      BY <3>1, <3>2, <3>3 DEF Unmixed
  <2>6. QED
    BY <1>2, <2>3, <2>4, <2>5 DEF WholeInv
<1>3. CASE DeleteCopy \/ BecomesInactive \/ BackgroundPassesThreshold \/ AutoLockDecides \/ AutoLocks
  <2>1. UNCHANGED <<forgotten, mixed, q, task>>
    BY <1>3 DEF DeleteCopy, BecomesInactive, BackgroundPassesThreshold, AutoLockDecides, AutoLocks
  <2>2. QED
    BY <1>2, <2>1
<1>4. CASE UNCHANGED vars
  BY <1>2, <1>4 DEF vars
<1>5. CASE WeekPasses
  <2>1. UNCHANGED <<forgotten, mixed>> /\ q'.secret = q.secret /\ q'.snapshot = q.snapshot
    BY <1>1, <1>5 DEF WeekPasses, QuickType
  <2>2. \A u \in Tasks : /\ task'[u].pc = task[u].pc /\ task'[u].kind = task[u].kind
                         /\ task'[u].key = task[u].key /\ task'[u].alone = task[u].alone
    BY <1>5, TimeStays
  <2>3. QED
    BY <1>2, <2>1, <2>2
<1>6. CASE Crash
  <2>1. \A u \in Tasks : task'[u].pc = "idle" /\ task'[u].alone = FALSE
    BY <1>6 DEF Crash, Idle
  <2>2. NoneEnabling' /\ SnapshotGone' /\ AloneStays'
    BY <2>1 DEF NoneEnabling, Enabling, SnapshotGone, InMeta, AloneStays
  <2>3. q'.secret = q.secret /\ q'.snapshot = q.snapshot
    <3>1. MetaRemoved(q).secret = q.secret /\ MetaRemoved(q).snapshot = q.snapshot
      BY <1>1, QuickFields, Zenon
    <3>2. q' \in {q, MetaRemoved(q)}
      BY <1>6 DEF Crash
    <3>3. QED
      BY <3>1, <3>2
  <2>4. ForgottenStays'
    BY <1>6, <2>2, <2>3 DEF Crash, WholeInv, ForgottenStays
  <2>5. ASSUME ~mixed'
        PROVE  Unmixed'
    <3>1. ~mixed /\ \A u \in Tasks : ~Forgetting(u)
      BY <1>6, <2>5 DEF Crash
    <3>2. \A u \in Tasks : ~InSnapshot(u)
      BY <3>1 DEF Forgetting, InSnapshot
    <3>3. q.snapshot \in {NoKey, q.secret}
      BY <3>1, <3>2 DEF WholeInv, Unmixed, SnapshotOfSecret
    <3>4. SnapshotOfSecret'
      BY <2>3, <3>3 DEF SnapshotOfSecret
    <3>5. QED
      BY <2>2, <3>4, UnmixedIdle
  <2>6. QED
    BY <2>2, <2>4, <2>5 DEF WholeInv
<1>7. QED
  BY <1>3, <1>4, <1>5, <1>6

\* Every step keeps what the three files' invariant says.
LEMMA WholeStep ==
  ASSUME TypeOK, WholeInv, [Next]_vars
  PROVE  WholeInv'
<1>1. ASSUME NEW t \in Tasks, Check(t)
      PROVE  WholeInv'
  BY <1>1, WholeChecks, WholeRecords
<1>2. ASSUME NEW t \in Tasks, OpenSnapshot(t)
      PROVE  WholeInv'
  <2>1. Ends(t) \/ Goes(t, "save snapshot")
    BY <1>2 DEF OpenSnapshot
  <2>2. QED
    BY <1>2, <2>1, WholeFinds, WholeRecords
<1>3. ASSUME NEW t \in Tasks, StartCommand(t) \/ WindowEvent(t) \/ TaskStep(t)
      PROVE  WholeInv'
  BY <1>1, <1>2, <1>3, WholeBegins, WholeElsewhere, WholeRecords, WholeReads, WholeEnables,
     WholeFinds, WholeSaves, WholeRemoves DEF TaskStep
<1>4. QED
  BY <1>3, WholeAside DEF Next

\* Forgetting leaves no passphrase behind once it has run, and what is_enabled
\* tells the user is there can be opened, but where forgetting and enabling ran
\* into each other or forgetting was cut short (quick_unlock.rs).
THEOREM FilesStayWhole == Spec => []QuickUnlockIsWhole
<1>1. Init => TypeOK /\ WholeInv
  <2> SUFFICES ASSUME Init PROVE WholeInv
    BY InitTypes
  <2>1. \A u \in Tasks : task[u].pc = "idle" /\ task[u].alone = FALSE
    BY DEF Init, Idle
  <2>2. \A u \in Tasks : ~Enabling(u) /\ ~InSnapshot(u) /\ ~InMeta(u)
    BY <2>1 DEF Enabling, InSnapshot, InMeta
  <2>3. forgotten = FALSE
    BY DEF Init
  <2>4. AloneStays /\ ForgottenStays
    BY <2>1, <2>3 DEF AloneStays, ForgottenStays
  <2>5. q.snapshot \in {NoKey, q.secret}
    BY DEF Init, NothingStored
  <2>6. SnapshotOfSecret /\ SnapshotGone /\ EnablingAlone /\ SecretToRead
    BY <2>2, <2>5 DEF SnapshotOfSecret, SnapshotGone, EnablingAlone, SecretToRead
  <2>7. KeyOfSecret /\ SecretToMake
    BY <2>1 DEF KeyOfSecret, SecretToMake
  <2>8. QED
    BY <2>4, <2>6, <2>7 DEF WholeInv, Unmixed
<1>2. TypeOK /\ WholeInv /\ [Next]_vars => TypeOK' /\ WholeInv'
  BY TypeStep, WholeStep
<1>3. WholeInv => QuickUnlockIsWhole
  <2> SUFFICES ASSUME WholeInv, Enabled(q), ~mixed, \A t \in Tasks : ~Forgetting(t) /\ ~Enabling(t)
               PROVE  q.snapshot = q.secret
    BY DEF WholeInv, ForgottenStays, QuickUnlockIsWhole
  <2>1. \A u \in Tasks : ~InSnapshot(u)
    BY DEF Forgetting, InSnapshot
  <2>2. QED
    BY <2>1 DEF WholeInv, Unmixed, SnapshotOfSecret, Enabled
<1>4. QED
  BY <1>1, <1>2, <1>3, PTL DEF Spec
===============================================================================
