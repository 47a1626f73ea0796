---------------------------- MODULE VaultKeys_proofs --------------------------
(***************************************************************************)
(* Proofs about VaultKeys for any set of devices, vault ids and keyslot    *)
(* ids; the last one needs that keyslots are deleted one at a time.        *)
(***************************************************************************)
EXTENDS VaultKeys, FiniteSetTheorems, TLAPS

USE NoneIsNoVault

ClientStates == [pc : {"create", "bind", "save", "open", "add"}, slot : Slot]

(* One master key. *)

\* Between two kv writes and in a session, what the device has persisted is
\* what its client works with.
KvFollows ==
  \A d \in Devices :
    /\ proc[d].pc = "save" => kv[d].vault = vault
    /\ proc[d].pc \in {"open", "add"} => kv[d].slot \in Slot /\ kv[d].slot.mk = vault

\* The induction hypothesis.
KeyInv == TypeOK /\ OneMasterKey /\ KvFollows

\* A client's failed request leaves it off, or in the session it had.
LEMMA FailedState ==
  ASSUME KeyInv, NEW d \in Devices, proc[d].pc \in {"create", "add"}
  PROVE  /\ Failed(d) \in {Off} \cup ClientStates
         /\ Failed(d).pc \in {"off", "open"}
         /\ Failed(d).pc = "open" => Failed(d).slot = kv[d].slot /\ proc[d].pc = "add"
         /\ Failed(d).pc = "off" => Failed(d) = Off
<1>1. CASE proc[d].pc = "add"
  <2>1. kv[d].slot \in Slot
    BY <1>1 DEF KeyInv, KvFollows
  <2>2. QED
    BY <1>1, <2>1 DEF Failed, Client, ClientStates
<1>2. CASE proc[d].pc # "add"
  BY <1>2 DEF Failed, Off
<1>3. QED
  BY <1>1, <1>2

\* What a client step of d has to establish, when only d's client and what d
\* persists change.
LEMMA OnDevice ==
  ASSUME KeyInv, NEW d \in Devices, NEW c \in {Off} \cup ClientStates,
         proc' = [proc EXCEPT ![d] = c],
         UNCHANGED <<vault, slots, kv, del>>,
         c # Off /\ c.pc # "create" => c.slot.mk = vault,
         c.pc = "save" => kv[d].vault = vault,
         c.pc \in {"open", "add"} => kv[d].slot \in Slot /\ kv[d].slot.mk = vault
  PROVE  KeyInv'
<1> USE DEF KeyInv, TypeOK
<1>1. proc'[d] = c /\ \A e \in Devices : e # d => proc'[e] = proc[e]
  OBVIOUS
<1>2. TypeOK'
  BY DEF ClientStates
<1>3. OneMasterKey'
  BY <1>1 DEF OneMasterKey
<1>4. KvFollows'
  BY <1>1 DEF KvFollows
<1>5. QED
  BY <1>2, <1>3, <1>4

\* The request of a first device arrives and is accepted: there was no key
\* before, in any table, data directory or session.
LEMMA FirstVault ==
  ASSUME KeyInv, NEW d \in Devices, NEW c \in {Off} \cup ClientStates,
         proc[d].pc = "create", AcceptsVault,
         vault' = proc[d].slot.mk,
         slots' = slots \cup {proc[d].slot},
         proc' = [proc EXCEPT ![d] = c],
         UNCHANGED <<kv, del>>,
         c = Off \/ (c.pc = "bind" /\ c.slot = proc[d].slot)
  PROVE  KeyInv'
<1> USE DEF KeyInv, TypeOK
<1>1. proc'[d] = c /\ \A e \in Devices : e # d => proc'[e] = proc[e]
  OBVIOUS
<1>2. proc[d].slot \in Slot /\ vault = None
  BY DEF Off, AcceptsVault
<1>3. TypeOK'
  BY <1>2 DEF ClientStates, Slot
<1>4. \A s \in Slot : s.mk # None
  BY DEF Slot
<1>5. slots = {}
  BY <1>2, <1>4 DEF OneMasterKey
<1>6. \A e \in Devices : kv[e].vault = None /\ kv[e].slot = None
  BY <1>2, <1>4 DEF OneMasterKey
<1>7. \A e \in Devices : proc[e] = Off \/ proc[e].pc = "create"
  BY <1>2, <1>4 DEF OneMasterKey
<1>8. OneMasterKey'
  BY <1>1, <1>2, <1>5, <1>6, <1>7 DEF OneMasterKey
<1>9. KvFollows'
  BY <1>1, <1>7 DEF KvFollows, Off
<1>10. QED
  BY <1>3, <1>8, <1>9

\* The keyslot of a session arrives.
LEMMA MoreSlots ==
  ASSUME KeyInv, NEW d \in Devices, NEW c \in {Off} \cup ClientStates,
         proc[d].pc = "add",
         slots' = slots \cup {proc[d].slot},
         proc' = [proc EXCEPT ![d] = c],
         UNCHANGED <<vault, kv, del>>,
         c = Off \/ (c.pc = "open" /\ c.slot = kv[d].slot)
  PROVE  KeyInv'
<1> USE DEF KeyInv, TypeOK
<1>1. proc'[d] = c /\ \A e \in Devices : e # d => proc'[e] = proc[e]
  OBVIOUS
<1>2. proc[d].slot \in Slot /\ proc[d].slot.mk = vault
  BY DEF Off, OneMasterKey
<1>3. kv[d].slot \in Slot /\ kv[d].slot.mk = vault
  BY DEF KvFollows
<1>4. TypeOK'
  BY <1>2 DEF ClientStates
<1>5. OneMasterKey'
  BY <1>1, <1>2, <1>3 DEF OneMasterKey
<1>6. KvFollows'
  BY <1>1, <1>3 DEF KvFollows, Off
<1>7. QED
  BY <1>4, <1>5, <1>6

\* Creating, joining, unlocking and asking for a recovery slot change only the
\* client; so does what makes it fail or end.
LEMMA ClientAlone ==
  ASSUME KeyInv, NEW d \in Devices,
         \/ Create(d) \/ Join(d) \/ Unlock(d) \/ AddRecovery(d)
         \/ LoseRequest(d) \/ Crash(d) \/ Lock(d)
         \/ CreateVault(d) /\ ~AcceptsVault
  PROVE  KeyInv'
<1> USE DEF KeyInv, TypeOK
<1>1. CASE Create(d)
  <2>1. PICK v \in Vaults, i \in SlotIds :
          proc' = [proc EXCEPT ![d] = Client("create", [id |-> i, kind |-> "passphrase", mk |-> v])]
    BY <1>1 DEF Create
  <2>2. Client("create", [id |-> i, kind |-> "passphrase", mk |-> v]) \in ClientStates
    BY DEF Client, ClientStates, Slot
  <2>3. Client("create", [id |-> i, kind |-> "passphrase", mk |-> v]).pc = "create"
    BY DEF Client
  <2>4. QED
    BY <1>1, <2>1, <2>2, <2>3, OnDevice DEF Create
<1>2. CASE Join(d)
  <2>1. PICK s \in slots : proc' = [proc EXCEPT ![d] = Client("bind", s)]
    BY <1>2 DEF Join
  <2>2. /\ Client("bind", s) \in ClientStates
        /\ Client("bind", s).pc = "bind" /\ Client("bind", s).slot = s
    BY DEF Client, ClientStates
  <2>3. s.mk = vault
    BY DEF OneMasterKey
  <2>4. QED
    BY <1>2, <2>1, <2>2, <2>3, OnDevice DEF Join
<1>3. CASE Unlock(d)
  <2>1. kv[d].slot \in Slot /\ kv[d].slot.mk = vault
    BY <1>3 DEF Unlock, MayUnlock, OneMasterKey
  <2>2. /\ Client("open", kv[d].slot) \in ClientStates
        /\ Client("open", kv[d].slot).pc = "open" /\ Client("open", kv[d].slot).slot = kv[d].slot
    BY <2>1 DEF Client, ClientStates
  <2>3. QED
    BY <1>3, <2>1, <2>2, OnDevice DEF Unlock
<1>4. CASE AddRecovery(d)
  <2>1. PICK i \in SlotIds : proc' = [proc EXCEPT ![d] =
                     Client("add", [id |-> i, kind |-> "recovery", mk |-> proc[d].slot.mk])]
    BY <1>4 DEF AddRecovery
  <2> DEFINE s == [id |-> i, kind |-> "recovery", mk |-> proc[d].slot.mk]
  <2>2. proc[d].slot \in Slot /\ proc[d].slot.mk = vault
    BY <1>4 DEF AddRecovery, OneMasterKey, Off
  <2>3. kv[d].slot \in Slot /\ kv[d].slot.mk = vault
    BY <1>4 DEF AddRecovery, KvFollows
  <2>4. s \in Slot /\ s.mk = vault
    BY <2>2 DEF Slot
  <2> HIDE DEF s
  <2>5. /\ Client("add", s) \in ClientStates
        /\ Client("add", s).pc = "add" /\ Client("add", s).slot = s
    BY <2>4 DEF Client, ClientStates
  <2>6. proc' = [proc EXCEPT ![d] = Client("add", s)]
    BY <2>1 DEF s
  <2>7. QED
    BY <1>4, <2>3, <2>4, <2>5, <2>6, OnDevice DEF AddRecovery
<1>5. CASE LoseRequest(d)
  <2> DEFINE c == Failed(d)
  <2>1. proc' = [proc EXCEPT ![d] = c] /\ proc[d].pc \in {"create", "add"}
    BY <1>5 DEF LoseRequest
  <2>2. /\ c \in {Off} \cup ClientStates /\ c.pc \in {"off", "open"}
        /\ c.pc = "open" => c.slot = kv[d].slot /\ proc[d].pc = "add"
        /\ c.pc = "off" => c = Off
    BY <2>1, FailedState
  <2> HIDE DEF c
  <2>3. c.pc = "open" => kv[d].slot \in Slot /\ kv[d].slot.mk = vault
    BY <2>2 DEF KvFollows
  <2>4. UNCHANGED <<vault, slots, kv, del>>
    BY <1>5 DEF LoseRequest
  <2>5. /\ c # Off /\ c.pc # "create" => c.slot.mk = vault
        /\ c.pc # "save"
        /\ c.pc \in {"open", "add"} => kv[d].slot \in Slot /\ kv[d].slot.mk = vault
    BY <2>2, <2>3
  <2>6. QED
    BY <2>1, <2>2, <2>4, <2>5, OnDevice
<1>6. CASE CreateVault(d) /\ ~AcceptsVault
  <2>1. Failed(d) = Off
    BY <1>6 DEF CreateVault, Failed
  <2>2. proc' = [proc EXCEPT ![d] = Off] /\ UNCHANGED <<vault, slots, kv, del>>
    BY <1>6, <2>1 DEF CreateVault
  <2>3. QED
    BY <2>2, OnDevice DEF Off
<1>7. CASE Crash(d) \/ Lock(d)
  <2>1. proc' = [proc EXCEPT ![d] = Off] /\ UNCHANGED <<vault, slots, kv, del>>
    BY <1>7 DEF Crash, Lock
  <2>2. QED
    BY <2>1, OnDevice DEF Off
<1>8. QED
  BY <1>1, <1>2, <1>3, <1>4, <1>5, <1>6, <1>7

\* persist_bootstrap writes the vault id, and the keyslot after it.
LEMMA KvWrites ==
  ASSUME KeyInv, NEW d \in Devices, BindVault(d) \/ SaveKeyslot(d)
  PROVE  KeyInv'
<1> USE DEF KeyInv, TypeOK
<1>1. proc[d].slot \in Slot /\ proc[d].slot.mk = vault /\ proc[d] # Off
  BY DEF BindVault, SaveKeyslot, OneMasterKey, Off
<1>2. UNCHANGED <<vault, slots, del>> /\ \A e \in Devices : e # d => proc'[e] = proc[e] /\ kv'[e] = kv[e]
  BY DEF BindVault, SaveKeyslot
<1>3. proc'[d].slot = proc[d].slot /\ proc'[d].pc \in {"save", "open"} /\ proc'[d] # Off
  BY DEF BindVault, SaveKeyslot, Off
<1>4. /\ kv'[d].vault = vault /\ vault \in Vaults
      /\ kv'[d].slot # None => kv'[d].slot.mk = vault
      /\ proc'[d].pc = "open" => kv'[d].slot \in Slot /\ kv'[d].slot.mk = vault
  <2>1. CASE BindVault(d)
    BY <1>1, <2>1 DEF BindVault, OneMasterKey, Slot
  <2>2. CASE SaveKeyslot(d)
    BY <1>1, <2>2 DEF SaveKeyslot, KvFollows, Slot
  <2>3. QED
    BY <2>1, <2>2
<1>5. TypeOK'
  <2>1. proc[d] \in ClientStates
    BY <1>1 DEF ClientStates
  <2>2. CASE BindVault(d)
    BY <1>1, <2>1, <2>2 DEF BindVault, ClientStates, Slot
  <2>3. CASE SaveKeyslot(d)
    BY <1>1, <2>1, <2>3 DEF SaveKeyslot, ClientStates
  <2>4. QED
    BY <2>2, <2>3
<1>6. OneMasterKey'
  BY <1>1, <1>2, <1>3, <1>4 DEF OneMasterKey
<1>7. KvFollows'
  BY <1>2, <1>3, <1>4 DEF KvFollows
<1>8. QED
  BY <1>5, <1>6, <1>7

\* The induction step.
LEMMA KeyStep == KeyInv /\ [Next]_vars => KeyInv'
<1> SUFFICES ASSUME KeyInv, [Next]_vars PROVE KeyInv'
  OBVIOUS
<1> USE DEF KeyInv, TypeOK
<1>1. CASE UNCHANGED vars
  BY <1>1 DEF vars, OneMasterKey, KvFollows
<1>2. ASSUME NEW d \in Devices, CreateVault(d), AcceptsVault PROVE KeyInv'
  <2>1. proc[d].slot \in Slot
    BY <1>2 DEF CreateVault, Off
  <2> DEFINE c == [proc[d] EXCEPT !.pc = "bind"]
  <2>2. c \in ClientStates /\ c.pc = "bind" /\ c.slot = proc[d].slot
    BY <1>2, <2>1 DEF CreateVault, ClientStates, Off
  <2>3. proc' = [proc EXCEPT ![d] = c]
    BY <1>2 DEF CreateVault
  <2> HIDE DEF c
  <2>4. QED
    BY <1>2, <2>2, <2>3, FirstVault DEF CreateVault
<1>3. ASSUME NEW d \in Devices, AddKeyslot(d) PROVE KeyInv'
  <2>1. kv[d].slot \in Slot
    BY <1>3 DEF AddKeyslot, KvFollows
  <2> DEFINE c == Client("open", kv[d].slot)
  <2>2. c \in ClientStates /\ c.pc = "open" /\ c.slot = kv[d].slot
    BY <2>1 DEF Client, ClientStates
  <2>3. proc' = [proc EXCEPT ![d] = c]
    BY <1>3 DEF AddKeyslot
  <2> HIDE DEF c
  <2>4. QED
    BY <1>3, <2>2, <2>3, MoreSlots DEF AddKeyslot
<1>4. ASSUME NEW d \in Devices, LoseAnswer(d) PROVE KeyInv'
  <2> DEFINE c == Failed(d)
  <2>1. proc' = [proc EXCEPT ![d] = c] /\ slots' = slots \cup {proc[d].slot} /\ UNCHANGED <<kv, del>>
        /\ proc[d].pc \in {"create", "add"}
    BY <1>4 DEF LoseAnswer
  <2>2. /\ c \in {Off} \cup ClientStates /\ c.pc \in {"off", "open"}
        /\ c.pc = "open" => c.slot = kv[d].slot /\ proc[d].pc = "add"
        /\ c.pc = "off" => c = Off
    BY <2>1, FailedState
  <2> HIDE DEF c
  <2>3. CASE proc[d].pc = "create"
    <3>1. AcceptsVault /\ vault' = proc[d].slot.mk
      BY <1>4, <2>3 DEF LoseAnswer
    <3>2. c = Off
      BY <2>2, <2>3
    <3> HIDE DEF KeyInv, TypeOK
    <3>3. QED
      BY <2>1, <2>2, <2>3, <3>1, <3>2, FirstVault
  <2>4. CASE proc[d].pc = "add"
    <3>1. UNCHANGED vault
      BY <1>4, <2>4 DEF LoseAnswer
    <3>2. c = Off \/ (c.pc = "open" /\ c.slot = kv[d].slot)
      BY <2>2
    <3> HIDE DEF KeyInv, TypeOK
    <3>3. QED
      BY <2>1, <2>2, <2>4, <3>1, <3>2, MoreSlots
  <2>5. QED
    BY <2>1, <2>3, <2>4
<1>5. ASSUME NEW x \in Deleters, CountSlots(x) \/ DeleteSlot(x) PROVE KeyInv'
  <2>1. TypeOK' /\ UNCHANGED <<vault, kv, proc>> /\ slots' \subseteq slots
    BY <1>5 DEF CountSlots, DeleteSlot
  <2>2. QED
    BY <2>1 DEF OneMasterKey, KvFollows
<1>6. QED
  BY <1>1, <1>2, <1>3, <1>4, <1>5, ClientAlone, KvWrites DEF Next, ClientStep, Fault

\* The induction hypothesis is an invariant.
LEMMA KeyInvariant == Spec => []KeyInv
<1>1. Init => KeyInv
  BY DEF Init, KeyInv, TypeOK, OneMasterKey, KvFollows, Unbound, Off
<1>2. QED
  BY <1>1, KeyStep, PTL DEF Spec

\* The vault and keyslot tables, the kv rows and the clients keep their types.
THEOREM TypeCorrect == Spec => []TypeOK
<1>1. QED
  BY KeyInvariant, PTL DEF KeyInv

\* However many first devices create at once, join, crash between the kv writes
\* or lose answers, all of them come to hold the vault's one master key
\* (create_vault, persist_bootstrap, unlock, add_recovery_keyslot).
THEOREM AllHoldOneKey == Spec => []OneMasterKey
<1>1. QED
  BY KeyInvariant, PTL DEF KeyInv
-------------------------------------------------------------------------------
(* The last keyslot. *)

\* A delete_keyslot that has counted leaves another slot.
SlotInv ==
  /\ IsFiniteSet(slots)
  /\ LastSlotKept
  /\ \A x \in Deleters : del[x] # None => \E s \in slots : s # del[x]

\* A set of more than one element has one besides any given one.
LEMMA AnotherOne ==
  ASSUME NEW S, IsFiniteSet(S), Cardinality(S) > 1, NEW e
  PROVE  \E s \in S : s # e
<1> SUFFICES ASSUME \A s \in S : s = e PROVE FALSE
  OBVIOUS
<1>1. S \subseteq {e}
  OBVIOUS
<1>2. IsFiniteSet({e}) /\ Cardinality({e}) = 1
  BY FS_Singleton
<1>3. Cardinality(S) <= 1
  BY <1>1, <1>2, FS_Subset
<1>4. Cardinality(S) \in Nat
  BY FS_CardinalityType
<1>5. QED
  BY <1>3, <1>4

\* With at most one delete_keyslot at a time, count and deletion are as good as
\* one step.
LEMMA SlotStep ==
  ASSUME \A x, y \in Deleters : x = y
  PROVE  KeyInv /\ SlotInv /\ [Next]_vars => SlotInv'
<1> SUFFICES ASSUME KeyInv, SlotInv, [Next]_vars PROVE SlotInv'
  OBVIOUS
<1> USE DEF SlotInv, LastSlotKept, KeyInv, TypeOK
<1>1. ASSUME UNCHANGED del, slots' = slots /\ vault' = vault PROVE SlotInv'
  BY <1>1
<1>2. ASSUME NEW d \in Devices, UNCHANGED del, slots' = slots \cup {proc[d].slot} PROVE SlotInv'
  BY <1>2, FS_AddElement
<1>3. ASSUME NEW d \in Devices, CreateVault(d) PROVE SlotInv'
  BY <1>1, <1>2, <1>3 DEF CreateVault
<1>4. ASSUME NEW d \in Devices, AddKeyslot(d) \/ LoseAnswer(d) PROVE SlotInv'
  BY <1>2, <1>4 DEF AddKeyslot, LoseAnswer
<1>5. ASSUME NEW x \in Deleters, CountSlots(x) PROVE SlotInv'
  <2>1. PICK s \in slots : del' = [del EXCEPT ![x] = s]
    BY <1>5 DEF CountSlots
  <2>2. \E t \in slots : t # s
    <3>1. IsFiniteSet(slots) /\ Cardinality(slots) > 1
      BY <1>5 DEF CountSlots, MayDelete
    <3> HIDE DEF SlotInv, LastSlotKept, KeyInv, TypeOK
    <3>2. QED
      BY <3>1, AnotherOne
  <2>3. QED
    BY <1>5, <2>1, <2>2 DEF CountSlots
<1>6. ASSUME NEW x \in Deleters, DeleteSlot(x) PROVE SlotInv'
  <2>1. /\ del[x] # None /\ slots' = slots \ {del[x]} /\ UNCHANGED vault
        /\ del' = [del EXCEPT ![x] = None]
    BY <1>6 DEF DeleteSlot
  <2>2. IsFiniteSet(slots')
    BY <2>1, FS_Subset
  <2>3. slots' # {}
    BY <2>1
  <2>4. \A y \in Deleters : del'[y] = None
    BY <2>1
  <2>5. QED
    BY <2>2, <2>3, <2>4
<1>7. QED
  BY <1>1, <1>3, <1>4, <1>5, <1>6
     DEF Next, ClientStep, Fault, Create, Join, BindVault, SaveKeyslot, Unlock,
         LoseRequest, Crash, Lock, AddRecovery, vars

\* delete_keyslot never deletes the last slot, as long as deletions do not
\* overlap; KeyslotRace shows what two of them do.
THEOREM LastSlotStays ==
  ASSUME \A x, y \in Deleters : x = y
  PROVE  Spec => []LastSlotKept
<1>1. Init => SlotInv
  BY FS_EmptySet DEF Init, SlotInv, LastSlotKept
<1>2. KeyInv /\ SlotInv /\ [Next]_vars => SlotInv'
  BY SlotStep
<1>3. SlotInv => LastSlotKept
  BY DEF SlotInv
<1>4. QED
  BY <1>1, <1>2, <1>3, KeyInvariant, PTL DEF Spec
===============================================================================
