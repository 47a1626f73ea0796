------------------------------- MODULE VaultKeys ------------------------------
(***************************************************************************)
(* The vault and its keyslots: the server's create_vault, add_keyslot and  *)
(* delete_keyslot, and how devices come to hold the one master key: create *)
(* or join, the bootstrap rows they persist, unlock, and the recovery code *)
(* they show once.  Requests and answers get lost and clients die between  *)
(* any two of the kv writes.                                               *)
(***************************************************************************)
EXTENDS Naturals, FiniteSets

CONSTANTS
  Devices,   \* data directories, each with its client
  Vaults,    \* vault ids; a vault id also stands for its master key
  SlotIds,   \* keyslot ids
  Deleters,  \* delete_keyslot handlers that may be in progress at once
  None       \* no vault, no keyslot

ASSUME NoneIsNoVault == None \notin Vaults

VARIABLES
  vault,  \* the row of the vault table, or None
  slots,  \* the keyslot table: each row wraps the master key `mk`
  kv,     \* [Devices -> what the device has persisted]
  proc,   \* [Devices -> the client process, lost in a crash]
  del     \* [Deleters -> delete_keyslot handler]

vars == <<vault, slots, kv, proc, del>>

Slot == [id : SlotIds, kind : {"passphrase", "recovery"}, mk : Vaults]

Off == [pc |-> "off"]

\* A client that handles slot: "create" and "add" are requests on their way,
\* "bind" and "save" are before the two kv writes that matter, "open" is unlocked.
Client(pc, slot) == [pc |-> pc, slot |-> slot]

Unbound == [vault |-> None, slot |-> None]

Init == /\ vault = None /\ slots = {}
        /\ kv = [d \in Devices |-> Unbound]
        /\ proc = [d \in Devices |-> Off]
        /\ del = [x \in Deleters |-> None]

\* Ids are random: a new one is in no table, no data directory and no request.
FreshId(i) ==
  /\ \A s \in slots : s.id # i
  /\ \A d \in Devices : /\ proc[d] # Off => proc[d].slot.id # i
                        /\ kv[d].slot # None => kv[d].slot.id # i

FreshVault(v) == v # vault /\ \A d \in Devices : /\ kv[d].vault # v
                                                 /\ proc[d] # Off => proc[d].slot.mk # v

\* create, join: refused if the data dir is already bound.
MayBind(d) == proc[d] = Off /\ kv[d].vault = None

Create(d) ==
  /\ MayBind(d)
  /\ \E v \in Vaults, i \in SlotIds :
       /\ FreshVault(v) /\ FreshId(i)
       /\ proc' = [proc EXCEPT ![d] = Client("create", [id |-> i, kind |-> "passphrase", mk |-> v])]
  /\ UNCHANGED <<vault, slots, kv, del>>

FailedWaits(d) == proc[d]

\* After a failed request the session goes on if it was open before.
Failed(d) == IF proc[d].pc = "add" THEN Client("open", kv[d].slot) ELSE Off

AcceptsAnyVault == TRUE

\* create_vault: its own lookup answers 409, and the UNIQUE singleton column
\* fails whoever passed the lookup and comes second.
AcceptsVault == vault = None

CreateVault(d) ==
  /\ proc[d].pc = "create"
  /\ IF AcceptsVault
     THEN /\ vault' = proc[d].slot.mk
          /\ slots' = slots \cup {proc[d].slot}
          /\ proc' = [proc EXCEPT ![d].pc = "bind"]
     ELSE /\ proc' = [proc EXCEPT ![d] = Failed(d)]
          /\ UNCHANGED <<vault, slots>>
  /\ UNCHANGED <<kv, del>>

\* join: GET /v1/vault, the first passphrase slot, unwrap the master key.
Join(d) ==
  /\ MayBind(d)
  /\ \E s \in slots : /\ s.kind = "passphrase"
                      /\ proc' = [proc EXCEPT ![d] = Client("bind", s)]
  /\ UNCHANGED <<vault, slots, kv, del>>

\* persist_bootstrap writes each kv row in a transaction of its own: vault_id
\* first, the keyslot after it; the other rows have defaults.
BindVault(d) ==
  /\ proc[d].pc = "bind"
  /\ kv' = [kv EXCEPT ![d].vault = proc[d].slot.mk]
  /\ proc' = [proc EXCEPT ![d].pc = "save"]
  /\ UNCHANGED <<vault, slots, del>>

SaveKeyslot(d) ==
  /\ proc[d].pc = "save"
  /\ kv' = [kv EXCEPT ![d].slot = proc[d].slot]
  /\ proc' = [proc EXCEPT ![d].pc = "open"]
  /\ UNCHANGED <<vault, slots, del>>

MayUnlockBound(d) == proc[d] = Off /\ kv[d].vault # None

\* unlock is local: it needs both rows.
MayUnlock(d) == proc[d] = Off /\ kv[d].vault # None /\ kv[d].slot # None

Unlock(d) ==
  /\ MayUnlock(d)
  /\ proc' = [proc EXCEPT ![d] = Client("open", kv[d].slot)]
  /\ UNCHANGED <<vault, slots, kv, del>>

\* add_recovery_keyslot wraps the key in memory under a code made on the spot.
AddRecovery(d) ==
  /\ proc[d].pc = "open"
  /\ \E i \in SlotIds :
       /\ FreshId(i)
       /\ proc' = [proc EXCEPT ![d] =
                     Client("add", [id |-> i, kind |-> "recovery", mk |-> proc[d].slot.mk])]
  /\ UNCHANGED <<vault, slots, kv, del>>

\* add_keyslot; the client shows the code once the answer is there.
AddKeyslot(d) ==
  /\ proc[d].pc = "add" /\ vault # None
  /\ slots' = slots \cup {proc[d].slot}
  /\ proc' = [proc EXCEPT ![d] = Client("open", kv[d].slot)]
  /\ UNCHANGED <<vault, kv, del>>

\* The request never arrives.
LoseRequest(d) ==
  /\ proc[d].pc \in {"create", "add"}
  /\ proc' = [proc EXCEPT ![d] = Failed(d)]
  /\ UNCHANGED <<vault, slots, kv, del>>

\* The server has done it, the client does not hear.
LoseAnswer(d) ==
  /\ \/ proc[d].pc = "create" /\ AcceptsVault /\ vault' = proc[d].slot.mk
     \/ proc[d].pc = "add" /\ UNCHANGED vault
  /\ slots' = slots \cup {proc[d].slot}
  /\ proc' = [proc EXCEPT ![d] = Failed(d)]
  /\ UNCHANGED <<kv, del>>

\* The client dies, or cannot write: only the kv rows remain.
Crash(d) ==
  /\ proc[d].pc \in {"bind", "save"}
  /\ proc' = [proc EXCEPT ![d] = Off]
  /\ UNCHANGED <<vault, slots, kv, del>>

\* The session is locked, or its process ends.
Lock(d) ==
  /\ proc[d].pc = "open"
  /\ proc' = [proc EXCEPT ![d] = Off]
  /\ UNCHANGED <<vault, slots, kv, del>>

MayDeleteLast == Cardinality(slots) >= 1

\* delete_keyslot counts in one statement and deletes in the next, under READ
\* COMMITTED.
MayDelete == Cardinality(slots) > 1

CountSlots(x) ==
  /\ del[x] = None /\ MayDelete
  /\ \E s \in slots : del' = [del EXCEPT ![x] = s]
  /\ UNCHANGED <<vault, slots, kv, proc>>

DeleteSlot(x) ==
  /\ del[x] # None
  /\ slots' = slots \ {del[x]}
  /\ del' = [del EXCEPT ![x] = None]
  /\ UNCHANGED <<vault, kv, proc>>

ClientStep(d) == Create(d) \/ CreateVault(d) \/ Join(d) \/ BindVault(d)
                 \/ SaveKeyslot(d) \/ Unlock(d) \/ AddKeyslot(d)

Fault(d) == LoseRequest(d) \/ LoseAnswer(d) \/ Crash(d)

Next == \/ \E d \in Devices : ClientStep(d) \/ Fault(d) \/ Lock(d) \/ AddRecovery(d)
        \/ \E x \in Deleters : CountSlots(x) \/ DeleteSlot(x)

Spec == Init /\ [][Next]_vars

\* Users who want in try again; nobody has to add or delete anything.
FairSpec == /\ Spec
            /\ \A d \in Devices : WF_vars(ClientStep(d))
-------------------------------------------------------------------------------
\* Every variable has its type (the vault and keyslot tables, the kv rows).
TypeOK ==
  /\ vault \in Vaults \cup {None}
  /\ slots \subseteq Slot
  /\ kv \in [Devices -> [vault : Vaults \cup {None}, slot : Slot \cup {None}]]
  /\ proc \in [Devices -> {Off} \cup
               [pc : {"create", "bind", "save", "open", "add"}, slot : Slot]]
  /\ del \in [Deleters -> Slot \cup {None}]

\* There is one master key: every row of the keyslot table, every bound data
\* directory and every session has the key of the vault the server keeps, even
\* when two first devices create at the same time and answers are lost.
OneMasterKey ==
  /\ \A s \in slots : s.mk = vault
  /\ \A d \in Devices : /\ kv[d].vault # None => kv[d].vault = vault
                        /\ kv[d].slot # None => kv[d].slot.mk = kv[d].vault
                        /\ (proc[d] # Off /\ proc[d].pc # "create") => proc[d].slot.mk = vault

\* delete_keyslot: "Never deletes the last slot".
LastSlotKept == vault # None => slots # {}

\* A data dir that holds a vault id and no keyslot refuses create, join and
\* unlock for ever.
Stuck(d) == proc[d] = Off /\ kv[d].vault # None /\ kv[d].slot = None

\* However the first creations race and whatever gets lost, every device gets
\* into the vault once faults stop, unless its bootstrap was torn or the last
\* passphrase slot is gone.
EveryoneGetsIn ==
  (/\ <>[][\A d \in Devices : ~Fault(d)]_vars
   /\ <>[](vault = None \/ \E s \in slots : s.kind = "passphrase"))
  => \A d \in Devices : []<>(proc[d].pc = "open" \/ Stuck(d))
===============================================================================
