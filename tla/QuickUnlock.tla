------------------------------ MODULE QuickUnlock ------------------------------
(***************************************************************************)
(* What quick unlock keeps on the disk (apps/mobile quick_unlock.rs): the  *)
(* device secret, the Stronghold snapshot that the secret opens, and the   *)
(* bookkeeping of passphrase entries and failed prompts.  They are three   *)
(* files that are read and written one at a time, under no lock; a record  *)
(* of them stands for the disk here.                                       *)
(***************************************************************************)
EXTENDS Integers

CONSTANT MaxFailed  \* MAX_FAILED_ATTEMPTS

ASSUME MaxFailedIsPositive == MaxFailed \in Nat \ {0}

NoKey == 0

\* load_meta of a missing or unreadable file.
NoMeta == [auth |-> "none", failed |-> 0]

\* Nothing enrolled.  Secrets are random: made counts them to tell them apart.
NothingStored == [secret |-> NoKey, snapshot |-> NoKey, meta |-> NoMeta, made |-> 0]

\* is_enabled.
Enabled(q) == q.secret # NoKey /\ q.snapshot # NoKey

\* The part of load_passphrase that looks at the bookkeeping: a passphrase was
\* entered in the last seven days, and not too many prompts failed since.
MayPrompt(meta) == meta.auth = "recent" /\ meta.failed < MaxFailed

SecretMade(q) == [q EXCEPT !.made = @ + 1, !.secret = q.made + 1]

NeverFound(q) == FALSE

HasSecret(q) == q.secret # NoKey

\* load_or_create_device_secret.
DeviceSecret(q) == IF HasSecret(q) THEN q ELSE SecretMade(q)

\* open_stronghold: a missing snapshot is an empty one, an existing one opens
\* with the secret it was saved under.
StrongholdOpens(q, key) == q.snapshot \in {NoKey, key}

\* save of an open snapshot.
SnapshotSaved(q, key) == [q EXCEPT !.snapshot = key]

\* record_passphrase_auth and record_failed_biometric_attempt, of the
\* bookkeeping they have read.
Authenticated(meta) == [auth |-> "recent", failed |-> 0]
PromptFailed(meta)  == [meta EXCEPT !.failed = @ + 1]

MetaSaved(q, meta) == [q EXCEPT !.meta = meta]

\* The three removals of forget.
SecretRemoved(q)   == [q EXCEPT !.secret = NoKey]
SnapshotRemoved(q) == [q EXCEPT !.snapshot = NoKey]
MetaRemoved(q)     == [q EXCEPT !.meta = NoMeta]

\* Seven days go by.
Aged(meta) == [meta EXCEPT !.auth = IF @ = "recent" THEN "old" ELSE @]
===============================================================================
